# Verification of wireless-esp8266-dap

This directory holds TLA+ models of the firmware of the wireless CMSIS-DAP
probe, the TLC configurations that check them and TLAPS proofs about them.
Paths below are relative to the repository's source.

## The system

The probe is a USBIP server: a debugger on the host attaches the probe as a USB
device over TCP, sends CMSIS-DAP commands as OUT transfers on endpoint 1 and
polls for their responses with IN transfers. An elaphureLink client uses the
same port with a protocol of its own.

| Component | Source | State | Operations and interactions |
|---|---|---|---|
| DAP task | `main/DAP_handle.c` | two ring buffers `dap_dataIN/OUT_handle`, `dap_respond`, mutex, task notification, `kRestartDAPHandle` | takes a command of dataIN, executes it, puts the response in dataOUT, counts it; on a restart signal deletes and recreates the buffers |
| TCP server | `main/tcp_server.c` | `kState`, `kSock` | accept, receive, dispatch by `kState`, close; signals and notifies the DAP task |
| USBIP protocol | `main/usbip_server.c` | none of its own | attach, submit, unlink; calls `fast_reply`, `handle_dap_data_request`, `handle_dap_unlink` in the server task |
| elaphureLink | `components/elaphureLink` | `el_process_buffer`, `k_el_context` | handshake frees the ring buffers; commands run in the server task |
| DAP commands | `components/DAP/source/DAP.c`, `DAP_vendor.c` | `DAP_Data`, transfer abort flag | dispatch, lists of commands, transfers with posted reads and retries, pins, clock |
| SWD/JTAG/SPI | `SW_DP.c`, `JTAG_DP.c`, `spi_op.c`, `spi_switch.c` | `SWD_TransferSpeed`, registers | one transfer on the wire, through pins or SPI |
| SWD host | `swd_host.c` | `dap_state`: cached SELECT and CSW | target access for programs on the probe; compiled, not called |
| SWO | `SWO.c`, `uart_modify.c` | trace buffer and its indices, status, errors | commands, UART interrupt, SWO thread, USB transport; compiled out |
| DAP UART | `UART.c` | receive and transmit buffers and their indices | commands and UART interrupt; compiled out |
| UART bridge | `main/uart_bridge.c` | event queue, `uart_netconn`, `is_conn_valid` | netconn callbacks, WiFi events and serial data meet in one task; built |
| USB endpoint 0 | `usb_handle.c`, descriptors | none | answers with constants |
| WebSocket server | `main/websocket_server.c` | framing state | frames of commands; not called at this commit |
| netconn transport | `tcp_netconn.c` | event queue, `kState`, `kNetconn` | the server by lwIP's callbacks; disabled by configuration |
| KCP transport | `kcp_server.c`, `components/kcp` | two queues and two buffers of segments, windows | messages over UDP; disabled by configuration |
| WiFi, start-up | `wifi_handle.c`, `main.c` | access point index, event bits | event handler |
| timer, monitor | `timer.c`, `monitor.c` | none | not modelled |

What is hard here is the sharing between the server task (priority 14) and the
DAP task (priority 10), which on the dual-core targets run truly in parallel:
the mutex guards only the counter and the creation and deletion of the buffers,
not their use; waits on full buffers have no limit; the reset after a
disconnection is asynchronous; and the restart signal is a plain variable that
both tasks write. `PROJECT.json` lists these hazards with their lines. What
makes the components correct:

* DAP task and server: every command is executed once and answered once in
  order; no response is stranded; nobody sleeps on work that is there; the
  tasks do not wait for each other; no buffer is used after its deletion; a
  client sees its own responses only.
* elaphureLink: while such a client is connected, the target is its alone.
* DAP commands: a posted read is returned once, to the right request; request
  and response counts agree when a transfer fails.
* SWD and JTAG: probe and target never lose step, never drive a line at once, and
  one device of a chain is addressed.
* SWD host: what is reported written, read or halted is so.
* UART bridge: bytes reach the one current connection; a closed one is not used.
* SWO, DAP UART: what is read was written, once, in order, also at index wrap-around.
* streams (WebSocket, elaphureLink, endpoint 0): messages are found in a stream
  that TCP cuts (anywhere for WebSocket; where the code is written for it
  elsewhere), and nothing that has come waits.
* KCP: messages arrive whole, once, in order, and in the end.

## The core: server and DAP task

* `DapBuffers`: the shared state, and `free_dap_ringbuf`.
* `DapThread`: the steps of `DAP_Thread`.
* `UsbipSession`: the server task with what it calls, and the client.
* `DapProbe`: the two tasks composed, the properties, and the refinement mapping.
* `ResponsePipe`: the abstract specification: a bounded FIFO of unanswered
  commands, emptied by a disconnection.
* `DapProbeProofs`: the theorems (see "Proofs").

State. A ring buffer is the sequence of its packets, a packet the number of its
connection and its number in it. An item received but not returned stays in the
sequence because its space is still taken. `dpc` and `tpc` say where the tasks
are. `notify` is the notification value. `sess`, `sent`, `owed`, `cut`,
`lastExec`, `lastReply` are history: only the limit on the client and the
properties read them.

Grain. A step ends wherever the other task can see the difference: `fast_reply`
is "see the count", "get the item and send it", "decrement", "return the item";
the reset is "see the signal", "free", "read the signal again", "allocate",
"clear the signal". Sending to the host is merged with the step that takes the
item, for nobody in the probe observes it. The mutex is held only inside single
steps, so that it needs no variable.

Use of deleted memory. FreeRTOS ring buffers are external; what deleting one
does to a task that is inside it, or holds an item of it, is undefined. The
model records such a use, or the use of a NULL handle, in `fault` and says
nothing of the device after it. Hence `hasty` (below) shows its properties for
behaviours up to the first fault; that there is no fault is `NoFault`, which
needs clients that wait for the reset. It does not hold of clients that do not.

`HostWaits` is this hypothesis, of `session` and `calm` and of the theorems called
"Calm". It is a property of the clients and not of the probe, which takes the next
client at once. What a hasty client meets is a deleted buffer, a restart signal that
is overwritten, or, over elaphureLink, the last command of the client before it
still running; no property checked forbids these, because the code does them.

Client. A receive action is one message a client may have sent and what the
probe does with it at once. Since the probe sees a message only when it
receives it, messages under way need no variable. One `recv()` returns one
message; what happens when it returns more is in `UsbControl`. A client keeps at most `Window` commands
unanswered. An IN poll when `dap_respond` is 0 is answered with no data and
changes nothing (`RecvOther`).

## The other parts

Each of these modules is a state machine of its own. They meet the core at its
interface only: a command is executed in one step there (`DapProcess`,
`RecvElCommand`), and here it is the whole of it.

They are checked together by four modules that instantiate them: `MCDap`
(commands and pins), `MCSwdHost`, `MCStreams` and `MCNetwork`; `MCKcp`
instantiates `Kcp` twice. The modules they instantiate share no state in the
program either, or only through what one of them takes for its input. Such a
behaviour is therefore one of a single part, which `part` names from the
beginning, and the other parts stay as they began: the states of the parts add
up and do not multiply. Some parts have two instances with other bounds or
clients (`DapUart` for receiving and for sending, `Netconn` for clients one after
another and side by side, `UartBridge` for polite and rude clients).

| Module | Models | State and steps |
|---|---|---|
| `DapCommand` | `DAP_ExecuteCommand`, `DAP_ProcessCommand`, vendor commands; both routes to them | `request` and `num` are the pointer and the packed sum of lengths; one step per command of a list; a list of transfers that fails returns the wrong lengths it does in the code |
| `DapTransfer` | `DAP_SWD_Transfer`, `DAP_JTAG_Transfer` | locals of the functions under their names; one step per packet on the wire, any acknowledge at any packet; the target posts reads and buffers writes |
| `TransferBlock` | the two block transfers | the same for blocks |
| `SwdWire` | `SW_DP.c`, `spi_op.c` | the wire as a string of clocks for probe and target; what a target is set to and what the probe is set to are separate |
| `SwjMode` | `DAP_Connect`, `DAP_Disconnect`, `DAP_SWJ_Clock`, `DAP_SWJ_Pins`, pin set-up of four chips | which engine is selected, and who has the pins |
| `JtagScan` | `JTAG_DP.c`, `DAP_JTAG_Configure` | TAP controllers and shift registers of the chain |
| `SwdMemory` | memory access of `swd_host.c` | caches and what the target has; transfers fail at once or later |
| `SwdTarget` | `swd_set_target_state_hw/sw`, flash functions | calls are lists of steps over a core with reset, halt, vector catch |
| `SwoBuffer` | `SWO.c` and the UART driver beneath | indices, status, flags of interrupt, thread, commands and USB transfer; thread and server share a transfer without a lock, one load or store at a time |
| `DapUart` | `UART.c` | indices and counts, read one by one while the interrupt moves them |
| `UartBridge` | `uart_bridge.c` | queue of events that name netconn slots, which are used again |
| `Netconn` | `tcp_netconn.c` | queue of events that name netconns; each client has one of its own, so that slots used again are in `UartBridge` only |
| `UsbControl` | `usb_handle.c`, and `recv` of `tcp_server.c` | headers and parts of descriptors on a stream that the host reads |
| `WsFraming` | `websocket_server.c` after the fields of the handshake | the buffer as positions in the stream |
| `ElStream` | `el_dap_work` and the scope of vendor commands | the buffer as positions in the stream, the scope, and whether a vendor packet is incomplete |
| `Kcp` | `ikcp.c`, `kcp_server_task` | two control blocks and a bag of datagrams |
| `MessagePipe` | the abstract specification of a transport: two lossless queues that deliver in the end | |
| `WifiConnect` | `wifi_handle.c` | driver, event loop, index of the list |

The theorems about them are in `MCDapProofs`, `SwdTargetProofs`, `SwdMemoryProofs`,
`MCSwdHostProofs`, `MCStreamsProofs` and `MCNetworkProofs`; `PrefixSums` has the
lemmas about positions that they share.

Abstractions that matter for reading them:

* Data are what the properties tell apart: values are numbered by the access
  that produced them, bytes of streams are their positions, descriptors are
  lengths, JTAG words have `W` bits, memory bytes are the write that put them.
* Hardware and libraries (target, TAPs, UART peripheral and driver, lwIP, WiFi
  driver, FreeRTOS queues, the host) are modelled from how the code uses them,
  and are marked external in the map.
* `Kcp` has no clock: a segment that was sent may be due again at any flush,
  which covers timeout and fast resend. The MTU is not reduced by the 3 bytes of
  the server's margin.
* `SwjMode` leaves the idle cycles and the pin waits out, `JtagScan` idle cycles
  and parity.
* `DapUart` reads index and driver count in two steps, and the interrupt may come
  between them. If a block ends there the code does not survive it (see
  "Disagreements met"); the model goes on, notes it in `torn`, and the properties
  say nothing from then on.
* `SwoBuffer` bounds the indices (`MaxIndex`) and does not wrap them at 2^32. This
  build has no SWO thread (`SWO_FUNCTION_ENABLE` is 0 in `DAP_config.h`), so that
  its priority is not known: any interleaving of thread, server, commands and interrupt is
  allowed. The server has a higher priority than the DAP task (14 and 10 in `main.c`).

Each definition that starts with "Mutant:" is a plausible bug in the definition
after it; the properties find them.

## Checks

| Run | Bounds | Shows |
|---|---|---|
| `session` | N=2, window 5, 1 connection, 7 commands | `TypeOK`; `PollsAnswered`: a poll that waits gets its response; `NoMutualBlock` at exactly 2N+1 unanswered |
| `calm` | N=2, window 5, 3 connections, 5 commands | `NoFault`, `BuffersWhileEmulating`, `ElOwnsTarget`, `OwnResponses`, and `ImplementsPipe`: refinement of `ResponsePipe` |
| `hasty` | N=2, window 4, 2 connections, 4 commands, failing allocations | `ResponsesCounted`, `CommandsNotified`, `ExecutedInOrder`, `RepliedInOrder` whatever the clients do |
| `live` | N=2, window 2, 2 connections, 3 commands | `ResetDone`, `CommandsExecuted` |
| `dap`, module `MCDap` | lists of 2 of 31 commands and of 3 of 13; lists of up to 3 of 9 kinds of transfers, 1 retry; blocks of up to 5 words, 2 retries; 4 chips, 2 engines, all SWD configurations, sequences of 8, 11, 51 and 256 bits; 3 ports, 8 clocks; chains of 1 to 3, words of 3 bits | `ListInStep`: a packet of commands and its answers are read where they begin, up to a list of transfers that fails; `TransferTrue`: posted reads stay in order, OK means complete, writes were carried out, the count of a failed list is true; `BlockTrue`: the same for blocks, without an access too many; `WireSound`: probe and target count the same clocks and never drive SWDIO at once (exceptions below); `SessionSound`: the selected engine has the pins, a delayed clock is not faster than asked (`fast_clock` and SPI have no delay and are left out), no session leaves reset held; `ScanExact`: one device is selected, gets and gives its bits, and the chain ends idle |
| `swd_host`, module `MCSwdHost` | 16 bytes in pages of 8, 2 calls, 1 failure; 3 calls on the target, 5 failures, 1 power cycle, hardware and software reset | `MemoryExact`: SELECT is what the cache says, what is reported written or read is so if the cache of CSW was right when the call began, and a write changes no word beside its range in any case; `CallsTrue`: the state asked for is reached (DEBUG as long as no power cycle came, of RESET_RUN that reset is released), a function of the target runs with all its registers; `Returns`: calls end |
| `streams`, module `MCStreams` | SWO: buffer of 8, USB blocks of 4, trace blocks of 2, a driver's ring of 1, 6 commands, 2 bytes, 1 error, indices up to 10; UART: buffers of 6 (blocks of 2) and 3, indices modulo 12, 7 bytes to receive and 14 to send; 2 bridge clients that may reset, 2 slots; 147 streams of 3 frames, 6 sizes of `recv`, 4 alignments; 36 streams of elaphureLink packets | `TraceSound`: errors are reported, and what the server loads is one transfer in the buffer, unless it is torn; `WholeBlocks`: only the last transfer is short, unless the capture started while it was cut; `BuffersSound`, `SentInOrder`: bytes in order, sent once, losses reported, the transmitter not left idle, unless torn; `OnceInOrder`: what a bridge client sends comes out once, in order, whatever is queued; `MessagesFound`: frames, cut anywhere, and packets, whose rest comes together, are found and none waits |
| `network`, module `MCNetwork` | 3 of the requests of enumeration, 2 in flight; 3 netconn clients, with resets when side by side; 3 access points, 4 events queued; 3 bridge clients, 2 slots, queue of 2 | `ReturnsInStep`: the host finds each return where it begins; `EventsFollow`: events, restarts, answers, the bridge and the LED belong to what happened; `Answered` (requests that have a return, in segments of their own), `UartIsSent` (the UART is emptied to the client of the bridge, no client being rude), `EachIsTried`: liveness |
| `kcp`, module `MCKcp` | 4 fragments for a window of 2, one of them a message of 2, while the probe sends 2, any order; 4 fragments one way with 1 loss or duplicate; and 3 messages, the second longer than the server's buffer; numbers modulo 16 | `NothingLost` (with the sizes of windows and buffers); `ImplementsPipe`: refinement of `MessagePipe`, with its liveness, for the messages before one that is too long |
| `packet_count` | N=10, window 255, 22 commands | `NoMutualBlock` violated: the advertised packet count blocks the probe |
| `unlink_lag` | N=1, window 1, 2 commands | `NoLaggingResponse` violated: an unlink does not catch a response that is not counted yet |
| `request_length`, module `MCDap` | lists of up to 2 transfers | `RequestLength` violated: a list that fails does not tell how long it was |

Why the bounds suffice: the states of a buffer that matter are empty, full and in
between, so two places are enough; 2N+3 commands fill everything and wrap the
roles once more; three connections allow USBIP, elaphureLink and USBIP again in
every order; two are enough for a client to meet what another left. The theorems
hold for every bound. In the other modules: three requests are one before, one
in and one after a pipeline of two; five words are a first, a last and more in
between than retries; chains of three have a device before and after the one
addressed; sixteen bytes are two pages of two words, so that every cut of a range
occurs; buffers have at least twice the blocks they must keep free, and indices
wrap within the bytes that come (the buffers of the UART are not powers of two, as the
code wants them for its masks, but 6 with blocks of 2, the least in which an overflow moves the index
back and bytes are overwritten while one may read them; a mask and a remainder are the
same for the sizes of the code); slots are fewer than clients, so that they are used
again; KCP's numbers wrap in the middle of a window.

Models that stop, because their clients, bytes or streams are used up, do not
check deadlock.

`hasty` does not check deadlock: a client that connects too early, or an allocation
that fails, really can stop the probe. In the other runs the server waiting for
a client (`NoClient`) is the only way to be idle.

Fairness (`FairSpec`): a task that can take a step eventually does (the
scheduler runs ready tasks, the server task blocks in `recv`, and the
millisecond time-outs expire). Nothing is assumed of clients: no fairness on
receiving, connecting or closing. `ResetDone` needs a window of at most N: with
more, the DAP task can stay blocked on a full dataOUT after the client is gone.

Of the other modules, these assume weak fairness: `UartBridge`, `Netconn` (their
task, of low priority, is not starved for good), `WifiConnect` (the event loop and
the driver), `SwdTarget` (the call goes on; a core that must
halt does), `UsbControl` (server and network go on), `Kcp` (`kcp_server_task`
loops every millisecond, so that each end flushes what is due, takes what has
arrived and gives the program what is whole; the number of lost datagrams is
bounded). `Kcp` writes weak fairness out, with the condition in which each
operation is enabled, because TLC would otherwise evaluate flushes to know it.
Nothing is assumed of hosts, targets and access points, but what a property names.

Refinement. `DapProbe` implements `ResponsePipe`, and `Kcp` implements
`MessagePipe`, with its liveness: `sent` and `got` are history variables of both
ends, and every step of flushing, losing, acknowledging or probing is a stutter.
`kcp_server_task` receives into a buffer of `MTU_SIZE`; `ikcp_recv` refuses a longer
message, and it stays at the head of the queue. The refinement maps `sent` to the
messages before the first of that kind (`Receivable`): they arrive, that one and those
behind it never do.

## Disagreements met

* `packet_count`: `DAP_config.h` says of 255 that it is the number of packets
  buffered; the buffers hold 10 (20 without mDNS and OTA). 22 unread commands
  block both tasks for ever.
* `unlink_lag`: the comment in `handle_dap_unlink` says that it eliminates the
  lagging response, assuming one outstanding. It does not when the command is
  still being executed.

* `request_length`: the comments of `DAP_SWD_Transfer` and `DAP_JTAG_Transfer`
  say that the upper half of what they return is the length of the request. For a
  list that fails it is not, and `DAP_ExecuteCommand` looks for the next command
  of the packet there. `DapCommand` has the wrong lengths too (`DAP_TransferFailed`),
  and `ListInStep` says nothing from such a list on.

Each of the following was met while writing the module, with the source beside
it. The models do what the code does; the properties that pass are stated, or
their inputs chosen, so that they do not depend on it.

| Module | Where | What the code does |
|---|---|---|
| `DapCommand` | `DAP_handle.c:244` | lists of commands work over elaphureLink only: `DAP_Thread` calls `DAP_ProcessCommand`, which answers them with `ID_DAP_Invalid` |
| | `elaphureLink_protocol.c:214` | a vendor command in a list reports no request bytes, and is executed again for the rest of the list |
| `SwdWire` | `SW_DP.c:288`, `302` | by SPI there are no idle cycles after reads, and `data_phase` is not looked at |
| | `DAP.c:559` | SWDIO is not released to capture a sequence |
| | `spi_op.c:151`, `SW_DP.c:149` | the mask for captured bits is wrong; a sequence of 256 clocks has none |
| `SwjMode` | `DAP.c:399` | `SWJ_Pins` restores SPI pins in a JTAG session after fast SWD |
| | `DAP_config.h:496`, `602` | JTAG set-up of three chips leaves TCK and TMS; `PORT_OFF` only releases nRESET |
| `SwdMemory` | `swd_host.c:236`, `204` | CSW is cached although its write failed (`Misled`), so that later calls use the wrong width; a first, posted read that fails is not seen |
| `SwdTarget` | `swd_host.c:969`, `828`, `922`, `991` | connecting under reset, a failure can lead to an endless wait for a halt; HALT may reset; RESET_RUN is caught by a vector catch that was left; DEBUG trusts the cache of another power cycle |
| `SwoBuffer` | `uart_modify.c:1316` | `kSWO_read_num` is not set back: later blocks are one byte |
| | `SWO.c:874`, `DAP_handle.c:153`, `175` | size, flag, place and length of a transfer are stored one by one: a server that finds the flag in between, or whose flag `ClearTrace` takes away, sends a new place with an old length (`torn`) |
| | `SWO.c:827` | a capture that starts after the thread looked at `TraceStatus` is followed by a short transfer (`started`) |
| | `SWO.c:796`, `350`, `756` | a stopped capture can be active again; bytes still in the driver are counted as captured; a paused capture is read on after a timeout |
| `DapUart` | `UART.c:586`, `618` | between the reads of index and count a block may end: an overflow is noted that was none, or the room to send is negative |
| | `UART.c:529`, `588` | the overflow is counted with the bytes of the unfinished block and the index is set without them, so that it may move back: up to a block less one of bytes already handed over comes again, with a loss reported (`ReadInOrder` says so; found by the proof) |
| | `UART.c:233` | disabling the receiver makes the next status note an overflow |
| `UartBridge` | `uart_bridge.c:137`, `271`, `280` | a client that resets keeps the bridge; events of a deleted netconn are handled, its pointer is written to, and data of a client not accepted is read |
| `Netconn` | `tcp_netconn.c:81` | a client that resets keeps the server |
| `UsbControl` | `usb_handle.c:212`, `tcp_server.c:116`, `usb_handle.c:225` | unknown requests, and requests joined in one segment, have no return; descriptors are sent whole whatever length was asked for |
| `WsFraming` | `websocket_server.c:598`, `421`, `247`, `584` | each part of a binary payload is executed as a command, and each part of a PING answered; a control frame changes what a continuation is; text in parts is copied to NULL |
| `ElStream` | `elaphureLink_protocol.c:120`, `190` | a part of a packet is taken for all of it; a scope cannot be left with an empty payload |
| `Kcp` | `kcp_server.c:132` | the control block of the first host stays for ever; another host is not served |
| | `kcp_server.c:147`, `ikcp.c:377` | a message longer than `MTU_SIZE` is refused and never removed: nothing behind it is received |

Also seen, without a line that claims the contrary: `dap_respond` keeps its
value over a reset, so that after a client left responses unread a later poll
may be left unanswered (`PollsAnswered` is stated for the first connection);
a client that connects before the reset may read old responses, lose commands,
or have a buffer deleted under it; the second test after `malloc_dap_ringbuf`
repeats dataIN and never looks at dataOUT.

## Proofs

TLAPS proves these theorems for all values of the constants, but for the
hypotheses named with them. Each follows from an invariant that is inductive,
and is proved action by action; where the property is not inductive by itself,
the text says what had to be added. `Spec => []P` is meant unless it says
otherwise.

### The core: `DapProbeProofs`

For any clients and any allocations:

* `TypeCorrect`: `TypeOK`. It is not inductive: returning an item must leave a
  sequence, so `HeldItems` says that a held item is still in its buffer.
* `CountCorrect`: `ResponsesCounted`, by `CountInv`: a task on its way to take
  a response has seen the count positive and only it decrements.
* `NotifyCorrect`: `CommandsNotified`, by `NotifyInv`: a buffer that does not
  exist is empty, and the DAP task allocates only what it has just freed.
* `ExecutionOrdered`: `ExecutedInOrder`, and `RepliesOrdered`: `RepliedInOrder`,
  which are action properties, by `OrderInv`: the last reply, dataOUT, the command
  in execution, dataIN and the one the server holds are in ascending order, over
  all connections and resets.

For clients that wait (`HostWaits`) and allocations that succeed
(`~AllocMayFail`), from one invariant `CalmInv`: `NoFaultCalm`, `BuffersCalm`,
`ElOwnsTargetCalm` (which says little: a client that waits finds the DAP task
idle), and, with `Window <= 2 * BufferNum + 1`,
`NoMutualBlockCalm`. `CalmInv` says in which states each kind of connection
finds the DAP task (`PhaseInv`), what a reset leaves (`ResetInv`), and that the
commands a client is owed are each in one place (`OwedInv`), which is the count
that bounds the buffers. With it and `OrderInv`:

* `ProbeImplementsPipe`: `ImplementsPipe`, the refinement of `ResponsePipe`,
  step by step: what the pipe holds is the sequence of pending commands.
* `OwnResponsesCalm`: `OwnResponses`; `OwnInv` follows the refinement, because the
  pipe is empty when a connection begins.
* `PollsAnsweredCalm`: `PollsAnswered`, by `FirstInv`: on the first connection
  nothing is counted that is not there. Nothing is said of later ones, where the
  count may be left over.

### Sums: `PrefixSums`

Where a command of a list, a frame of a stream or a device of a chain begins is
the sum of the lengths of those before it, which the modules write as recursive
functions. `PrefixSums` proves that such a function is the only one with its
equations and that it grows, for sequences of any length. Induction over naturals
(`UpTo`) is had there from the well-foundedness of `<`: a set of naturals that has
0 and with each its successor has them all, which is stated of a set, not of
an operator.

### Commands and the wire: `MCDapProofs`

* `ListsInStep`: `ListInStep`, for every list of up to 127 commands of a packet each
  (half of the 16 bits that count what has been read is one less than 128 packets),
  of all kinds and any contents the protocol allows. `CommandInv` says that while
  a list is read the count of bytes behind is the sum of the lengths of the commands
  done, and the count of bytes written that of their answers; the lemmas before
  it show for each command that what the code says it has read is its length. This
  goes on up to the first list of transfers that fails, whose length is never
  right, the first for a JTAG device that is not there, and the first command of
  unknown length or of elaphureLink; from there on nothing is said.

* `TransfersTrue`: `TransferTrue`, for lists of any length and mix, any retry
  counts, any port and any acknowledges. `TransferInv` has two parts. `LoopInv`
  says for each place in the loop what the request there is like, what is posted
  in the target, how far the command has been parsed and that a write not yet
  checked is known to `check_write`. `StoredInv` says that the response consists
  of the items of the requests done, in rising order, but for the value that is
  still posted, and the log of their writes. Both are sets of numbered
  items in an order, not sequences put together from the list, so that a request
  adds to them what it adds to the response (`ItemsNext`, `BytesNext`) and no
  induction over the list is needed.
* `BlocksTrue`: `BlockTrue`, for any length, port, retry count and acknowledges.
  `BlockInv` relates the accesses the target has seen, the words stored and the
  value posted, for each place in `DAP_TransferBlock`.
* `SessionsSound`: `SessionSound`, for any clock and on every chip. `ModeInv` adds
  what each session relies on when a slower one follows a fast one. That the clock
  is not exceeded is said of the delay loop; `fast_clock` has none, and SPI
  runs at 40 MHz for every clock from 10 MHz on (`DAP.c:431`).
* `WiresSound`: `WireSound`, which is about single packets and so an action
  property; for every packet, configuration and acknowledge the two strings of
  clocks are compared letter by letter, idle cycles and data of any length. Left
  out, at the definitions too: that both drive SWDIO, on the ESP32-S3 without SPI, whose
  pins are not released; idle cycles and data phases by SPI; and by SPI
  the lengths of some captures and of sequences of 256 bits.
* `ScansExact`: `ScanExact`, for chains of any length, instructions of any length
  from four bits on and words of any width. A scan is one step of the model, a
  string of clocks shifted through the chain; the lemmas say what is in each register
  after it, from where each device has its bits, a sum of lengths
  (`PrefixSums`). `JtagInv` says that the set-up belongs to the chain and that the
  instruction a scan leaves out, because it was selected before, is still in (`StillIn`).

### SWD host: `SwdTargetProofs`, `SwdMemoryProofs`, `MCSwdHostProofs`

* `HostTyped`: `TypeOK`; `CallsSound`: `CallsTrue`, for hardware and software
  resets and any number of failures, calls and power cycles. Of DEBUG it says that
  debug is enabled as long as no power cycle came, of RESET_RUN that the reset is
  released. `TargetInv` says for
  each step of each call what the steps before it have left in the core, and that
  the cached CSW is stale only after a power cycle.
* `MemorySound`: `MemoryExact`, for any memory, page size and ranges. `MemoryInv`
  says how far the pieces of a call have come and that what is behind `address` is
  written, or read, byte by byte, if the call did not begin with a wrong cache of
  CSW (`ExactInv`); and, if it did, that the accesses stay in the words of the range
  (`ContainedInv`): TAR begins with the piece and moves on by the width the target
  has, so that each access begins in the range.

`MCSwdHostProofs` instantiates the two modules of lemmas for each part and
composes their invariants in `HostInv`.

### Streams: `MCStreamsProofs`

* `MessagesAreFound`: `MessagesFound`, for any frames and packets, sizes of `recv`
  and alignments. `WsInv` says in each state of the worker where in the stream the
  buffer begins, what has been read of the frame that begins or lies there, and by
  how much the mask is turned; `ElInv` the same for packets. For elaphureLink it
  has the hypothesis `RestTogether` that the run has too: the rest of a packet comes at
  once when its first bytes have come (see `ElStream` under "Disagreements met").

* `ChunksInOrder`: `OnceInOrder`, with clients that reset as well. `BridgeInv`: a
  client has one slot, the numbers in its inbox rise to the last sent
  (`Inboxes`), and what came out of the UART or set the baud rate is behind all of
  them (`Behind`), rising, and never both.
* `TraceTold`: `TraceSound`, by `BankInv` (each error is in the status, in what
  the answer has taken of it, or told), `QueueInv` (what is stored so far of the
  transfer the thread has cut) and `ServerInv` (what the server has loaded is what
  was stored, unless it is `torn`).
* `TransfersWhole`: `WholeBlocks`, an action property, from the same; `TimeoutInv`
  ties the thread's flags to the status it saw, as long as no capture has `started`.
* `BytesSent`: `SentInOrder`, an action property, until it is `torn`, for
  any size of the buffer and however often the indices wrap. `TxInv`: there are
  two numbers that never wrap, of bytes put in and of bytes sent in blocks, of
  which the indices are the remainders (`TxIndex`); they differ by at most the
  buffer (`TxSpan`), and the bytes between them lie in their places (`TxBytes`).
  What a command has read is, whatever the interrupt does since, no less than what
  is still to be sent (`TxStage`).
* `BuffersTrue`: `BuffersSound`, by `TxInv` for the transmitter and `RxInv` for the
  receiver: what lies within a buffer's length of the last byte is the byte it
  should be (`RxRing`); the host's index is where the host expects it unless a loss is
  known, and then behind that by less than a block, or ahead (`RxPlace`). Two
  hypotheses: what comes while a command runs is at most
  a block; fewer bytes come in all than an index counts, 2^32 in the code: a host that does
  not read for so long is told of fewer than came. The run satisfies both. And
  both theorems say nothing once a block has ended between the reads of a command
  (`torn`): nothing keeps the interrupt away there, and the code does not survive it.

### Network: `MCNetworkProofs`

* `NetworkTyped`: `TypeOK`, for any clients, slots, sizes and access points.
* `ReturnsAreInStep`: `ReturnsInStep`. `UsbInv`: there is a function over the
  stream that says how many bytes are still announced before each of its parts;
  it starts with what the host counts and ends with zero. The numbers of what was
  returned, is returned and is still asked rise in that order.
* `EventsAreFollowed`: `EventsFollow`, when `EventsFit`. It is three invariants:
  * `ServerInv` for the clients of `Netconn` side by side: as many events of a
    client as items in its inbox, as many of the listening netconn as clients that
    wait, each before the first event of its client (`InTurn`), and no more answers
    and items than requests. The queue never overflows because of what it can
    hold of each client (lemma `Room`: a sequence in which `n` values come at most
    `k` times each is at most `n * k` long). A client that is reset leaves its
    events behind, so that `ServerInv` says less of those.
  * `BridgeInv` for the bridge with polite clients: a slot that is open has an
    item for each of its events, and the others have no event. The queue may
    overflow here: fewer events than items are allowed.
  * `WifiInv` for the connection: what is queued belongs to one attempt of the
    driver, which ends with its disconnection; only its handler begins the next.

### What is assumed

Constants: sizes and counts are naturals, not zero where the code would divide by
them or fill them; sets are finite; names of slots and clients differ from the
names of the events that are not theirs. `SwoAssumption`, `TargetAssumption`,
`MemoryAssumption`, `BridgeAssumption`, `NetconnAssumption` and the others say so
in their modules, and `PartsAssumption` of each module of runs joins them. TLC
evaluates each of them in a run. Seven say more:

* `MemoryAssumption`: pages are whole words, and ranges lie in the memory.
* `PartsAssumption` of `MCNetwork`: a configuration of 9 bytes and its interface
  is at most the 255 bytes a host asks for when it wants all of it. It has 39 to
  57 bytes in the descriptors.
* `UartAssumption`: the receive buffer is whole blocks and more than the two that are kept
  free, and both buffers divide the word of an index. In the code sizes
  are powers of two (`UART.c` masks the indices), 1024 with blocks of 32.
* `CommandAssumption`: a debugger sends what the protocol defines. Each command is
  as long as its fields say (`Written`), none is longer than a packet, and a list is
  no longer than half of 64 KiB.
* `WsAssumption`: frames have one of the three forms of length of RFC 6455.
* `ElAssumption`: a packet fits the buffer, a vendor command has its header, and
  commands without one come outside of a scope only.
* `EventsFit`, a hypothesis of `EventsAreFollowed` only: the queue of events has a
  place for each item lwIP keeps for each client, and for each connection. A
  queue of 50 (`tcp_netconn.c:43`) has it for 7 connections with the 6 items of
  `sdkconfig.defaults.esp32`, for 2 with the 16 of the ESP8266, and for none with the 64 of
  the ESP32-S3, where a client that sends faster than the task reads may lose
  an event. Connections are counted whether they are closed or not, because
  events of a connection that was reset stay queued. `network` satisfies it exactly
  (9 places, 3 clients, 2 items).

Two definitions were not what was meant, which the proofs showed: in
`DapTransfer` and `SwdTarget` the arms of a CASE overlapped, so that the one
taken was arbitrary where the code tests them in order. They are now IF chains.

### Model-checked only

* `MCDap`: `TypeOK`, which is of all six parts.
* `MCStreams`: `TypeOK`.
* `NothingLost` and `ImplementsPipe` of `Kcp`, whose flush and input are folds over
  segments.
* Liveness (`ResetDone`, `CommandsExecuted`, `Returns`, `Answered`, `UartIsSent`,
  `EachIsTried`, and that of `MessagePipe`): the prover has neither ENABLED nor
  fairness.

## Not modelled

* `timer.c` (a hardware counter) and `monitor.c` (prints): no state that anything
  depends on.
* mDNS and OTA at start-up; the static address and the choice of 802.11 modes.
* The registers behind SPI and pins; the strings of `DAP_Info`; byte order and the
  device list of USBIP; the fields of the WebSocket handshake.
* SWO timestamps and extended status; a UART driver that cannot be installed or
  whose ring overflows.
* Lost memory: allocations fail in `hasty` only.
* The FreeRTOS byte buffers are sequences of packets: their sizes are multiples of
  `DAP_HANDLE_SIZE` (`DAP_handle.c`), so that a packet is never split.

## What remains

* To prove: that numbers in both windows of `Kcp` differ by less than half of the
  modulus, which `NothingLost` rests on.
* Hazards that no property covers, because the code does what they warn of
  (`PROJECT.json`, "hazards", those without properties): the count that survives a
  reset, the restart signal that is overwritten, two tasks on the pins after a
  hasty change to elaphureLink, and requests joined in one segment. Others are
  covered in part, with the rest in their notes: deleted buffers under hasty clients, stores of a
  trace transfer, reads of a UART index and its count, a wrong cache of CSW, events of a
  netconn that is gone, and packets of elaphureLink cut more than once.
