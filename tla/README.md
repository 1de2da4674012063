# A verification project for lkv373-tools

lkv373-tools is a set of programs for taking an HDMI extender (LKV373A, an NDS32
processor) apart: a disassembler, call-graph tools, replacement firmware, and above
all a simulator that runs the original firmware under a debugger. This directory
models the parts of it that carry state, checks the models with TLC and proves the
core of them with TLAPS. Paths below are relative to the repository; MANUAL.TXT is
`simulate/MANUAL.TXT`.

The checks run from this directory:

    tlc -workers 2 -config MCDebug.cfg MCSimulator # model checking, one per .cfg
    tlapm SimulatorProofs.tla                      # proofs

## 1. Inventory

### The simulator, `simulate/`

One process, one thread, one asynchronous actor (the SIGINT handler). `main` reads
keys from seven windows and dispatches them; a `run` command enters `run_sim`, which
does not come back until its steps are used up, an error or breakpoint ends it, or the
user presses Ctrl+C. Everything is static data of the compilation units.

| Component | State | Operations | Interacts with |
|---|---|---|---|
| simulation loop: `simulate.c`, `main.c` | registers, PC, `sigint_received` | `run_sim`, `single_step`, `sim_step`, `simulate` | everything |
| special registers and interrupts: `special_regs.c`, `interrupt_ctrl.c` | PSW, IPSW, IPC, INT_PEND | `trigger_interrupt`, `check_for_pending_irq`, `special_reg_setgie` | timer, loop |
| timer: `timer.c` | counter, reload, match, prescaler, request | `timer_tick`, `timer_write`, `timer_clear_irq` | ticked by every step |
| breakpoints: `breakpoints.c` | a table of at most 20 entries | create, remove, enable, disable; a walk before each instruction and on each access | scripts call the command parser from inside a walk |
| memory: `memory.c`, `peripherals.c`, `cpe.c` | 256 pages allocated on first write, a mark per byte | get and set of byte, halfword, word | devices, breakpoints |
| load/store multiple: `mem_rw.c` | none | lmw, smw, lmwa, smwa | memory, breakpoints |
| UART: `uart.c`, `window.c`, `dispatcher.c` | receive FIFO, status bit, event buffer | keypress, register read and write | window, firmware, memory view |
| call tracer: `os_info.c`, `hooks.c` | stack of pointers to return codes | call and return of traced functions | called from the epilogue of a step |
| command parser: `cmd_parser.c` | argument array, open scripts | `parse_input`, `execute_script` (recursive) | everything |
| other devices: `sspc.c`, `flash_spi.c`, `i2c.c`, `mac.c`, `gpio.c`, `power_management.c` | registers, FIFOs, transfer state | register read and write | memory; MAC also tap and files |
| connectors: `connector_serial.c`, `connector_tap/` | last value read, serial line | register access forwarded to a real device | firmware in `custom_firmware/connector_to_simulator` |
| endless-loop detector: `endless_loop_detect.c` | ring of states | compiled out by the default `make` | loop |
| views: `*_view.c`, `verbosity.c`, `os_func.c`, `os_common.c` | scroll positions | print | read memory, and device registers with it |

### The other programs

`disassm/` decodes instructions (tables; the 16-bit forms are translated to 32-bit
ones); `callgraphs/`, `list_calls/` and `codeflow/` walk an image along its calls and
branches; `binfind_v3.c`, `bindiff_v4.c` and `strings.c` search images;
`test_receive/` assembles JPEG frames from UDP datagrams; `custom_firmware/` is
firmware for the device (serial command parser, I2C driver for the HDMI receiver, SSP,
JPEG tables); `run_own_code/` and the Perl files rewrite files. `radare2_patch/` is a
copy of the disassembler and `custom_firmware/Hello World` an early copy of the
connector firmware.

### What is hard, and what makes each component correct

* **Order inside a step.** Tick, interrupt entry, decode, walk, instruction, access,
  second walk, epilogue. A breakpoint looks at the machine in the middle of this and may
  end it there. Correct: a stopped step is a step not taken, a store taken entirely, or a
  load multiple left between two words, whose PC and base register have not moved;
  a breakpoint before an instruction is never overrun; the firmware cannot tell that it
  is being debugged.
* **Re-entrance.** A script breakpoint runs commands in the middle of a walk over the
  table they edit. Correct: the table stays bounded and free of duplicates.
* **Asynchrony.** Ctrl+C at any moment; timer interrupts between any two instructions.
  Correct: a run always ends when asked, an interrupt is served once, and returns to
  exactly where it came from.
* **Numeric edges.** The 32-bit down counter wraps, the breakpoint number is cut to 8
  bits, a frame of load/store multiple wraps around address 0. Correct: the timer's
  period is exact, a restore undoes its save.
* **Buffers.** Terminal, event buffer (50), receive FIFO (32), pointer stack (5): each
  full at some time. Correct: only what the limit says is lost, and it is the oldest.
* **Two programs on a link.** Simulator and device over a serial line, simulator and tap
  connector over pipes, blocks from the network: late, partial, merged, lost, repeated.
  Correct: what is accepted is in order and whole, or the program says so and ends.
* **Two descriptions of one instruction.** The disassembly text, the translation of 16-bit
  forms and the operands the simulator takes are written three times. Correct: they agree.
* **Walks that cut.** The graph tools stop at addresses they know. Correct: nothing
  reachable is lost, nothing is shown that is not there, and they end.
* **Side effects of looking.** A device register that pops a FIFO is read by views, by
  dumps and by an access that a breakpoint then cancels.

PROJECT.json lists these as hazards with their lines and the properties aimed at them.

## 2. Modules

    Timer ----- TimerDev ..refines.. PeriodicTimer
      \
    Isa -- BpTable -- Simulator -- SimProps -- MCSimulator -- MCTransparent, DocClaims
      \                 |             |  \        (debug, live)  |
       MainProgram      |             |   Transparent ----------+-- TransparentProofs
       (refined by      |             |                                |
       Transparent)     +-- SimulatorProofs --------------------------+

    RxFifo -- UartConsole -- MCUart, UartProofs           (refines LossyQueue)

    TimerDev, MemoryMap, Gpio, I2cBus, OsCalls -- MCMachine
    TimerDev, OsCalls, Gpio, MemoryMap, VideoReceiver -- DeviceProofs

    Decoder32 -- Decoder16, Executed -- DecodeInstr
    LoadStoreMultiple -- StackFrame; DecodeInstr, StackFrame -- InstructionProofs
    Scripts -- ScrProofs                                  these -- MCTools
    FlowProgram -- CallGraph, CallList, CodeFlow -- GraphProofs

    SspFlash, SerialLink, TapLink, VideoReceiver -- MCDevices
    I2cBus, SspFlash, SerialLink, TapLink -- LinkProofs

`MCMachine`, `MCTools` and `MCDevices` check several components in one run. A variable
(`part`, `tool`, `device`) chooses one of them for a whole behaviour and the others stay
in their initial state: they share no state in the code, so their interleavings would
only multiply the states. Components that do interact (loop, breakpoints, timer,
interrupts and memory; UART, windows and firmware; connector, line and device) are one
module or composed in one.

### Simulator (with Isa, BpTable, Timer)

| Model | Code |
|---|---|
| `mode`, `left` | main's prompt, `run_sim`'s step counter, `single_step` |
| `phase` | position in `sim_step` and `simulate`: `fetch`, `pcscan` (walk before the instruction), `exec`, `memscan` (walk on the access), `words` (between two words of a load or store multiple), `end` |
| `cpu` | `PC`, `regs`, special registers |
| `mem` | words: a value, `Undef` (page allocated, never written) or `NoPage` |
| `io` | `int_clear_reg` and the receive FIFO of the UART, which a read empties |
| `bp`, `idx` | the table and the walk's loop variable |
| `stop`, `manip`, `ret`, `acc`, `instr` | `stop`, `PC_manipulated`, the `sim_t`, the access, the decoded instruction |
| `resume`, `before` | history only: the PC an interrupt suspended, the machine when the step began |

A step of `run_sim` is several actions. It is split where the walk looks at one table
entry, because an entry may run a script; Ctrl+C can come anywhere. `Fetch` is
everything from the tick to the decoded instruction; `ScanPass`, `ScanStop`, `ScanJump`,
`ScanJumpNull` and `ScanScript` are what one entry does; `ScanPcDone` the decision after
the walk; `Exec*` the instruction up to its access; `Finish*` what follows it: the next
word of a load or store multiple or the end of the instruction;
`EndIteration` the tests at the bottom of `run_sim`. The local variables of a step are
forgotten with it.

Abstractions. The roughly 100 opcodes are 16 families (`Isa`), the opcodes of one having
the same control; an arithmetic result is a constant. `lmw` and `smw` are the four
instructions of LSMW: one access and one walk for each word. A store multiple goes on
after a stop and is executed entirely; a load multiple is left at the word that is stopped
or uninitialised with the words before it in their registers, and it is left by a stop in
`s` too (`mem_rw.c:112` does not know that `s` ignores stops). Their effective address
and what they add to the base register are constants of the record; register lists,
addressing modes and base registers in detail are in `LoadStoreMultiple`. The base update
of LWI.bi and SWI.bi is left out, and SIM_GENERIC_ERROR ends a step as SIM_UNIMPLEMENTED does.
A read of the UART register takes its character whatever the walk decides afterwards.
Addresses are a few words, in pages that are allocated
separately; byte and halfword accesses are left out. Register 31 and others outside
`Reg` do not exist. The value a load compares when the word was never written is an
uninitialised local in the code: any value of `Garbage`. A jump breakpoint on a memory
access stores through a null pointer (`breakpoints.c:505`): the simulator crashes and is
started again. The image is fixed: a store never changes an
instruction. A script holds one command; a line that is rejected (`bad`) raises `stop`,
as the code does. Commands that start a run from a script are not modelled.

### MainProgram, Transparent

`MainProgram` is the firmware image executed by a processor without timer, interrupts and
debugger; it stands for no code but for what the code is to preserve. What it allows
beyond an ordinary processor is `LoadPart`: a load multiple may load any one word and be
executed again, which is what the code makes of a stopped one; a store multiple is one
step of it, whatever stops it meets. `Transparent` maps the
simulator to it (`MainPc`, `MainRegs`, `MainMem`) and says for which images and sessions.

### UartConsole (with RxFifo, LossyQueue)

Keys wait in the terminal of the UART window while a run goes on; back at the prompt
`ReadInput` takes what `read_input` takes and `Keypress` is one turn of the loop over
the events; `Poll` and `Read` are the firmware's `inbyte()`. `View` is any reader that is
not the firmware. `RxFifo` is the array and counter as the code moves them. The history
variable `spoiled` says that a limit was hit or somebody else read the register; it
guards no action.

### MemoryMap, Gpio, OsCalls, TimerDev

`TimerDev` is `Timer` under any sequence of ticks and register accesses. Its variable
`beat` is history: it changes with every call of `timer_tick` and with nothing else, so
that a tick that does nothing, or the wrong thing, cannot be taken for an access of the
firmware when it is compared with `PeriodicTimer`.

`MemoryMap`: `mm.bytes` is the memory by physical address, a flash page and an SDRAM page;
`MemPhys` is `remap_addr`, `MemGet` and `MemSet` the three sizes, whose shifts are
`MemJoin` and `MemByteOf`. The array of marks is the value `MemUndef`. An access across the end of a page leaves the array in the code and
is not taken.

`Gpio`: a register is the set of pins that are 1. `GpioWrite` and `GpioRead` are
`gpio_write` and `gpio_read`, `gpio_init` and `led_on_off` the driver, whose `REG |= bit`
is a load and a store; `GpioStore` is any store of the original firmware.

`OsCalls`: the tracer's stack against the calls that really wait. Tasks and their
scheduler belong to the firmware image; any task may call and any waiting task return.

### Decoder32, Decoder16, Executed, DecodeInstr

`Decoder32` and `Decoder16` are the opcode tables and what `decode_disassm32.c` and
`decode_disassm16.c` compute from a word: the fields of `instr_t`, the mnemonic with its
operands (`Text32`, `Text16`; the layout is left out), and `Translate`, the 32-bit form of
a 16-bit instruction. `Executed` is independent of both: the operands `simulate.c` takes
out of `instr_t` for each opcode: MULR64 and MULSR64 work on the pair of registers that
`rt & 0x1e` names, whichever of the two the text shows; user register 31 of group 0 is the
PC in both directions; a JREG of unknown kind does nothing but go on.
`DecodeInstr` runs both calls of `decode_instr` on a
word. Values of 32 bits are signed integers.

### LoadStoreMultiple, StackFrame

The four instructions as functions on registers and memory, with the quirk that lmwa and
smwa exchange r28 and r31, and that ERRX ends the simulator when the addresses do not add
up. `StackFrame` uses them as a compiler does: save, body, mirrored restore, where a
breakpoint or an uninitialised word can end the load after any number of words and the
instruction is executed again.

### Scripts

`scr.stack` is the C stack: scripts with the lines still to be read, runs with their step counter
and their place in the walk. `Parsed` is `parse_input`, `ScrLine`, `ScrBadLine` and
`ScrEnd` are `execute_script`, `ScrStep`, `ScrWalk` and `ScrStepEnd` one step of `run_sim`.
A line is one of `run`, `read`, `setpc`, `s` and a bad one; an instruction only moves the
PC. `scr.arg` is the argument array that all lines share.

### FlowProgram, CallGraph, CallList, CodeFlow

A firmware file is a function from addresses to instructions of ten kinds (`FlowProgram`),
one address each, with one register; `Reached` is the reference for what control can
reach. In `CallGraph` and `CallList` the recursion of `go` is a stack of frames and an
action handles one instruction; in `CodeFlow` there is the sweep for block addresses
(`CfSweep`) and then `parse`, whose buffer of text is the sequence of the addresses in it.
A line of `list_calls` has the tabs of its depth modulo `ClDepths`, 256 in the code, where
the depth and the loop that writes tabs count in a `uint8_t`; `nest`, the true depth, is
for the property.

### I2cBus, SspFlash, SerialLink, TapLink, VideoReceiver

* `I2cBus`: the controller's state machine and the receiver's registers as in `i2c.c`. The
  driver is the sequence of accesses its two functions make (`i2c.todo`); the user's
  command `hdmi` comes between any two. Register numbers and status values are the code's.
* `SspFlash`: transfers of the flash commands, answered at once into the receive FIFO, by
  any firmware that does not read behind the end of the flash (`flash_spi.c:71-75` does not
  check it, and reads past its array then), and the erase sequence of `go_into_bootloader`. A word of the flash is
  named by its address.
* `SerialLink`: the simulator's two calls, the line in both directions with loss and
  delay, the device that collects and executes requests, and a restart of the simulator
  with requests still on the line. A request is three units; the port may hold only
  a part of a reply when it is read. Three addresses are special in the code and in the
  model: a write to 0x9090a80c is dropped (`SlSkips`), one to 0x9090c208 is also kept, and
  a read of 0x9090c20c gets the value kept and never reaches the line.
* `TapLink`: `mac.c` with its saved registers, packets sent as three writes to a pipe or
  into one of 256 files, packets received from a pipe or a file, and the loop of the
  connector program, at any speed relative to the simulator. A packet is a number: its
  size is left out, and with it the copy into `rx_buffer` (`mac.c:262`), which trusts the
  size that came with the packet.
* `VideoReceiver`: blocks that are lost, doubled, reordered or not blocks at all; the
  1020 bytes of a block are left out.

## 3. Runs

| Run | Bounds | Shows |
|---|---|---|
| `debug` | 23 sessions (image and table), 2 table entries, six scripts, eight commands, a FIFO of one key | type, `StopBeforeInstr`, `FailedStepIsAtomic`, `JumpOnlyMovesPc`, `TableOK` |
| `transparent` | 32 sessions (eight images, four tables), interrupts every 8 steps, runs of 1, 2 or unbounded steps | `ReturnAddress`: an interrupt returns to where it came from; refinement of `MainProgram`: the firmware cannot tell that it is debugged |
| `live` | 10 sessions, two in which an interrupt has to wait; fairness | a bounded run ends, Ctrl+C ends a run, an interrupt is served |
| `uart` | FIFO 2, event buffer 3, terminal read 4, five keys | no key lost, repeated or overtaken; refinement of `LossyQueue`; data is read |
| `machine` | 4 counter values, prescaler 2; 2 pages of 4 bytes with 2 values; 3 pins; 3 receiver registers, 2 values; three tasks, stack of two, five calls | refinement of a timer of exact period, and it fires if left alone; `MemSizesAgree` and `MemStoresInPlace`; `GpioDriverIsRight`; `I2cWriteArrives`, `I2cWriteEnds`; `TracerIsRight` |
| `tools` | all 16-bit words, 32-bit words of every opcode and sub-opcode with chosen fields; 160-byte address space with every addressing mode; 6 script setups, 3 open files; all programs of 4 instructions (call list: also of 5 made of calls, depths counted modulo 3; codeflow: also of 5 and 6), tables of 3, 4 and 5 entries | `ShownIsExecuted`, `DecodeOnlyAgrees`; `RestoreUndoesSave`, `FrameOnly`, `ExitsOnlyOnBadList`; `ScrKeepsItsOwn`, `ScrEnds`; `CgWalksEverything`, `CgTreeOfCalls`, `ClIndentation`, `CfFlowIsShown`, `FlowEnds` |
| `devices` | FIFO 2, flash of 2 words, 4 transfers; the three special addresses and one more, 2 values, 1 unit lost, 2 runs; 4 saved registers, 2 packets each way, 2 files; 2 frames of blocks 0 to 2, frames of 3 blocks | `SspReadsTheFlash`; `SlRemoteMemory`; `MacRemembers`, `TapDelivers`; `RcvWritesInOrder` |
| `claim_*` | small sessions made for the purpose | the divergences of section 6 |

What the larger properties say:

* `ShownIsExecuted`: the text the disassembly shows for a word and the operands the
  simulator uses are the same operation on the same operands, through the 16-bit text on
  one side and the translation to 32 bits on the other. `SLTI` with a negative constant is
  left out, and where the text has no name for a user register nothing is compared but that
  the simulator ends or takes the PC: see section 6.
* `DecodeOnlyAgrees`: the short call of the decoder, which the simulator uses, gives what
  the full call gives; of a word the full call refuses nothing is executed, except that a
  register jump of unknown kind is stepped over.
* `FailedStepIsAtomic`: a step that is stopped or fails has done nothing, or a whole store,
  or the loads up to the word that stopped it, and what a read of a device register took.
* `ScrKeepsItsOwn`: a run that ends regularly has done the steps of its own line, although
  lines executed inside it overwrote the shared argument array.
* `CgWalksEverything`, `CfFlowIsShown`: a finished walk lost nothing that is reachable,
  although it stops at known targets and on returns. The reference is `Reached`, which
  knows nothing of the tool's tables. Computed jumps are outside the promise of the tools.
  An edge of `codeflow` counts only if the node it leads to is in the picture; the two kinds
  of edges for which the code does not see to it are named in the definition
  (`CfShownBehind`) and in section 6. Each of them occurs within the bounds.
* `ClIndentation`: who takes the line above with fewer tabs for the caller is right, up to
  the first call nested deeper than the tabs can say.
* `ImplementsPeriodicTimer`: every simulated step takes exactly one off the interval, and
  the interrupt comes in the step that ends it and in no other.
* `SlRemoteMemory`: the device behind the line is the memory the simulated firmware
  believes in, except at 0x9090a80c, where it is what it was when the run began; a read of
  0x9090c20c gives the value this run last wrote to 0x9090c208. It needs a line that was quiet when the run began (`~dirty`) and replies
  that were whole when they were read (`~torn`); the code ensures neither.
* `TapDelivers`: packets come whole and in order while the connector reads behind the
  third write and before the next packet (`~raced`) and the firmware takes a packet before
  the next one comes (`~overtaken`); the code ensures neither.

`spoiled`, `torn`, `dirty`, `raced`, `overtaken`, `wrote`, `began`, `beat` and `nest` are
history: they guard no action, so the behaviours they describe are all in the model.

Why the bounds are enough. The walk treats entries one by one and remembers nothing but
`stop` and `manip`, so two entries show every meeting of actions. With a word size of 4
and prescaler 2 the timer fires every 8 steps; the handler takes four of them, the loop of
an image three or more, and a stopped step ticks without executing, so the interrupt
drifts over every instruction. In `live` two images make an interrupt wait, one because it
matches before GIE is set, one because its handler is longer than the period. The FIFO sizes of the UART keep the code's order
32 < 50 < 250 and each is exceeded by five keys. Three waiting tasks against a stack of
two is one over its limit. A page of 4 bytes holds a word and every place of a halfword
and a byte in it. The address space of 160 bytes for load and store multiple is larger
than one instruction can touch (32 registers and four enable bits count for at most 36
words), and the bases put frames at both ends of it. Programs of four instructions are
enough for a loop, a recursion, a call inside a branch and two calls of one function, and
the tables overflow on some of them; calls nested three deep make the tabs wrap, and six
addresses have a jump back from behind the first return. Four transfers against a FIFO of
two overflow it; the five kinds of register that `mac.c` saves exceed a table of four; two
packets wrap nothing by themselves, but with two files each index is used and with a
second packet in the pipe before the first is read, packets run together. A sequence of
block 0, 1, last needs three blocks and two frames to be mixed up. What depends on no
bound is proved (section 5).

Bounds that cut behaviour are constants in guards: `MaxKeys`, `MaxCalls`, `SspMaxSent`,
`SlMaxLost`, `SlMaxRuns`, `TapPackets`, `RcvFrameMax` (the code does not check the length
of a frame); the rest are finite sets of images, commands, scripts and programs. Deadlock
is checked except in `machine`, `tools`, `devices`, `claim_os` and `claim_dt`, where a
bounded session, a finished program, a simulator that has exited or a driver in a busy
wait (see section 6) really stops.

Every property has a mutant: a plausible bug of the code, written beside the definition it
replaces (comments "Variant of"), under which TLC finds the property violated.

## 4. Fairness

* `Simulator!FairSpec`: weak fairness of `Simulate`, the steps of the single thread. The
  loop never waits for anything while a run goes on, so the thread only needs to be
  scheduled. Nothing is assumed of the user: not that he types, nor that he presses Ctrl+C.
* `TimerFairness`: weak fairness of `Tick`. Every simulated step ticks first.
  `EventuallyFires` is conditional on the firmware leaving the timer alone.
* `UartConsole!FairSpec`: weak fairness of `Poll \/ Read` (the firmware is executed while
  a run goes on) and of `ReadInput \/ Keypress` (the main loop's turn). `EndRun` may come
  at any time and has no fairness, hence "or the run ends" in `DataIsRead`.
* `ScrFairness`: weak fairness of `ScrThread`. The thread that executes lines, scripts and
  runs waits for nothing; nothing is assumed of the user.
* `I2cFairness`: weak fairness of `I2cAccess`: the firmware is executed. A busy wait is
  enabled only when the status has the value, so fairness does not help it along.
* `MCTools!Spec`: weak fairness of `CgNext` and `CfNext`: a program that can go on does.
  The links (`SerialLink`, `TapLink`) have no fairness and no liveness property: nothing
  bounds the delay of a line.

## 5. Proofs

Assumptions are the ASSUMEs of the modules: types of the constants, non-empty word size,
`Garbage` not empty, the initial tables within capacity and free of duplicates, a finite
set of tasks, block numbers below 32768, lines of scripts of the kinds the parser knows,
FIFOs, flash and address spaces that are not empty, MAC registers other than the ones the
model names, at least one packet file.
A firmware file of the graph tools
is any function from integer addresses to instructions, and the function asked for is at
an integer address (`CgAssumption`, `ClAssumption`, `CfAssumption`). Images, tables,
scripts, commands and addresses are arbitrary.

* **`SimulatorProofs`** begins with what each operator on timer, processor and table
  returns. The table lemmas (`RegisterKeepsTable`, `RemoveKeepsTable`,
  `SetDisabledKeepsTable`, `SetAllDisabledKeepsTable`) carry the argument that no edit
  makes duplicates: comparing entries ignores the disabled flag, and removing keeps the
  relative order. `TypeCorrect` and `TableCorrect` follow from
  `TypeAndControl = TypeOK /\ ControlOK /\ TableType`. `ControlOK` is needed because
  actions use the phase to know that `before` is a snapshot or that `left` is positive.
  `StopBeforeInstrHolds` needs `WalkOK`, the invariant of the loop: a walk that has not
  stopped has seen no entry that halts below its index. `FailedStepIsAtomicHolds` and
  `JumpOnlyMovesPcHolds` need `ProgressOK`, which says phase by phase how far the machine
  may differ from the snapshot: not at all while walking before the instruction, in the PC
  alone after a jump, in the words stored so far while walking after a store, in the
  registers loaded so far and the receive FIFO while walking after a load. `SafetyInv` is the
  conjunction; TLC finds each of its parts an invariant of the `debug` instance.
* **`TransparentProofs`**: `SimulatorImplementsProgram`, that every step of a session is an
  instruction of `MainProgram` or a stutter, and `ReturnsWhereSuspended`. Neither holds for
  every image: a handler may write the main program's registers, a program may write IPC.
  `TransparentAssumption` says which images and sessions are meant, by conditions on each
  instruction alone: the handler's code is a set of addresses that only iret leaves, it uses
  registers and words of its own and does not enable interrupts; the main program does not
  use the special registers but GIE, and computes no address of the handler; the session has
  stops and messages and pokes nothing. TLC evaluates it for the images of the run. The
  invariant `MainInv` says whose instruction the PC is at (`Placed`), that no register or
  word of the main program holds an address of the handler (`Separate`, without which an
  indirect jump may lead anywhere), and that the instruction and the access in hand are
  those at the PC (`InHand`). The main program's PC moves when the last word of a store has reached memory
  but when the last word of a load has reached its register: `MainPc` is the PC, the one
  behind the store while the table is walked for its last word, or the suspended one. While
  a store multiple is half done `MainMem` is still the memory before it; `WordsDone` says
  which words of the instruction in hand are where.
* **`UartProofs`**: type, `ReadyCorrect` (status bit and counter agree) and
  `FifoImplementsQueue`, the refinement of `LossyQueue` for FIFOs of every size. It rests
  on `PopEntries` and `PushEntries`: what memmove and the indexed store do to the sequence
  of entries, with the full FIFO as its own case. `KeysArrive` is `NoKeyLost` for every
  sequence of keys and both buffers: its invariant `KeysKept` says that the keys waiting
  are the last ones typed and that every other one has been handled. It finds the place of
  a key by its rank, the number of keys pushed up to it, so that no selection from a
  sequence has to be unfolded.
* **`DeviceProofs`**, one invariant for each device:
  `TimerImplementsPeriodic`, the refinement of `PeriodicTimer` for every
  register width and prescaler. The mapping says that the steps left are the distance from
  counter to match value, modulo the word size, times the prescaler, plus what is left of
  it. `DistanceFacts` is the argument: a decrement makes the distance one smaller exactly
  when it does not land on the match value, also through zero. A tick refines a step of the
  abstract timer (`TickRefines`) and an access one of its accesses; neither can stand for
  the other, because only a step changes `beat`.
  `TracerCorrect` for any number of tasks, stack size and calls. `OsInv` is
  needed because `TracerIsRight` does not say what is on the stack: the pointers increase
  upwards, they are as many as calls wait, and while the calls were nested they are the
  pointers of the waiting calls, so the newest call's is on top.
  `GpioDriverCorrect`; `StoresCorrect` and `LoadsAgree`, for every page size and number of
  values of a byte. `MemKept` says that the bytes of the last store are still the digits of
  its value, at the place the remap bit gave them; `MemDigits` that joining the digits gives
  the value again.
  `ReceiverCorrect`, for every set of frame and block numbers and every length of a frame.
  `RcvInv` adds to the property what the receiver remembers: as long as the frame will be
  written, its blocks are in order and the number kept is that of the last one, or one
  with the mark, which no block without the mark can follow.
* **`InstructionProofs`**: `FrameRestored`, `FrameConfined` and `FrameExits`, for every list of
  registers, every addressing mode and every size of the address space. Addresses wrap, so
  two words of a list are apart only because the list is shorter than the space
  (`WrapTwice` and the lemmas after it). The load starts again after a memory breakpoint
  has cancelled it; the invariant `Framed` therefore says nothing of progress: from the
  save to the restore memory is what the save left, the base register is where the save
  put it, and only registers of the list have other values, so that the next load, from
  its first word, restores all of them.
  `WordsRunAsShown` and `ShortCallDecodesTheSame` are the decoder's two properties for every
  word and every address of the instruction (the run has chosen fields in its 32-bit words,
  and one address). A behaviour decodes one word at a time, so the invariant (`DcInv`) only
  says that `decoded` holds the two results of one word; the content is in `DcWord32` and
  `DcWord16`. For 32 bits, each opcode with a sub-opcode is followed through `disassm32` and
  `simulate()` (`DcNamed`), the others are compared in `DcImmediate`. For 16 bits there is
  one step for each form (`DcForms4` to `DcForms10`, by the length of the opcode as in
  `translate_to_32`): the rewritten fields, the operands `simulate()` takes from them, the
  text, and its meaning. `DcExtends` holds the arithmetic: a sign extended to the width of
  an immediate, scaled, and extended again is the sign extended once. Only words that are
  natural numbers are assumed (`DcAssumption`).
* **`LinkProofs`**, the modules with two sides and something under way between them:
  `I2cWritesArrive` with `I2cInv`, which says what the receiver has heard when *n* accesses
  of the driver's sequence remain. `SspWordsAreRead` with `SspSound`: every answer in the
  receive FIFO belongs to a transfer, and the address the flash has reached is the last one
  sent plus the words clocked since. `SlMemoryIsRemote` with `SlSound`: a request, its
  reply, and the state of both ends fit in every phase, however the bytes are divided over
  reads. What the device has to hold is `SlOwed`: the firmware's writes, but at 0x9090a80c
  what was there when the run began, which no step of the simulator disturbs. `MacKeepsRegisters` and `TapPacketsArrive` with `TapSound`: a register has one
  entry; the pipe holds what the host wrote and the connector has not taken, in order;
  what the host has sent is what was read, what waits in the receive buffer and what is in
  the pipe; the packet files of the descriptors in use are apart, their numbers being
  taken modulo the number of files.
* **`ScrProofs`**: `ScrCorrect` for all scripts, breakpoints and programs, at every depth
  and for any number of files. The invariant `Good` says of every frame on the stack that a
  run still has the number of steps its line asked for and never more steps behind it;
  without it the comparison at the end of a run says nothing. What the operators on the
  stack do to the number of scripts is in `PushStack`, `PopStack` and `ReplaceTop`.
* **`GraphProofs`**: the walks of the graph tools, for every firmware file, size of the
  tables and function asked for. `WalkReachesEverything` needs no induction over the code:
  what is reached is defined as the least set that no step leaves (`Reached`), so it is
  enough that the addresses seen are closed when the walk is done. The invariant
  (`CgCovered`) says that an address which is the start, a known target, or follows an
  address seen, is itself seen or pending: it is the PC or the resume address of a frame.
  This is why the walk may stop at a known target, and why a return that ends a nested walk
  only drops what was handled. `LinesAreCalls` needs `CgBooks`: the PC and every frame are
  in the code of the function they are booked to. `IndentationIsTrue`: at every depth at
  which a walk is under way, the function a reader takes from the lines above
  (`ClReads`) is the one whose code is being walked, and nothing between its start and the
  address returns (`ClLevel`); the tabs of a line are the eight bits of its depth
  (`ClTabbed`), which are the depth up to the first call nested deeper. `PictureIsRight`: the nodes and the open box divide the known
  addresses among them, each node holds consecutive addresses of which only the last leads
  elsewhere, and its edges are the control flow from that one (`CfPicture`); behind its
  first address no node holds a target that the sweep met and at which the code splits
  (`CfSplit`), so that such a target, being known, begins a node. The theorems
  are about each tool by itself (`CgSpec`, `ClSpec`, `CfSpec`); `MCTools` starts the same
  Init and Next, one tool per behaviour.

What stays with TLC is liveness: fairness and ENABLED are out of the prover's reach. Every
safety invariant, action property and refinement that a passing run checks is stated by a
theorem.

## 6. Where the code and its documentation disagree

Checked by a run that finds the violation:

1. `claim_stop`: a stop that fires is lost when a jump fires in the same walk, because
   `simulate.c:136` tests `PC_manipulated` first. MANUAL.TXT: "stop to stop if simulation
   is running".
2. `claim_skip`: a script that removes an entry makes the walk pass over the next one
   (`breakpoints.c:433` moves entries while the walk keeps its index).
3. `claim_read`: `memory.c:67` reads the device before it looks at the breakpoints, so
   a stop on the read of the UART register has taken the byte. `breakpoints.h:20`:
   "BP before read is executed".
4. `claim_os`: two tasks that leave OSSemPend in the order they entered get each other's
   result (`os_info.c:117`).
5. `claim_dt`: `decode_disassm32.c:107` masks bit 33 of a 32-bit word, so the accumulator
   `dt` is always 0; the field table of `disassm/README` puts it at bit 21.

Met while reading, and visible in the model, but with no run of their own:

* a jump on a memory breakpoint crashes (`breakpoints.c:505`, NULL PC);
* `!value` of a memory breakpoint is parsed and never tested (`breakpoints.c:540`), so it
  fires on every access; `FiresOnAccess` has the same gap;
* an `undef` breakpoint does not fire on a page not allocated yet (`memory.c:75` returns first);
* Ctrl+C at the prompt, or in a run that ends for another reason, interrupts the next run
  after one step (`simulate.c:1102`; the flag is not cleared);
* two range breakpoints on the same range with different values count as the same
  (`breakpoints.c:53`);
* `s` ignores stops (MANUAL.TXT: "breakpoints are ignored!") but memory breakpoints still run
  their scripts and messages (`simulate.c:261`), and a load multiple stops in `s`
  too (`mem_rw.c:112`; `LoadStopped`);
* an instruction is decoded before the walk: after a script that sets the PC, or runs
  steps, the old instruction is executed at the new PC (`simulate.c:1011`);
* "j self" ends a run as an endless loop although a pending timer interrupt would leave it
  (`simulate.c:968`);
* a script ended by a bad line leaves its file open (`cmd_parser.c:93`);
* the immediate of SLTI is shown sign-extended and executed zero-extended; JREG's RET is
  never found under its own sub-opcode; SETEND and SETGIE have the numbers of earlier rows;
* `decode_only` with a BFMI333 of sub-opcode 5 to 7 ends the program
  (`decode_disassm16.c:521`), the full call shows it as unknown;
* MULSR64 multiplies zero-extended operands; DIVSR of the smallest integer by -1 traps on
  the host;
* the remap bit is described as an exchange (`cpe.c:76`), only the lower page is mapped;
* a call graph follows JR through a register loaded from memory to the address
  "no idea" and ends there; a function first reached by a jump gets no edge when it is
  called later; `list_calls` omits calls to functions listed before;
* `codeflow` begins a block at a jump target only if the instruction there is a plain one
  (`codeflow/main.c:235`), although "we first need to know where to start a new block
  because of a jump from above or below" (`codeflow/main.c:110`): a J that is itself a target
  is not split off (`codeflow/main.c:214`), and an edge to it leads to a node that is not
  declared, as does an edge to a place that only jumps behind the first return lead to;
* `list_calls` counts depth and tabs in a `uint8_t` (`list_calls/main.c:74-76`): the
  indentation starts again at a call nested 256 deep;
* the register jumps have no default (`simulate.c:736-761`): a word the full decoding
  refuses is stepped over as if it did nothing;
* `mtusr` to the PC loads the PC into the register instead (`simulate.c:563`); user registers
  of other groups are shown as `<RESERVED>` or unimplemented and end the run;
* the serial connector drops writes to 0x9090a80c without a word (`connector_serial.c:57-61`)
  but reads that address from the device, so the firmware reads what it has not written;
* the read of the HDMI receiver waits for status 0xc1 (`connector2/i2c_ite.c`), which
  `simulate/i2c.c` never sets: it hangs in the simulator, a write does not;
* the tap connector takes whatever one `read` returns for a packet, parts and several
  packets included; a read of the serial line may return the first part of a reply;
* the frame receiver writes the last block whatever its number and frame, so frames can be
  mixed and blocks missing right before the end; Ctrl+C is seen only after one more packet.

## 7. Plan

Everything of the first plan that carries state is modelled, and the safety properties of
the passing runs are proved.

Not modelled:

* power management and the unknown peripherals: registers that are written and read back
  without effect, or answers recorded from a device;
* the endless-loop detector: compiled out by the build, no program contains it;
* the views and output, the views of the firmware's operating system: formatting; their one
  effect, a read of a device register, is `View` in `UartConsole`;
* `radare2_patch/`: an older copy of the decoder for another program, with fewer fields (`dt`
  is taken from `rt`, J has another text);
* `binfind_v3.c`, `bindiff_v4.c`, `strings.c`: one pass over a file that remembers a counter;
* the JPEG tables of the connector firmware: scaled constants, and a write repeated until an
  encoder outside the repository reads it back, of which the repository says nothing;
* `inject.c` and the Perl scripts: one rewrite of a file;
* `custom_firmware/Hello World` and the main loop of `connector2`: an earlier copy of the
  connector firmware; its drivers are modelled with the devices they drive;
* transmission of the UART: it prints a character.
