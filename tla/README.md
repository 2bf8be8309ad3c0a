# Formal models of the HBI driver stack for Timberwolf voice processors

The repository is the host software of the Microsemi ZL380xx (Timberwolf) voice
processors on a Raspberry Pi: a portable HBI driver, a Linux kernel driver and a user
library around it, an ALSA codec, and Python tools. This directory holds TLA+ models of
the parts that carry its logic, the TLC runs that check them, and TLAPS proofs.

## The system

| Part | Source | State | Operations | Talks to |
|---|---|---|---|---|
| HBI driver core | `vproc_sdk/drivers/hbi/hbi.c` | `hbi_priv`: device list, handle list, counters, `init_count`, optional lock | `HBI_init/open/close/term`, and the calls that use a handle | `hbi_tw.c`, `hbi_ssl.c` |
| Timberwolf layer | `hbi_tw.c` | one write buffer per device; the device's registers | host commands, reset, sleep, wake, register read and write | the device, through SSL ports |
| System service layer | `hbi_ssl.c`, `platform/raspberry/driver/ssl` | port table, lock table | `SSL_init/term`, `SSL_port_*`, `SSL_lock*` | I2C/SPI core of the kernel |
| Kernel driver | `lnxdrivers/lnxhbi/lnxkernel/hbi_k.c` | device list, minors, a firmware buffer per device, statics | module load and unload, files and ioctls, proc entries | HBI driver core |
| User library | `lnxUser/hbi_u.c` | `initCnt`, file descriptors as handles | the HBI API mapped to ioctls | kernel driver |
| ALSA codec | `zl380xx_codec.c` | one HBI handle | mute and controls by read-modify-write | HBI driver core |
| Python tools | `apps/python` | socket buffer of the MiTuner server | load, save and erase firmware; socket commands | user library |

What is hard about it:

- *Interleaving.* Every layer can be entered by several threads. The driver lock is
  optional (`HBI_LOCK` skips a NULL lock), and where it is used it covers the tables and
  not the device accesses. Handles are checked before the lock is taken.
- *Counting.* Devices, users and initialisations are counted by increments in four
  functions that call one another (`HBI_open` calls `HBI_init`, `HBI_close` calls `HBI_term`).
- *A device that answers late or not at all.* The mailbox is a shared register set, polled
  with a bound; a call that gives up leaves its command behind.
- *Failures half way.* A bus access may fail anywhere in a command or an upload.
- *Data kept between calls.* An image arrives in several writes; what its header says
  is kept in static variables; a register dump stays in one global buffer; a firmware file
  sent in pieces to the server stays in a function attribute.
- *Memory that goes away.* Devices are opened and closed while files on them are open, and
  a failure in the middle of a module load tears the driver down under the loop. Nothing
  keeps the module loaded while its files are open.
- *A buffer filled outside the lock.* A write puts its words into the one buffer of its
  device before it takes the port lock, and the bus sends from there.

What makes each part correct: the driver's counters, tables and port table agree, a handle
keeps reaching its device, and the driver is up exactly as long as somebody needs it; a
host command that reports success was carried out with its own parameter, an untaken
command is not overwritten, every call returns; an upload puts the whole image, and nothing
else, on its device; the kernel driver's list, structures, minor numbers, device files and
handles are one to one again after every failure; a register access reaches the register it
names, whatever page is selected; a request to the server is answered once, in order, and
loads the file this client sent.

`PROJECT.json` lists all components, the hazards line by line, the runs, the findings and
which definition stands for which lines.

## Modules

| Module | Models |
|---|---|
| `HandleTable` | the promise of `HBI_open`/`HBI_close` (`hbi.h:299-336`): a table of handles and the open devices |
| `HbiDriver` | `hbi.c` and the port table of `hbi_ssl.c`, called by several threads |
| `HbiDriverInv` | the inductive invariants of `HbiDriver` |
| `HbiDriverProofs`, `HbiTableProofs` | the theorems about `HbiDriver`: its counters and locks, and its tables, handles and transfers |
| `TwHost`, `TwHostInv`, `TwHostProofs` | the host commands of `hbi_tw.c` against the device; the inductive invariants; the theorems |
| `FwLoad`, `FwLoadInv`, `FwLoadProofs` | `hbi_proc_load_fw` and `hbi_wr_bin_fw` of `hbi_k.c`; the inductive invariants; the theorems |
| `HbiKernel`, `HbiKernelProofs` | load and unload of the Linux driver, its device list and files, and the codec as another user; the theorems |
| `HbiUser`, `HbiUserProofs` | processes with the user library and the ioctls; EXTENDS `HbiKernel`; the theorems |
| `HbiUserInv` | the inductive invariants of `HbiKernel` and `HbiUser` |
| `RegFrame` | the command words of a register access, and what the device reads in them |
| `RegAccess`, `RegAccessInv`, `RegAccessProofs` | register reads and writes down to the bus, the register and configuration proc entries, the mixer controls; EXTENDS `RegFrame`; the inductive invariant; the theorems about both |
| `HbiLoadFirmware` | `hbi_load_firmware.py`: its functions and the command-line tool |
| `MiTuner` | `MiTuner_socket_server.py`; EXTENDS `HbiLoadFirmware`, whose functions carry out its requests |
| `Sessions` | the promise of the server to its clients: whole requests, one client after the other, without bytes or buffers |
| `MiTunerInv`, `MiTunerProofs` | the inductive invariant of the tool and the server; the theorems about both |
| `MC...` | what the configurations need |

### HbiDriver

The variables have the names of the code: `bInitialized`, `init_count`, `num_opened_dev`,
`num_instances`, `dev_list`, `inst_list` are `hbi_priv`; `ssl_inited` and `ssl_dev` are
`ssl_drv_priv`. `cfg_lock` says whether `hbi_priv.cfg.lock` is set, `lock` and `dev_locks`
who holds which mutex. `pc[t]` and `loc[t]` are a thread's place and locals. A call is cut
where another thread can get in:

| Call | Actions, in order |
|---|---|
| `HBI_init` | `InitCount`, or `InitSetup` (memset, `SSL_init`, flags) |
| `HBI_open` | the `HBI_init` above, `OpenCheck` (before the lock), `OpenLock` (take it, pick slot and device), `OpenPort` (`SSL_port_open`), `OpenCommit` |
| `HBI_close` | `CallClose` (checks before the lock), `CloseLock`, `ClosePort` (`SSL_port_close`), `CloseCommit`, then `HBI_term` |
| `HBI_term` | `TermCheck`, `TermLock` (count or `SSL_term`), `TermFinal` (the two assignments after the unlock) |
| `HBI_read` and the others | `CallUse`, `UseFetch` (pDev, under the lock), `UseBegin`, `UseEnd` (one transfer, under the device's lock) |

A dereference of a NULL `pDev`, or an index past a table, is the action `Fault`: the
thread dies with the lock it holds. `First(S, none)` is the index at which the code's
scans stop. `owned` and `loaded` are history: the handles given out, the explicit
`HBI_init` calls not yet matched.

Assumptions about the callers, each from how the repository calls the driver: `HBI_init`
and `HBI_term` are called while no other call is under way (module load and unload,
`hbi_k.c:2231` and `2327`), and `HBI_term` only after an `HBI_init`. `DriverLock`, `DevLock`,
`Shared` and `AutoInit` choose whether locks are passed, whether threads may use handles
that are not theirs, and whether callers rely on `HBI_open` to initialise the driver.
The kernel driver itself passes no lock (`HBI_init(NULL)`, `dev_lock = 0`): what holds
under `DriverLock` is what the lock buys to a caller that passes one.

### TwHost

`Prog(op)` is the sequence of register accesses of a call, `todo[t]` what thread t has
still to do; each access is a step, so commands of two threads interleave as they do in
the code, which holds no lock across accesses. `flags`, `cmdReg`, `param` and `mode`
are the device's registers as the host reads them. A poll of the mailbox or of the command
register is one step, which succeeds or gives up (`TimesOut`): it gives up on a device
that hangs, and just as well on a slow one, which then takes or answers the command in the
middle of a later call.

The device is external and is modelled from how the code uses it: it takes a noticed
command and its parameter (and clears the notice), answers success or one of the
responses the code distinguishes, refuses commands of the other mode, or hangs.
Values are 16-bit; `Val` is `HBI_VAL`, and the default build (little-endian host,
big-endian device) swaps. The image number reaches the parameter register as the caller
passed it, which is the device's byte order. `WithParam` are the commands before which the
code writes that register, those by which `tw_save_cfg_to_flash` saves among them; what the
device did (`did`) is the command with the number the register held when it was noticed.

### FwLoad

`first`, `total_img_len`, `block_size`, `hdr_len` are the statics of `hbi_proc_load_fw`,
`hbi_buf` the buffer of each device as the sequence of file units it holds (all behind it
reads as zeros, `Blank`). A write is `Write` (append or refuse), `Header`, `Compare`;
a push is `SendBlock` for every block and `Conclude`. The statics are read and written in
steps of their own, because writers of different devices share them. Writers of one device
take turns, a process writes its file from the start and stops at the first error, and an
image is a whole number of blocks (`tw_firmware_converter.py` pads it). A file may be too long
for the buffer (`Fitting` are those that are not), which the driver sees at the piece that
overflows it. If the first piece the driver ever takes is of such a file, its header is latched
and no other file is pushed right until the module is loaded again: `LoadSpec` is the
specification without that case (`FirstFits`), one way for `first` to go wrong that
`fw_second` shows.

### HbiKernel and HbiUser

`HbiKernel` stands on what `HandleTable` promises: below it the HBI driver is a table of
handles (`users`) and a count (`init_count`), with the results `HBI_open`, `HBI_close` and
`HBI_term` give. `op` is the operation under way on the device list and its place:

| Code | Actions, in order |
|---|---|
| `hbi_drv_init` | `Load`, then `LoadNext` and an `internal_hbi_open` for each board device |
| `internal_hbi_open` | `OpenDevice` (kmalloc, `HBI_open`), `CreateNode` (minor number, device file; `Undo` if it fails), `AddToList` |
| `internal_hbi_close` | `CloseDevice` (`HBI_close`), `TakeOffList`, `DestroyNode` (device file, bit, kfree) |
| `hbi_drv_exit` | `Unload`, `ExitNext` and a close for each listed device, `ExitTerm` |
| `/proc` open and close of a device | `ProcOpen`, `ProcClose`, then the actions of the open or close |
| open and close of a device file | `IoOpen`, `IoClose`, between any two steps of the others |
| codec probe and remove | `CodecProbe`, `CodecRemove` |

`Unload` is not refused while files are open: neither `fops` (`hbi_k.c:1044-1052`) nor the
character device (`2200-2207`) names an owner, so the kernel counts no use of the module for an
open file. Such files become `Gone` (`Stranded`), and a call on them uses code that is no more
(`Dead`). When `HBI_term` fails, `hbi_drv_exit` returns with its character device and proc
entries registered (`2327-2331`); opening one of these after the removal is `UseRemoved`. The
codec does keep the module, by the symbols it uses.

`IoOpen` takes the walk of the device list and the assignment of `private_data` as one step.
The code holds no lock there, so the device may be closed in between; a file that no call
can use yet is no different from one whose device is closed at once after the open, which
happens in the model.

A device that fails to open at load calls `hbi_drv_exit` and the loop goes on: `op` goes
through "exit" and "term" back to "next", with a class that is freed. Using it again, or a
structure that was freed, is `mod = "oops"`, and nothing is said of what follows. A structure
has one of `NumDevs + 1` places, so that freed memory is given out again.

In `HbiUser` a process calls the library of `hbi_u.c`. `Ioctl` and `DriverCall` are the two
switches, the library's and the driver's; `Bytes`, `OnDevice` and `HostReads` what becomes of
an image number on its way. An upload is the copy into the device's buffer (`Copy`) and the
command (`Command`); another process may come between. `ret` is the call that returns,
kept for one step.

Assumed: one operation at a time changes the device list; one process at a time uploads to
a device (`hbi_dev.hbi_buf` has no lock); the module is not loaded again after an unload that
left a device or its character device behind; image numbers are below 65536, user pointers valid, and
`HBI_CMD_ERASE_FWRCFG_FROM_FLASH` has an argument. At most `MaxFails` calls of the HBI
driver fail in one life of the module; allocation and device files may fail at any time.

### RegFrame and RegAccess

`Header` is `tw_hbi_tp_frame_hdr` in numbers: the page, if the register has one, and the
access command. `Decoded` is the device's side, external, from the command table in the
code's macros; `PageAfter` and `CommandAfter` are the same for one word after the other.
`RegAccess` uses it for every transfer: `page` is the page the device has selected, `cmd` the
command it is in the middle of. A read is one step under the port lock, which may fail with its
page selected or not; it copies its words out after the lock (`CopyOut`). A write first fills
the device's buffer, without the lock: `buffer` is flat, as in `struct vproc_dev`, the header
has one word or two, and the data goes behind it, so that the data of a direct write lands where
a paged write has its access command. `Fill` puts one word in, `Send` sends one word as it is in
the buffer then, `SendFails` ends the transfer before any word; other writes fill the buffer
between any two of these, and each write sends as many words as its own frame has. A word of
16 bits is copied, and sent, whole. Proc writes and reads, the
configuration record and the controls are sequences of these. There is one device; the codec's
controls are there when the codec is built with its mixer. A control is its register and three
powers of two: `unit` (its shift), `low` (the lowest bit of its mask) and `values`. The masks of
`zl380xx_snd_controls` are runs of bits (0x6, 0x78, 0xf), so that `v & mask` is a remainder of a
quotient (`Bits`).

History variables say what to expect: `written` the last value successfully written to each
register, `want` the last setting of each control, `fresh` the words of a dump nobody else has
touched. A write of which another one has changed a word between filling and sending it has
`off` set: the device takes whatever its words then say, which may be a write to any register,
and `written` and `want` follow that. The same flag marks a dump that another user has scrambled.

### HbiLoadFirmware and MiTuner

A function of `hbi_load_firmware.py` is the set of its results: the device it leaves, and
whether it returned or raised `ValueError`. `Then` runs one after another. The tool is the
sequence of its stages, `pc` the next one; a stage that is not asked for is passed over. A path
that is no file (`NoFile`) counts as none given (`Content`, lines 388-398): the tool goes on
without a word. A configuration whose extension is not `.cr2` is a `ValueError` (`Config`).
The server's requests use the same functions; `RD`, `BR` and `HR` read, `WR` and `BW` write
registers, those that stop and start the firmware among them (`RegisterWrite`). Its clients'
byte streams are counted, not spelled: `got` bytes were received, `used` taken from `message`, and a position says which
request begins there. A client sends in pieces of any size and may leave at any time.
`s3File` outlives connections: it is `None` until some client sends an `FA`, and an `FB` or `FC`
before that (`Raises`) is an `AttributeError`, which only the `except` around the server catches.
A client that sends `FB` without an `FA` of its own continues the file of the one before, so
`LoadsWhatWasSent` speaks of clients that have begun a file.

`Sessions` is what the receive loop should amount to: a client joins the queue, its session
begins, its requests are carried out one by one, it ends. The mapping (`MiTuner`, `Service`) takes
`queue`, `s3File` and the image as they are; `Session` is the client being received from, and
`Carried` counts the requests that end before the place where the awaited one begins (`Begun`),
which is all that `used` and `waitType` mean to it. So a recv that completes no request must be
a stutter, and one that does must do what a request of its type may do (`May`), once, to the
file, the device and the answers together. Where the tool has the device instead of the server
(`Mode` is `off`), its steps change nothing but the image.

One process, tool or server, uses the device at a time; its functions are atomic. Numbers in
requests are well formed. A record has no line for address 0, which `LoadConfigCr2` takes for
the start of a block. Bus errors do not reach Python: the binding returns the buffer whatever
`HBI_read` said.

## Runs

| Run | Question | Instance | States |
|---|---|---|---|
| `driver_owned` | Are tables, counters and handles right, is an orderly user ever refused, and is `HandleTable` implemented? | 2 threads, 2 devices (3 ids, one of them not on the board), 2 users each, driver lock | about 704,000 |
| `driver_shared` | The same when threads use and close each other's handles; does every call return? | 2 threads, 1 device, 2 users, both locks | about 68,000 |
| `tw_single` | What does SUCCESS mean, when do uploads start, are notices respected, do calls return? | 1 thread, all calls, 2 images and a refused one, bus faults, polls that give up, hangs | about 524,000 |
| `fw_upload` | Does every device get the whole image? | 2 writers, 2 devices, 2 images of one length and one too long, each cut in two places | about 98,000 |
| `kernel` | Does anything leak, does a file stay on its device, does a command arrive as it was asked for, when is freed memory used? | 2 processes, 2 devices of 2 users, the codec, 1 failing HBI call, any other failure, removal of the module under open files | about 8,200,000 |
| `regs` | Do writes land, do controls keep their values, when is the dump wrong? | 3 users; a direct and a paged register at one offset, the two controls of `AEC ROUT GAIN` in one register; a buffer filled and sent word by word, faults after any word | about 1,270,000 |
| `mituner` | Are requests answered in order, with the right file loaded; are whole requests served, client by client (`Sessions`); does the tool do what it was asked? | 2 clients (one that waits, one that does not), which between them send requests of seven types; or the tool with every argument list, paths that are no files too; commands may fail | about 298,000 |

Five runs show where the code does something else than the repository says (`findings` in
`PROJECT.json` quotes the lines):

| Run | Violated | What happens |
|---|---|---|
| `term_releases_all` | `TermReleasesAll` | a failed `HBI_open` keeps its count in `init_count`; the driver never comes down |
| `tw_serial` | `SuccessMeansDone` with two threads | the lock that is to "serialize all calls" is dropped before the device is touched |
| `tw_slot` | `SavedUnderNumber` | in boot mode `save_cfg` initialises the flash after it has written the image number, and the answer takes the number's place before the command is noticed |
| `tw_ongoing` | `OngoingCommandSeen` | notices of application commands are not looked at |
| `fw_second` | `LoadedWhole` with images of two lengths | only the first header since module load is parsed |

So `LoadedWhole` passes for images of one length, and `SuccessMeansDone` for one thread and
without the number under which `save_cfg` saves in boot mode: `fw_second`, `tw_serial` and
`tw_slot` show that these conditions are needed.

Three more findings have their property in the modules and no run of their own. To see one,
put it in a configuration as the only invariant:

| Property | Module | What happens | Constants |
|---|---|---|---|
| `FlashFullReported` | `TwHost` | the response is swapped twice before it is compared | those of `TwHost_ongoing.cfg` |
| `UploadAlwaysInBootMode` | `TwHost` | a failed read of the mode counts as boot mode | the same with `BusFaults = TRUE` |
| `CompleteBeforePush` | `FwLoad` | the gathered length includes the header, the expected one does not | those of `FwLoad_second.cfg` with `OneImage`, `OneLen`, `LateCuts` |

`LoadedWhole` also needs a last write that holds at least a header's length, for this
reason. The remaining findings are visible in the definitions they name: the wait
after a reset that looks at nothing (`CfgPoll`), the slot that was never set (`SaveConfig`),
the last block of a configuration record that is not written (`Cr2Line`, `Whole`), the
image number that is not passed back.

What the properties except, the code does not keep apart: a write of which another one changed
a word in the buffer (`off`), which may hit any register and change any control; a control put
back by another put that had read the register before (`Current`); a dump that two users take
from (`mixed`), a file whose device is closed, or whose driver is removed, under it (`cut`), a load
in which a device failed (`failedLoad`), a server client that does not wait for its answers (`Eager`): such a
client's last request stays in `message` until more bytes come, and one that leaves an
answer unread resets the connection, which the bare `except` (line 234) takes for the end of
the server. These states are in the runs: each exception was needed.

### Bounds

- `MaxDevs` and `MaxInstPerDev` are `VPROC_MAX_NUM_DEVS` and `HBI_MAX_INST_PER_DEV` (2 and
  3 in `Makefile.globals`). With two of each, every limit is reached, a device can be
  opened, shared, closed and reused for another id, and users leave in any order.
- Two threads suffice for the pairs of steps that race; the proofs cover any number.
- `MaxInit` stops `HBI_open` from starting once `init_count` has grown that far (each
  failed open leaves one behind); `MaxLoads` bounds the unmatched explicit `HBI_init` calls.
- `MaxWord` stands for 2^32 - 1: a counter decremented below zero becomes it, which
  `TypeOK` would show.
- `Images` in `TwHost`: two valid numbers, to tell one call's parameter from another's, and 0
  for the numbers refused before any access.
- `HdrLen`, `BlockSize`, `BufLen`, `Cuts`, `ImgLen` in `FwLoad` are in units: a header of
  two, images of two blocks, a buffer that holds one image and a little more, cuts at the
  end of the header and inside the image. The file too long is cut in the same places: with
  the second piece or the third it no longer fits.
- `kernel`: two devices and minor numbers as in the build, two users of each (device 0 is
  shared with the codec), three structures so that one can be freed and given out while a
  file still points to it; `MaxFails` 1 (the other failures are not bounded); each process
  has one descriptor; `MaxInits` bounds what would only grow a counter. Image numbers 1
  and 256 are the two that the driver's check and the device read differently.
- `kernel` has a state constraint, `MCReload`: the module is not loaded again while a file of
  its earlier life is open. Without it all invariants hold as well, on about 18,800,000 states;
  the proofs have no such bound.
- `regs`: dumps of up to two words, so `LenMod` 8 shows a wrapped length; `MaxPolls` 1 for
  `APP_RST_WAIT`, whose loop does nothing but read. `Works` shares the operations out in three
  ways: a control against writes and a configuration record, two controls of one register, and
  dumps against each other beside a writer. Frames have two words or three, so that a header
  meets another's data and a short frame another's tail.
- `mituner`: headers of two bytes and a receive buffer of four, so that a header and a command
  can be cut anywhere and one recv can bring two requests; blocks of two words, with
  records that end on a block and that do not; a flash of two slots.

### Fairness

`CallsReturn` needs that a thread goes on with its call: its accesses are ordinary code, and the
polls are bounded (`TWOLF_MBCMDREG_SPINWAIT`, `hbi_tw.c:123` and `184`). Nothing is assumed of
the device, which may be slow or hang, of the bus, or of the arrival of calls. (This is
`tw_single`.)
`driver_shared` switches the deadlock check off: a double close dies holding the lock, and
everyone else then waits.

In `driver_shared`, `CallsReturn` assumes strong fairness of each thread's steps: a thread
in a call goes on, and the driver's and the device's mutex, taken and released again and
again by the other one, is granted in the end (the kernel's mutexes queue their waiters). It
holds unless a thread has died in a double close. In `mituner`, `Served` assumes weak
fairness of the server alone: its process runs. Nothing is assumed of clients.
`kernel` and `mituner` switch the deadlock check off too: an oops, an unload that left
something behind, the end of the tool and the server's shutdown are ends of the system.

## Proofs

The theorems hold for all values of the constants that satisfy the `ASSUME` of their module
(`ConstantsOK`, `TwConstantsOK`, `FwConstantsOK`, `KernelConstantsOK`, `UserConstantsOK`,
`RegConstantsOK`, `LoaderOK`, `MiTunerOK`): any number of threads, processes, devices, users,
files, images, registers, clients, requests. Each rests on an inductive invariant, which the runs of TLC were used to find, and has one lemma for every action.

### HbiDriver

Under `Locked`: either a lock is passed to `HBI_init` and callers do call it first, as the user
space library does, or the driver has a single user (`Sole`), who then needs no lock and may
leave the first `HBI_init` to `HBI_open`. The runs are of the first kind; the second is covered by
the proofs alone (`AutoInit`), and the violation run shows what a failed open does to it. `Shared` and `DevLock` are free unless named: most
theorems hold even when threads close each other's handles, twice or at once.

| Theorem | States | Also assumed |
|---|---|---|
| `Inductive` | `IInv` always holds | |
| `TypeCorrect` | `TypeOK` | |
| `CountersRight` | `CountsAgree`: counters and tables agree, one open port per open device | |
| `StaysUp` | `DriverHeld`: initialised, with a count per handle in use and per unmatched `HBI_init` | |
| `OneInside` | at most one thread in the stretches that change the tables | |
| `NeverOverruns` | `NoOverrun`: no index past the end of a table, where the code has no check | |
| `Implements` | `ImplementsHandleTable`: every step is a step of the table of handles, or a stutter | |
| `TransfersSafe` | `TransferKeepsPort`: a port stays open through the transfer | `DevLock` |
| `HandlesSafe` | `HandleKeepsDevice` | users close only their own handles (`~Shared`) |
| `OwnersServed` | `OwnersNotRefused` | `~Shared` |

The argument. `TypeOK` says that a decrement never wraps, which depends on the counters
being the cardinalities of the tables (`CountsAgree`). That is kept because one thread at a
time changes the tables (`LockHeld`): there is no other, or it has the lock. The lock must then
be there as long as a call is under way, hence the driver must not be initialised anew under it:
`InitCovers` gives every handle, unmatched `HBI_init` and call between its count and its end a
unit of `init_count`, and `UpLocked`, `Stands` say what that buys at each place. `CritOK`
(`FoundStill`) says that what a thread found under the lock is still so when it acts on it, and
`EntriesOK` ties the flags of an entry to its pointers. `IInv` is the conjunction.

With several users neither half of `Locked` can go, as TLC shows on two threads: without the
lock two `HBI_open` pick the same free slot, and without an `HBI_init` first two of them find
`bInitialized` clear, and the `memset` of the second wipes out what the first has opened.

`HbiTableProofs` adds three invariants to it. `TableInv` relates the tables to each other: an
open device has an identifier of its own and a port of that identifier, and has a user
unless a thread is just between the two (`UsersPlaced`). `NoOverrun` follows from it by
counting: a user per open device and a bound on the users of a device leave a free entry
whenever the checks before pass, which is a fact about cardinalities (a map from the entries
in use to the devices). The refinement maps a handle to its entry's device, and the open
devices to the identifiers in the table; `TableInv` says at `OpenCommit` that the identifier is
the one asked for, and at `CloseCommit` that the last user takes the device along.
`TransfersHold` says that whoever is inside a transfer holds its device's lock, which
`SSL_port_close` would need. `OwnersRight` says that the handles of different owners differ
and that a close in flight is of the thread's own handle.

### HbiKernel and HbiUser

| Theorem | States |
|---|---|
| `KernelInductive`, `UserInductive` | `KInv` and `UInv` always hold |
| `Leakless` | `NothingLeaks` |
| `CountsEnough` | `HandlesCounted` |
| `FilesKeepDevice` | `FileReachesDevice` |
| `UnloadClean` | `UnloadReleases` |
| `OopsesExplained` | `OopsExplained` |
| `CommandsAsAsked` | `CommandAsAsked` |
| `UsersAreServed` | `UsersServed` |
| `TypesRight` | `TypeOK` |

`KInv` says for each place of `op` which of list, structure, minor number, device file and
handle is behind the others (`Shape`, with `Unlisted` and `Noded`), what `hbi_drv_exit` has
still to close (`ToDo`, `Clears`), who owns which handle (`Owned`), and that there is an
initialisation for every handle (`Enough`). `Enough` is needed for `Owned` and the other way
round: handles stay alive as long as the driver is up, and the kernel driver calls `HBI_term`
once more than it should for each device that fails to open at load.

The proof found what the run does not reach. `NothingLeaks` was stated without the condition
`~Loose`, and passed in `kernel`; the invariant could not be closed, and with four devices and
three failures TLC finds why: a refused `HBI_close`, then a failed open whose tear-down ends
the HBI driver with handles left, then an `HBI_close` that frees its handle and fails in
`HBI_term`, so that its structure stays on the list without one. `Loose` names these states;
only devices with a file that is still open are then known to keep their handles (`Kept`).

`OopsesExplained` is proved beside `KInv`: each way to use freed memory needs a class that was
freed by a tear-down at load, a file whose structure or module is gone (`Dead`), or what a
module left behind after a refused `HBI_close`.

`UInv` says that an upload has its device's buffer for itself between the copy and the command
(`UploadsRight`), and that the library's counter is the number of its opens and `HBI_init`
calls that were not taken back, the failed opens among them (`CountsRight`).

### FwLoad

`FwInductive` (`FwInv`) and `FwTypesRight` (`TypeOK`: no buffer ever holds more than its
length) hold of all files, however long and however cut. `LoadsWhole` (`LoadedWhole`),
`DoneLoads` (`DoneMeansLoaded`) and `EmptyStart` (`StartsEmpty`) are proved under `Regular`:
the files that fit a buffer have one length and are whole blocks, no write ends within
the header or within the last `HdrLen` units of such a file, and the first piece the driver
takes is of one of them (`LoadSpec`). A file that is too long is cut as well, also past
the buffer's end, so that the driver may find it too long with pieces of it in the buffer. The run `fw_upload` satisfies it; `fw_second`
shows that without one length the wrong amount is loaded, and `CompleteBeforePush` what a late
cut does. `RegularInv` says that the header which was latched fits every file (`Latched`,
whichever file it came from), that a buffer holds what its process has written of its file
and nothing when nobody writes (`Gathered`), and that what was sent is the image so far
(`SentSoFar`): the statics are shared by writers of different devices, so each step of one
has to keep this for all.

### TwHost

`TwInductive` (`TwInv`) and `TwTypesRight` (`TypeOK`: registers keep their width through the
swaps of `HBI_VAL`, lemma `ValWord`) hold for any number of threads. `TwInv` says of what is
left of a call (`todo`) which access follows which (`Follows`, `OrderedAt`), what surrounds a
command (`CommandAt`: noticed, waited for, its own result read; its parameter written before the
mailbox check), and that the device is brought to its boot ROM first (`BootsFirst`).

`SuccessIsDone` (`SuccessMeansDone`), `UploadsInBootMode` (`UploadInBootMode`) and
`NoticesRespected` (the action property `NoticeRespected`) are proved for a device with one
user (`Threads = {t}`): the run `tw_serial` shows that with two the first is false, because no
lock is held across the accesses of a command. They hold whatever fails on the bus, whether
the device hangs or is just too slow for the polls. Of the calls that save, `SuccessIsDone`
says that the device saved, and for `save_cfg` in application mode under which number; in boot
mode the number is wrong (`tw_slot`). `SerialInv` says at each access what the registers hold (`Tidy`):
nothing is outstanding before a mailbox check; the parameter is the call's own from its
write to the notice; after it, the command is taken, is being processed, or has been answered,
and an answer of success means that the device did it (`Pending`, `Told`). `Promised` says
that what was asked is done or still to be answered. The one command nobody waits for is the
last of `tw_save_cfg_to_flash`, whose result is read at once: there the invariant needs that
the answer to `FLASH_INIT`, still in the register, is not the code of success
(`Unwaited`).

### RegFrame and RegAccess

| Theorem | States |
|---|---|
| `HeaderReachesRegister` | for every register, size and direction, and whatever page the device has selected, the command words make the device access that register, that way, that many words |
| `RegInductive` | `RegInv` always holds |
| `RegTypesRight` | `TypeOK` |
| `WritesAlwaysLand` | `WritesLand` |
| `ControlsAlwaysHold` | `ControlsHold` |
| `DumpsKept`, `DumpsEnd` | `DumpKept`, `DumpEnds` |

`HeaderReachesRegister` takes an address (`AddrParts`), a size (`SizeParts`) and a command word
(`TopBit`, `AccessDecodes`) apart into their fields, from a few facts about division (`Bytes`,
`Halves`, `Even`). `Addrs` leaves out 248 to 255, which the direct form cannot name: the words
for them are page selections. `WriteReaches` is the theorem for the header of a write.

`RegInv` says what an operation holds at each of its places (`Held`), that the words of a write
which are in the buffer and still to be sent are its own while no other write has changed one
(`BufferRight`), and that one write at a time is on the bus, with the device in the middle of the
command for its register once its header is out (`BusRight`). So the words of such a write have
one effect, at the last one: its data is stored in its register (`OwnSent`). Of a write that is
`off` nothing is claimed but that what it changes is counted as written, and that the next
transfer finds the device waiting for a command. A put writes the register as it read it, but
for its field (`Held`); whether that is still the register as it is, `Current` says.
Then `ControlsHold` is
arithmetic: a register is `Digits` below, in and above a field; `Merged` changes the one digit
(`MergedDigits`), so that the field reads as it was set (`FieldSet`) and every other control of
the register as before (`FieldKept`), because the fields do not overlap (`Below`). `DumpsRight`
and `TakesRight` say that the words are a request's own until another user asks, and that one
user at a time takes no more than is left, unless `mixed`. Assumed (`RegConstantsOK`): fields lie
within 16 bits and do not overlap, as in `zl380xx_snd_controls`; `size_t` counts beyond the
largest dump.

### HbiLoadFirmware and MiTuner

| Theorem | States |
|---|---|
| `MiTunerInductive` | `IInv` always holds |
| `TypesRight` | `TypeOK` |
| `AnswersAlwaysInOrder` | `AnswersInOrder` |
| `AlwaysLoadsWhatWasSent` | `LoadsWhatWasSent` |
| `SessionsImplemented` | `ImplementsSessions`, the refinement of `Sessions` |
| `DoneIsAsAsked` | `DoneAsAsked` |

`IInv` has two halves. For the tool it says, at every stage, what the stages before have left on
the device and nothing after them takes back (`FlashWritten`, `ImageLoaded`, `ConfigLoaded`,
`ConfigSaved`). The hard part is the slot: `slot` is the last one only because firmware that is
to be replaced has been stopped (`ArgumentsChecked`), so that `SlotOf` is not the user's index.

For the server it says where it is in the stream (`Taken`): it has taken some number `n` of
whole requests, or these and the header of the next, it has answered just these, and `s3File`
holds what these say it should, if an `FA` is among them. `Queued` says that a client waiting for
`accept` has no answer yet, and waits once. `LoadsWhatWasSent` needs `FileLoaded` too: what the
device runs after an `FC` is `s3File` as it stands, until the client's next request.

Two loops are recursive functions here: the ends of requests in a stream (`Ends`), and the lines
of a record (`Cr2`). Since the induction theorems cannot be used, `Least` takes the least number
of a set from the well-founded order of the naturals, and `NoGap` concludes that numbers that go
from one to the next are all there. `LoopStep` is one line of `LoadConfigCr2` (it opens a run,
extends it, or ships it), and `LoadedIsWhole` its result: the lines written are `Whole(record)`,
which says without a loop that only the last lines, those of a block neither full nor followed by
a gap, are missing. `HeaderRight` says that a header taken at the end of a request is that of
the next one.

`SessionsImplemented` has one lemma per kind of step. What a client does leaves its session alone
(`ClientSession`), except that a connection joins the queue (`ConnectSession`). A recv is split
by its outcome (`RecvTakes`): the request is `NotYet` whole, the server `Stops` over it, or it
`Parses` it. The first is a stutter since `Begun` stays at the end of the same request
(`CarriedNext`), and because `n` requests end up to the end of the `n`-th (`EndsCounted`) the
last is the abstract `CarryOut` (`RequestCarried`), with what each function of the tool may leave
in the device's memory (`LoadResults` to `EraseResults`). It needs the server's half of `IInv`
throughout: without `Taken`, `used` would say nothing about requests.

Assumed: a block of at least one word, lines with addresses other than 0, devices that run only
whole images (`LoaderOK`); headers and buffers of at least one byte, scripts of finite length,
files that are not mistaken for `None` or `Partial` (`MiTunerOK`).

### Only model-checked

Liveness (`CallsReturn`, `Served`) is out of the prover's reach. Every safety property a passing
run checks is a theorem, under the hypotheses stated above; the five runs that expect a violation show traces, and need no proof.

## Not modelled

- The race of two first callers of `HBI_init`, when no lock exists yet.
- The lock table of `ssl_port.c`: nothing in the repository creates or deletes locks while
  others use it, and every caller waits for ever. A lock that was never created is refused
  (`ssl_port.c:44-48`), so the uninitialised `dev_lock` of a device opened through proc or by
  the codec just means no lock.
- Two operations on the device list at once; a copy from or to user memory that fails; the
  unwinding of a module load before the class exists; images loaded at boot (`isboot` is
  FALSE on the board).
- Short transfers that are not reported as failures, and what `hal_open` asks of the I2C and SPI
  core; the bytes of a word of which two writers have copied one each.
- What a process does with a file of a module that was removed, after the first such use.
- The text of requests and proc entries: parsing, formatting, malformed numbers.
- The sound card registration, the firmware converter, the example, the binding, the build
  files and the device tree: no state that outlives a call, or no logic.

## What could follow

`HbiKernel` with two operations on the device list at once, to show what its missing lock costs;
the lock table, should a caller create locks concurrently.
