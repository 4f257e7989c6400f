# Verification of sys++

sys++ is a C++ library of thin, portable layers over the operating system:
reference-counted pointers, handles, file streams, memory-mapped files, string
conversion and a few more. This directory has TLA+ models of it, TLC runs that check
them on small instances, and proofs checked by TLAPS that hold for every value of the
constants.

## 1. The system

| Component | Source | State it keeps | Operations | Talks to |
|---|---|---|---|---|
| Reference-counted pointer | `refcount_ptr.h` | the pointer; the count in the object | construct, copy, move, assign, reset, swap, destroy | atomic counters |
| Atomic counters | `sysatomic.h` | a word shared by threads | `atomic_add`, `atomic_swap`, `atomic_get` | - |
| Handles | `syshandle.h` | a descriptor it owns | copy (= transfer), reset, release, close | kernel |
| File i/o and modes | `sysio.h`, `sysio.cc` | none | `create_file`, `read_file`, `write_file`, `seek_file`, conversions between iostream, POSIX and Windows modes | kernel |
| Buffered file streams | `fstream.hpp`, `fstream.cc` | descriptor, mode, one buffer for get and put area, put-back character | the `std::streambuf` protocol, `open`, `close`, text mode in the Windows build | file i/o, handles |
| Stream classes | `fstream.hpp` | a `filebuf`, the state flags | `ifstream`, `ofstream`, `fstream` | `filebuf`, open modes |
| Memory-mapped files and views | `sysmemmap.h`, `sysmemmap.cc`, `sysmmdetail.h` | shared `map_impl` with a descriptor; area and size of each view | open, close, copy, map, remap, bind, move, unmap | reference-counted pointer, handles, kernel |
| Mapped stream buffer | `membuf.hpp`, `membuf.cc` | a view, `m_offset`, get and put area | the streambuf protocol, `greserve`, `preserve` | views |
| Memory stream buffers | `membuf.hpp` | get and put area over one block of memory, whose it is | the streambuf protocol, growth | allocator |
| String conversion | `sysstring.h`, `sysstring.cc` | none, but for `uni_string`, which keeps a text in two forms | UTF-8, UTF-16 and UTF-32 conversions | - |
| Timer | `timer.hpp`, `timer.cc` | the start time | `restart`, `elapsed` | kernel clock |
| Environment | `sysenv.h` | that of the process | `get_env`, `set_env`, `unset_env`, `expand_env` | `local_buffer` of `sysstring.h`, kernel |
| Errors | `syserror.h`, `syserror.cc` | an `error_info`, shared by copies of an exception | throw, copy, `what`, `get_description` | kernel |
| File system | `sysfs.h`, `sysfs.cc` | none | `getcwd`, `chdir`, `mkdir`, `rename`, `unlink`, ... | kernel, `local_buffer` |
| Case-insensitive strings | `icase.h` | none | comparison, order, hash, conversion | locale |
| Binary data | `bindata.h` | none | byte orders, bit scans | - |
| Windows memory and clipboard | `winmem.hpp`, `clipboard.hpp` | blocks and locks they own, the open clipboard | `alloc`, `lock`, `release`, `set_text`, `get_text` | Windows |
| Shared libraries | `sysdll.h` | - | does not compile | - |

The hard behaviours are these. `refcount_ptr` is used by threads without locks, and a
delete cascades through the members of the deleted object. `filebuf` has one buffer for
input and output, a put-back character beside it, and a device that may take a part of
what it is given. A `dynamic_memory_buf` replaces the block under its areas while it is
written to. The conversions take any bytes, and have to stop at the end of them. A
`mapped_buf` moves its window while the areas of the stream point into it, and every
move can fail. Views and maps share descriptors and address space with the rest of the
process. Text mode translates line ends through two buffers, and either may end between
the two characters of a line end. What the system is asked in two calls, once for the
size and once for the value, may change in between. A block of memory changes hands with
the clipboard halfway through a call of several steps, each of which may fail. What
makes each of them correct is stated at the property definitions; the hazards behind
them are listed in `PROJECT.json`, each at its line.

## 2. The modules

Modelled is the POSIX build with an atomic-capable compiler, and where it is another
program, the Windows build: in `FStream`, `Environ`, `FileSys` and `Timer` beside the
POSIX one, in `TextMode` and `Clipboard` alone. A model keeps the names of the code
(`m_sync`, `m_input_size`, `greserve`, ...) where it has one operator per function.

### RefCount (`refcount_ptr.h`, `sysatomic.h`)

`ptr` is the pointer of every `refcount_ptr`, which is a variable or the member of an
object; `ref_count` and `alive` are the objects' counters and the heap; `op` is the call
each thread is in. A call that disposes of an object is several steps: the decrement,
which fetches the old count (`Dispose`), the deletion of the objects that were the last
to be held, member first (`DeleteMember`, `FreeObject`), and the rest of the call
(`FinishShare`, `FinishMove`, `FinishDestroy`). Other threads step in between. The other
calls have one access to shared memory and are one step.

What the client must do is in `Calls`: no two threads use one pointer when one of them
writes it, as for any C++ object, and a member pointer is reached through a pointer that
keeps its object alive. Self-deleting assignments such as `p = p->next` are outside of
that rule and not modelled.

Two simplifications: a pointer that was just disposed of is cleared at once (the code
overwrites it, or it ends its life), and constructing into an existing variable needs it
to be empty, since a new variable is.

### FileStream and FileBuf (`fstream.hpp`, `fstream.cc`, `sysio.h`)

`FileStream` is the abstract specification: a file and one position shared by reading
and writing, with no buffer. `FileBuf` is the buffer. Its record `fb` has the file and
the position of the descriptor (`file`, `fpos`), the handle and mode, the memory `m_buf`
with the areas as offsets into it (`gn`, `ge`, `pn`, `pe`), `m_cur_gsize`, and
`m_putback`, which can be the get area itself (`area = "pb"`). Each public call of the
streambuf is an action; the operators `m_sync`, `underflow`, `xsgetn`, `overflow`,
`pbackfail`, `xsputn` and so on compute what the members of the same names do to the
record. The call and its answer are left in `call` and `ret`, which the abstract
specification has too. The strings of `sputn()` include the empty one, which writes
nothing and moves nothing, also in a stream that appends.

The refinement mapping counts output that waits in the buffer as written, and puts the
position where the next character would be read or written. It is checked by TLC as the
property `StreamSpec`, and proved in `FileBuf_proof`. It is about the steps that the
filebuf takes while its device works (`Working`), whatever the device did before.
`Devices` are the states of the device, and a step of its own goes from one to another:
`limit` bounds what one `write()` takes, and without `readable` a `read()` fails, which
the code takes for the end of the file. `close()` of a device that does not work may
fail. `pubsetbuf()` is given a buffer, or 0 and 0, or one of both, which it accepts and
leaves the buffer as it was (`Buffers`).

`std::streambuf::sputc`, `sgetc`, `xsputn` and their kin are part of the C++ library;
they are modelled from what the standard says they call.

### MapView and Mapping (`sysmemmap.h`, `sysmemmap.cc`, `sysmmdetail.h`)

`MapView` has the arithmetic: which bytes a view gets, and which pages. `Mapping` has
the descriptor table of the process (`fds`), the descriptors of the program's own
(`user`), the `map_base` and view objects, the `map_impl` objects with the descriptor
they own, and the address space page by page (`vm`). `open()` and `dup()` return the
lowest free descriptor, as POSIX has it, so numbers are reused; `mmap()` takes any free
run of pages, and fails if there is none or for no reason. A `map_impl` goes when
nothing holds it: that `refcount_ptr` manages this is the subject of `RefCount`. Maps
are not opened larger than their file.

### MappedBuf (`membuf.hpp`, `membuf.cc`)

Pointers of the areas are a base and an offset; the base is the mapped window, a window
that is mapped no longer, or null. An access through any but the first is a fault, which
stops the program; so is writing to memory mapped to be read, or asking a buffer that
was never opened for its size. A call can also throw; the state it leaves behind is what
the code leaves, and the next calls go on from there. `thrown` records that some call
did.

### MemoryStream and MemoryBuf (`membuf.hpp`)

`MemoryStream` is the abstract specification: one text, a position to read at and one to
write at. `MemoryBuf` has the buffer in the record `mb`: the kind of the object
(`basic_memory_buf` or `dynamic_memory_buf`), `m_mode`, `m_allocated` (`own`), the block
of memory with its content, and the five pointers as offsets from `eback()`. `heap` has
the blocks that are allocated, with their sizes. Memory the user gives is the block
`"user"`; `allocate()` returns a block full of `Junk`, or throws.

`overflow()` and `xsputn()` differ in what they ask `m_grow()` for; the rest of both is
`Put`. The buffer has no `underflow()` or `pbackfail()` of its own, so that reading is
what the C++ standard says of `std::streambuf`. The refinement mapping takes the content
of the block for the text, `goffset()` and `poffset()` for the positions: the code has
`StreamSpec` as `eback()` and `epptr()` stay the ends of the block even when one of the
areas is not in use.

### Utf and UniString (`sysstring.h`, `sysstring.cc`)

`Utf` has the conversions of one character. Code units are numbers, and what the code
does with masks and shifts is done with `\div` and `%`. The loop of `u8tou32()`, which
narrows a mask byte by byte, is said by what it finds: the number of bytes that the lead
byte announces (`Follow`), whether they are there (`Continued`), and how many are
skipped if not (`Skipped`). -1 is `UChar32 (-1)`, which is greater than every code
point. Table 3-7 of the Unicode standard is the reference for well-formed UTF-8
(`Rows`). `UniString` has the conversions of strings and the class that holds a text in
both forms; `origin` remembers the text that was assigned, through conversions and
assignments of what `get_string()` returned.

The decoder is lenient: overlong forms and encoded surrogates are decoded, and so are
sequences of 5 and 6 bytes. A stray continuation byte is returned as the character of
its own value, although the comment at `sysstring.h:205` says "-1 if invalid UTF-8
sequence was encountered"; the model has it as the code does.

### OpenMode and FStream (`sysio.h`, `sysio.cc`, `fstream.hpp`)

`OpenMode` has the modes of iostreams, of `open()` and of `CreateFile()`, the
conversions between them in both builds, at run time (`sysio.cc`) and at compile time
(templates of `sysio.h`), and what the two system calls do to a file in each mode.
`FStream` has the classes `ifstream`, `ofstream` and `fstream` on top of it. Every call
is made in both builds at once, on two copies of the file; the buffer is the unbuffered
stream that `FileBuf` implements. The question is whether a program means the same in
both.

### TextMode (`fstream.cc` 272-459)

`filebuf` in text mode, in the Windows build: `m_read_text()`, which turns `"\r\n"` to
`'\n'` and has to look one byte ahead at the end of `m_buf`; `text_writer`, which fills
a buffer of its own with the translation and writes it when it is full; and
`m_flush_text()`, which gives the unread input back to the file and has to count the
line ends in it. `TextFiles` are disk files with proper line ends, and the device takes
`Rooms` bytes. The two loops of the code are recursive functions of the number of turns,
and a turn is an operator of its own, `Scan` of `m_read_text()` and `Line` of
`m_write_text()`.

### Handle (`syshandle.h`)

The descriptor table (`fds`) with lowest-free allocation, `generic_handle` objects whose
copy takes over the descriptor, and the raw descriptors of the program. `given`
remembers for each handle the file it was given, so that a handle that closes a number
that was reused in the meantime is seen.

### Environ (`sysenv.h`, `sysstring.h`)

Threads that get, set, unset and expand variables. In the Windows build a call asks for
the value with a buffer of `DefaultSize`, and once more with a larger one if it did not
fit (`local_buffer`); the other thread steps in between. `DefaultSize` is the constant
`EnvSize` of `System`. The result of `expand_env()` ends in the NUL that the system
counts: `ExpandTells` is true with and without it, `ExpandsExactly` is what the comment
in the code has.

### Clipboard (`winmem.hpp`, `clipboard.hpp`)

Blocks of memory with lock counts (`heap`), the `mem::global` objects that own them, and
the clipboard (`data`, `holder`), which another process uses, too. A call of
`set_text()`, `set_locale()` or `get_text()` goes through the constructors and
destructors it has in the code, each step may fail, and `call` is where it stands.

### FileSys (`sysfs.h`, `sysfs.cc`)

A tree of files and directories and a current directory, which another thread changes,
also between the two tries of `getcwd()`. Names that are too long for the first buffer,
for both, or for neither are told apart by `MbLen`.

### ErrorInfo (`syserror.h`, `syserror.cc`)

Exceptions that share an `error_info` by their copies, `error_sentry`, and calls of the
system that fail all the time and change the error code of the thread. A text has two
forms, `char` and `wchar_t`, one of which is made when it is asked for.

### Timer, ICase, BinData (`timer.hpp`, `timer.cc`, `icase.h`, `bindata.h`)

`Timer` is a clock and the timer of both builds on it. `ICase` has the functions and
functors of the header as operators, and three strings of a program that are converted
to upper and lower case in place. `BinData` has numbers of 1, 2, 4 and 8 bytes as they
are in memory, and swaps one of them in place.

### System, MCValues, MCSystem

These put together parts that share little or no state, so that one run checks them:
`part` says which of them a behaviour is about, the variables of the others do not move.
Each part has its own initial states, steps and properties in its module. `System` is
`Environ`, `Clipboard`, `Handle`, `FileSys`, `ErrorInfo` and `Timer` with the constants
of all of them and what is assumed of these. `MCSystem` gives them small values and puts
`FStream` and `TextMode` (with the values of `MCTextMode`) beside them: `side` is the
system, the streams or the text. `MCValues` has `MemoryBuf` and `UniString` (with the
values of `MCMemoryBuf` and `MCUniString`), `ICase` and `BinData`. Both extend the modules
that the proofs are about, so that a run and a theorem state the same definition.

## 3. The runs

| Run | Instance | What it shows |
|---|---|---|
| `refcount` | 2 threads, 2 objects, 3 variables | exact counts, nothing dangling, deleted twice or lost, under every interleaving; what was dropped is deleted in the end |
| `filebuf` | buffers of 2 and 0, files up to 3, modes `in`, `in|out|app`, `in|out|ate`, `out|trunc`, a device that takes all, takes 1 byte at a time, or fails to write and to read | while the device works the buffer implements the unbuffered stream; a sync skips no input; reported losses, no junk, areas apart |
| `filebuf_close` | the same buffers and device | finding: `close()` hides the failure of its flush |
| `mapping` | 2 maps, 2 views, 2 files, 3 descriptors, 3 pages | views intact, pages and descriptors owned |
| `mappedbuf` | pages of 2, files up to 5, mmap may fail | window, positions and transfers agree |
| `mapped_end` | same | finding: reading over the end of the file throws |
| `mapped_put` | same | finding: `sputn()` beyond the window misplaces the string |
| `values` | memory of 0 and 2 that grows to 4 and more, 3 blocks, allocation may fail; the first and last codes of every length, ill-formed sequences, pairs of units; all triples of strings of 5 codes up to length 2; numbers of 1 to 8 bytes | the memory buffer implements the text with two positions, and blocks are given back once; text is kept and no form is stale; equality, order and hash without case agree; byte orders and bit scans agree with their definitions |
| `system` | 2 threads, 3 blocks, 3 handles and descriptors, names of up to 3 parts, 2 exceptions, a clock of 2 2/3 seconds; every mode with every disposition on files up to 3; lines up to 6 bytes through buffers of 3 | one owner of whatever is given back; queries of two calls and errors tell the truth, and elapsed time goes on; both builds do the same, and `open()` what was asked; text mode reads and writes the text |
| `text_loss` | the text mode of `system` alone | finding: half of a line end counts as written |
| `expand_env` | that of `system` | finding: `expand_env()` appends a NUL |
| `elapsed_time` | that of `system` | finding: the POSIX timer adds a second |

The passing runs have between 19 900 (`refcount`) and 334 000 (`mappedbuf`) distinct
states.

Why the bounds are enough. Two threads and two objects have every race on one counter
and a cascade from one object to the other, and a cycle; three variables let a thread
copy what another one drops. A buffer of 2 makes every string and read of 1, 2 and 3
less than, equal to and more than the buffer, with the position at every place in it.
Files of 5 and pages of 2 have a first, a middle and a short last window. Three pages
hold the largest view or two small ones, so that mapping fails for want of space and
pages are reused; three descriptors do the same for files. A memory buffer of 2 with
`GROW_SIZE = 1` grows by half and by what is asked for, and grows again at 4; three
blocks are one more than growing takes, so that a block given back is used anew. The
texts have both ends of each range that a comparison of the conversions tells apart,
alone, in pairs, cut short and followed by a stray byte; characters further inside are
what the proofs are for. The lines of text mode are cut by `m_buf`, by the translation
buffer and by the device at every place, between `"\r"` and `"\n"` too. Of the three
values of a variable in `system`, one fits into the buffer of 3 with its NUL, one only
without it, and one not at all; the names fit the first buffer of `getcwd()`, the second
and neither. Characters are symmetric, and are permuted; strings have neighbours that
differ, so that a shift shows. Cells that no later step reads (the last call, `msize` of
a view without area) are left out of the fingerprint with `VIEW`; action properties are
still checked on every step. The bounds in the specifications are `MaxFile` (length of
the file), `MaxOffset` (`m_offset` after calls that throw), `MaxPos` (the position that
is put to), `MaxRead`, `MaxString` (the characters asked for), `MaxLen` (strings of
`ICase`), `MaxTime` (the clock), and the argument sets.

`CHECK_DEADLOCK FALSE` is given for `refcount`, where objects that point to each other
are leaked, as with any counted pointer, until none is left to allocate, and for
`MappedBuf`, where a fault ends the program.

Client rules that the passing runs assume are constants, so that they can be given up.
Each stands for a flaw or a trap of the code, and TLC finds a property violated when it
is changed:

| Constant | Rule | Without it |
|---|---|---|
| `UnderBegin` of `FileBuf` | nothing is pushed back before the first position | `StreamSpec`: input is skipped by the next sync |
| `Lengths`, `Strings` of `MappedBuf` | no transfer of 0 characters | `NoWildAccess`, `WindowAtOffset`: the old window comes back at the new offset |
| `ObjSize`, `SelfMove` of `Mapping` | objects of one byte, no move of a view to itself | `PagesOwned` |
| `ConstCopy` of `Handle` | no copy of a const or temporary handle | `OwnedOnce`: two handles close one descriptor |
| `Growing` of `Environ` | no variable outgrows the buffer that was just made for it | `QueriesTell` |
| `Value` of `Environ` | no variable has an empty value | `QueriesTell`: Windows returns 0 for it, as for none |
| `EmptyNames` of `FileSys` | no empty wide name | `ErrorsTell` |
| `IllFormed` of `ErrorInfo` | no ill-formed object or message | `ErrorsTell` |
| `Floats` of `BinData` | no `little_float()` on a big-endian machine | `BytesSwapped` |
| `AppendCreates` of `FStream` | no creation disposition together with `app` | `SameOnBoth` |
| `TruncateToRead` of `FStream` | no `truncate_existing` for a stream that only reads | `SameOnBoth` |

Some rules are part of a model: those that its first comment lists.

Three properties come in two forms, as the code does not do what its comments say. The
form in the comment is violated, and has a run of its own; the other, which a code that
keeps the comment would satisfy as well, says what can be relied on, and is proved.

| In the comment | Counterexample | What holds |
|---|---|---|
| `TextLossReported`: `sputn()` in text mode returns the "number of source characters successfully written" (`fstream.hpp:487`) | of `"a\na\n"` the device takes 5 bytes of 6, and 4 is returned | `WritesText`: a beginning of the translated text is written, every character in the file in full is counted, and none of which there is nothing |
| `ExpandsExactly`: `expand_env()` "copies SRC into DST, expanding all references" (`sysenv.h:81`) | any string: the result has a NUL more | `ExpandTells`: the expansion as it was at a moment of the call, with or without a NUL behind it |
| `ElapsedTells`: `elapsed()` is the "elapsed time in seconds" (`timer.hpp:121`) | a start shortly before a full second of the clock, in the POSIX build | `ElapsedGoesOn`: no less than the time that has passed, never going back, and 0 at the start |

The other findings are the violated runs of the table above: `CloseReportsLoss`,
`ShortAtEnd` and `StringsInPlace`.

Fairness. Only `RefCount` has liveness: a thread that is inside a call takes its next
step in the end (`Fairness`), which is what a scheduler gives to every runnable thread,
as none of the steps waits. No thread has to begin a call.

## 4. The proofs

| Module | Theorems | Assumed of the constants | Client rules |
|---|---|---|---|
| `RefCount_proof` | `CountsExact`, `NeverDangling`, `NeverDoubleDelete`, `NeverOrphaned`, `UniqueIsSole` | `SlotAssumption` | |
| `FileBuf_proof` | `AreasAlwaysApart`, `NeverJunk`, `LossIsReported` | `BufAssumption` | |
| | `SyncKeepsInput` | | `~UnderBegin` |
| | `FileBufIsStream`, a refinement | | `~UnderBegin`, a device that never fails: `Devices = {<<MaxFile, TRUE>>}` |
| `MemoryBuf_proof` | `AlwaysTheEnds`, `AlwaysOwned`, `LeaksAtEndOnly`, `Implements`, a refinement | `MemoryAssumption` | |
| `MappedBuf_proof` | `AlwaysAtOffset`, `NeverWild`, `AlwaysInOrder`, `AlwaysInPlace`, `AlwaysSeeksBoth` | `MappedAssumption` | `NoneEmpty` |
| `Mapping_proof` | `ViewsStayIntact`, `PagesStayOwned`, `DescriptorsStayOwned` | `MappingAssumption` | `WholeObjects`, `~SelfMove` |
| `System_proof` | `PartsInvariant` | all of `System`'s | |
| | `OwnersStayOne` | | `~ConstCopy` |
| | `TextIsWhatWasSet`, `ElapsedIsTold` | | |
| | `ErrorsAreTold` | | `~IllFormed`, `~EmptyNames` |
| | `QueriesAreTold` | | `~Growing`, no value is empty |
| `Values_proof` | `DecodeEncode8`, `DecodeEncode16`, `Advances`, `EncodesWellFormed` | | |
| | `StringKept`, and from it `StringTypes`, `TextStays`, `FormsStayAlike` | `TextAssumption` | |
| | `CaseOrder` | `CaseAssumption` | |
| | `Swaps` | `BinAssumption` | `~Floats` |
| `Streams_proof` | `SameProgram`, `OpensAsAsked` | `StreamAssumption` | `~AppendCreates`, `~TruncateToRead` |
| | `TextIsRead`, `TextIsWritten` | `TextModeAssumption` | |

The assumptions are named in the module that declares the constants, and TLC evaluates
them on every run. They say what kind of number or set a constant is, and the little
that the code needs: pages and buffers are not empty, `NULL` is none of the objects. The client rules are hypotheses of the theorems that need them, the same that
the runs give to the constants; section 3 has what happens without each.

`RefCount_proof` is for any number of threads, variables and objects. `CountExact` is
not inductive: that a thread sees the old count 1 has to imply that nobody else will
ever touch the object. The invariant `Inv` adds where every object stands: it is alive
exactly if it is held, on some thread's deletion stack, or about to be stored; an object
on a stack has the count 0 and no pointer, is there once and on one stack only; the
stack of a thread holds distinct objects; the slots a call writes are nobody else's.
From it follow `CountsExact`, `NeverDangling`, `NeverDoubleDelete`, `NeverOrphaned` and
`UniqueIsSole`. The steps change one or two slots, and the lemmas on the sets of slots
that hold an object (`Refs`) turn each into a change of a cardinality by one.

`FileBuf_proof` is for any buffer size, file, mode and device. `AreasApart` and `NoJunk`
need each other, and the type of the record: that a pending character is a character
needs the put area to be no larger than the buffer and to be disjoint from what was
read, and the other way round. `Sound` has them all, and there is a lemma for each
private member that says that it keeps `Sound`, so that the proof of an action only
cites the members that it calls.

The module goes on with what the calls do to the file. That `sync()` skips nothing needs
`Behind`: the input in the buffer, and the place of a character that was pushed back,
lie between the start of the file and the descriptor, so that the descriptor can always
be moved back by all of it. `Behind` is inductive with `Sound` as long as nothing is
pushed back before the first position; with `UnderBegin` it fails, as the run does. For
`LossIsReported`, `Output` is the file as it will be with what waits, and a member either
leaves it (`Idle`) or adds exactly the characters it was given at the place they belong
(`Puts`). Each member that reports success is shown to do one of the two: a buffer that
is written and then refilled is two writes one after the other, which is one write of
both strings (`WriteTwice`). Output that is lost was then in a call that did not report
success. `close()` is not among them, which is the finding of `filebuf_close`.

The last part of `FileBuf_proof` shows that every step of `FileBuf` is a step of `FileStream`, for any
buffer sizes, files and strings, on a device that never fails; that the filebuf comes
back to it after the device failed is left to the run. Of each private
member that reads it proves what it does to the characters that reading sees: from `s`
to `t` the characters `g` were read (`Moves`), which were next in the file or pushed
back, and what was pushed back and not read is still there (`Kept`). These compose, which
is how `xsgetn()`, which takes characters from the put-back cell, the buffer and the file
in turn, comes out as one reading. `Pushes` is the same for `pbackfail()`, in its three
cases; `Puts` does for output, as such a device takes all of it (`XsputnTakes`); and after
`m_sync()` nothing is left in the buffer (`AtRest`). The invariant `FlowInv` adds three
facts to `Behind`: what waits is no longer than a file may become, there is a put area
only in a stream that writes, and right after characters were read one can be put back.

`MappedBuf_proof` is for any file, page size and sequence of calls. That the areas are the
window at `m_offset` is not inductive by itself: `Good` adds that a window that is mapped
is in use by both areas or by none, that areas without one keep the size of the last, and
that the window lies within the file. Calls that throw leave more states behind; `Calm`
is what holds until one did, and `NoWildAccess` follows from it. The action properties
need no more: each call is a number of moves of the window, and a lemma for each says
which bytes of the file it shows. `NoneEmpty` rules out transfers of 0 characters, which
bring back the old window. `ShortAtEnd` and `StringsInPlace` do not hold (section 3).

`Mapping_proof` is for any number of maps, views, files, descriptors and pages, and any
page and object size. `ViewsIntact` needs that maps which views hold are there, which
needs the references to them (`Held`), that no two maps have the same descriptor
(`OneOwner`), and that no two views have the same page (`AllIntact`), and it is the
arithmetic of `MapView` that says that the span of a view, rounded to pages at both ends,
is what is mapped and what is unmapped. `WholeObjects` has the sizes and offsets in whole
objects: without it a view counts fewer bytes than it has mapped, and may leave its last
page behind.

`MemoryBuf_proof` is for any texts, sizes, growth and set of blocks. `Ends` and
`OwnsItsBlock` are inductive together with the type (`Inv`); `m_grow()` is the step that
needs all three, as it computes the new areas from the old. From the invariant follows
the refinement: each action of `MemoryBuf` is the action of `MemoryStream` of the same
name (`Implements`).

`System_proof` is for any number of threads, handles, descriptors, blocks, objects, formats
and exceptions, any names, values, texts and sizes of buffer, and any clock. `Parts` is the
conjunction of one invariant for each part. A step is one of one part, which has lemmas
for its actions; the others only stay as they are.

- `HandlesInv` adds to the type that no file is at two descriptors, that no two handles,
  and no handle and the program, have the same descriptor, and that everyone who has one
  was given the file that is there. That the holders of an open file are one in number
  (`HandlesOwn`) follows from it, and so do the assignment of a handle to itself and
  `reset()` to the same descriptor, which must not close it.
- `ClipInv` relates three things: a block is free exactly if no object, no program and no
  format has it, and none has it twice (`Owned`); a call in progress has the clipboard
  open and, until the transfer, the block it works on (`InCall`), which is the only one
  locked (`Pinned`); and what is in the clipboard under a format is, up to its NUL, the
  text that was put there last (`Kept`). That the system rounds a block up, that a
  NUL in the last place is cut off and that a text may have none are all one relation
  of texts, `Same`, for which there are lemmas on `Upto`, `Resized` and copying.
- `FilesInv` has a tree in which every name stands in a directory, a current directory
  that is one or was removed, which Windows does not let happen, and of `getcwd()` in
  progress that its buffer has the size the build made it. From it follow `CwdTells` and
  `CwdFits`, with the sizes of a name in bytes and in characters (`LongName`).
- `ErrorsInv` is `InfoShared` with the types; `ErrorsTrue` says of each `error_info` that
  its parts and, once it is made, its description are those of the arguments it was made
  of, in both forms, as no part is ill-formed.
- `ClockInv` has a moment `s` at which the timer was started, and that `elapsed_ret` is no
  more than what `elapsed()` would return now; it is enough that `Since(s, t)`, which
  has a second more in the POSIX build as soon as the seconds differ, grows with `t`.
- `EnvInv` and `EnvTold` say of a call between its two questions that the environment is
  one of those it has seen and that what it asks for fits its buffer: the rule that a
  variable does not outgrow it (`~Growing`). The result of the last call is part of
  `EnvTold`, so that it is the action property without its step. The system returns 0 for
  an empty value as well as for none, and `get_env()` cannot tell them apart: hence the
  hypothesis that values are not empty.

`ExpansionAssumption` has the strings that sources expand to be sequences. It follows from
the assumption before it by an induction on the length of a source, which is why it is one
of the assumptions, and TLC evaluates it.

`Values_proof` is about every code, every text and every number. Of one character it
has `DecodeEncode8` and `DecodeEncode16` (what is encoded is decoded again, whatever
follows it), `Advances` (a step of the decoder takes at least one byte and none beyond
the end) and `EncodesWellFormed` (against the Unicode table). A code is split into its
digits to the base 64, which each byte carries one of.

`StringKept` is about whole strings, for any texts that are assigned. The conversions
walk along a string by a recursive function; the library's induction theorems take an
operator, which the provers cannot instantiate, so each induction along a string is over
the set of the places at which a claim holds: were one missing, the set of the missing
ones would have a least, by the well-foundedness of the numbers, and the place before it
contradicts that. `AlongExists` says so that the recursive function is there, and
`Flattening` the same of `FlattenSeq`. `RowIs` is the step of `Back8`: each row of the
Unicode table is decoded to a scalar that is encoded as it was. `There8` and `There16`
say that encoded codes are decoded again, `Back8` and `Back16` that decoded text is
encoded again. `Back16` needs no well-formed text: an unpaired surrogate goes to three
bytes and comes back. `Back8` does, as overlong forms come back shorter. The invariant
`StringInv` has, beside the types, that the forms which are there are those of the text
that was assigned (`Came`), and that two of them are conversions of each other
(`Paired`), which holds for ill-formed texts as well.

`CaseOrder` is for any set of codes, length of strings and width of the hash. That an
order of strings is transitive takes the first place at which two of them differ
(`Least`); that equal strings have equal hashes takes that case folding decides
equality, and that a string without NUL is its own `CStr`. The comparison of C strings
folds to lower case and the others to upper case: that both find the same strings equal
is a lemma on the folding of two characters. `Swaps` shows the formulas of shifts and
masks byte by byte, and of `bit_scan_msb()` that the first bit of the first byte that is
not 0 is the one it finds, for the four widths.

`Streams_proof` is, for `FStream`, for files of any length, any characters, and any modes and creation
dispositions. The invariant has the two builds `Alike` but for their access rights, every
position inside of its file (`InFile`), and that POSIX appends exactly when the mode has
`app` (`Appends`). What each build's conversion of a mode makes of a file is a lemma, for
the default and for a given disposition, and all four say the same (`FileCreated`).
`OpenAsAsked` is shown for the same steps. That modes come back from conversion as they
were, but for appending, and that the conversions at compile time agree with those at
run time (`ModesAgree`), are lemmas about sets of flags, and need no invariant.

For `TextMode` it is for any sizes of the two buffers, files in lines, texts and room on
the device. `ReadsText` is not inductive, as it does not say where in the file the handle
may stand. `TextInv` does: the file is `Crlf` of some text, and so is what follows the
handle, of a text `u`, and what follows `base`, of what was read, then what the get area
has left, then `u`. So the handle never stands between `"\r"` and `'\n'`, and that
`m_flush_text()` goes back as many bytes as the unread text takes is a matter of lengths
(`FlushBack`).

The loop of `m_read_text()` keeps `Reading`: what is in the buffer up to the pointer is
text already, what is behind it, with what the file still has, is `Crlf` of a text, and
what the loop still reads fits into the free places in the tail. `ScanTurn` has one case
for each way through a turn (`PlainTurn`, `LoneCr`, `PassedTurn`, `RefillsOn`,
`LookedTurn`), and that the pointer moves in each of them makes `size` turns enough
(`Reads`). The loop of `m_write_text()` keeps `WritesOn`: what was written, then the
translation buffer, is `Crlf` of what is already passed, and `written` is the number of
characters in what was written, a `"\r\n"` being one (`Chars`); once the device is full,
what was written is a beginning of the translated text. A beginning of a translated text
is the translation of a beginning, or that and a `"\r"` (`Beginning`), which is where the
two bounds of `WritesText` come from.

As with strings, what is needed of `Text` and `Crlf` on all texts, and of the turns of the
loops, is shown by induction over sets of numbers.

Left to TLC: the liveness of `RefCount`, which is out of the prover's reach.

## 5. Not modelled

Not modelled now, and why (see `PROJECT.json` for each component):

- `sysdll.h` does not compile: `get_proc()` is declared `const` and defined without, and
  `library_throw` reads a private member of `library`. `create_path()` of `sysfs.h` is
  declared and defined nowhere.
- `refcount_ptr` from `std::auto_ptr`, `atomic_swap` and `atomic_get`: nothing in the repository uses them.
- The functors of `sysio.h` for output iterators and the share modes, `get_size()` of a handle
  and the comparison of file times: they pass calls on.
- The conversions of strings in the Windows build, by `MultiByteToWideChar()`, and in the
  POSIX build by `wcstombs()`: what they do is the system's and the locale's.
- Text mode output that fits into `m_buf`, which is `FileBuf` over `TextMode`.
- Build files and configuration: no behaviour.
