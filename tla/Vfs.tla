-------------------------------- MODULE Vfs ---------------------------------
(***************************************************************************)
(* From a path to an operation on a file: the C library's wrappers         *)
(* (sysdeps.cpp), the system calls on descriptors (syscall_dispatch.c),    *)
(* path cleaning, mounts and the handle operations of kernel/core/fs.c,    *)
(* and the device file system mounted on /dev (kernel/devfs/devfs.c).      *)
(*                                                                         *)
(* A path is the sequence of what stands between its slashes, so a doubled *)
(* slash gives an empty component.  Handles on one path share one file and *)
(* its spin lock (OpenFiles); opening is one step here (Ext2Dir has its    *)
(* steps on the ext2 volume, which is mounted on / before any user process *)
(* runs).  A library call is a sequence of system calls that ends at the   *)
(* first that fails.                                                       *)
(***************************************************************************)
EXTENDS Integers, Sequences, SequencesExt, FiniteSets, FiniteSetsExt

CONSTANTS Client,      \* user processes
          RawPaths,    \* absolute paths they use
          RelPaths,    \* relative ones
          AtFds,       \* what they are relative to: a descriptor, or 0, the working directory
          Probes,      \* paths whose cleaning is checked by itself
          Flags,       \* of "rd", "wr", "rdwr" and "creat", any other combination
          Typists,     \* terminals somebody sits at
          MaxFds,      \* bound: descriptors of a process
          MaxLibCalls, \* bound: library calls
          NoHandle

Ttys == <<"ttyS1", "ttyS0">>      \* children of the devfs root, in order
Submounts == {"dev"}              \* fs_root.sub

VARIABLES
  wd,         \* working directory of each process, a handle
  fds,        \* its descriptors
  program,    \* the system calls its library call has still to make
  got,        \* the descriptors that call has opened, the last one first
  holds,      \* the path whose file lock the process holds
  exists,     \* regular files of the ext2 volume; "home" and "/" are its directories
  typed,      \* terminals with a line to read
  libCalls

vfsVars == <<wd, fds, program, got, holds, exists, typed, libCalls>>

-----------------------------------------------------------------------------
(* find_mount.                                                             *)

\* Mutant: a name that ".." removes is kept when another ".." follows
CleanComponentOnce(n, acc) ==
  IF n \in {"", "."} THEN acc
  ELSE IF n = ".." THEN [acc EXCEPT !.skip = 1]
  ELSE IF acc.skip > 0 THEN [acc EXCEPT !.skip = @ - 1]
  ELSE [acc EXCEPT !.kept = <<n>> \o @]

\* one component, from the last to the first: "." and nothing are dropped, ".." drops a name to come
CleanComponent(n, acc) ==
  IF n \in {"", "."} THEN acc
  ELSE IF n = ".." THEN [acc EXCEPT !.skip = @ + 1]
  ELSE IF acc.skip > 0 THEN [acc EXCEPT !.skip = @ - 1]
  ELSE [acc EXCEPT !.kept = <<n>> \o @]

Clean(raw) ==
  LET from[k \in 1 .. Len(raw) + 1] ==
        IF k > Len(raw) THEN [kept |-> <<>>, skip |-> 0] ELSE CleanComponent(raw[k], from[k + 1])
  IN from[1].kept

\* the mount that is deepest on the path, and what is left of the path below it
FindMount(clean) ==
  IF clean # <<>> /\ Head(clean) \in Submounts
    THEN [mount |-> "devfs", rest |-> Tail(clean)]
    ELSE [mount |-> "ext2", rest |-> clean]

-----------------------------------------------------------------------------
(* Handles.                                                                *)

IsDir(h) == IF h.mount = "devfs" THEN h.rest = <<>> ELSE h.rest \in {<<>>, <<"home">>}
IsTty(h) == h.mount = "devfs" /\ h.rest # <<>>

\* fs_open_mode; asked is a ghost: the path from the root, as all that led to it was written.  A
\* directory handle's place is not set before open_dir (0)
Handle(raw, asked, flags) ==
  LET m == FindMount(Clean(raw)) IN
  [asked |-> asked, path |-> Clean(raw), flags |-> flags, mount |-> m.mount, rest |-> m.rest,
   index |-> 0, listed |-> <<>>]

\* what devfs_open and ext2_open find: devfs_open tests a variable it did not set when the path
\* is empty, and ext2_open may fail for want of space or by a disk error
MayOpen(h) ==
  IF h.mount = "devfs"
    THEN h.rest \in {<<>>} \cup {<<t>> : t \in ToSet(Ttys)}
    ELSE IsDir(h) \/ h.rest \in exists \/ (h.flags = "creat" /\ Len(h.rest) = 1)
MustOpen(h) == IsTty(h) /\ MayOpen(h)

\* fs_openat: a relative path goes behind the path of the directory and a slash; the path "/" of
\* the root gives an empty component
HandleAt(at, s) ==
  IF s.abs THEN Handle(s.path, s.path, s.flags)
  ELSE Handle((IF at.path = <<>> THEN <<"">> ELSE at.path) \o s.path, at.asked \o s.path, s.flags)

\* flags are compared whole: a handle opened with O_CREAT can neither read nor write
Readable(h) == h.flags \in {"rd", "rdwr"}
Writable(h) == h.flags \in {"wr", "rdwr"}

\* entries of a directory; Ext2Dir has those of the ext2 volume, one stands for them
Children(h) == IF h.mount = "devfs" THEN Ttys ELSE <<"home">>

-----------------------------------------------------------------------------
(* Library calls, as the system calls they make.  orelse follows a system  *)
(* call that fails; descriptor 0 is the one the call has opened last, and  *)
(* -1 the one before it.                                                   *)

Sys(op, i) == [sys |-> op, fd |-> i, orelse |-> <<>>]
OpenAt(x, fl) ==
  [sys |-> "openat", at |-> x.at, abs |-> x.abs, path |-> x.path, flags |-> fl, orelse |-> <<>>]

LibOpenDir(x) == <<OpenAt(x, "rdwr"), [Sys("open_dir", 0) EXCEPT !.orelse = <<Sys("close", 0)>>]>>
\* Stat by path, Linkat and Unlinkat leave open what they opened
LibStat(x) == <<OpenAt(x, "rd"), Sys("stat", 0)>>
LibUnlink(x) == <<OpenAt(x, "rdwr"), Sys("unlink", 0)>>
LibLink(x, y) == <<OpenAt(x, "rd"), OpenAt(y, "rd"), Sys("link", -1)>>
LibRename(x, y) == LibLink(x, y) \o LibUnlink(x)
LibMkdir(x) ==
  <<OpenAt(x, "creat"), [Sys("create_dir", 0) EXCEPT !.orelse = <<Sys("close", 0)>> \o LibUnlink(x)]>>
LibChdir(x) == <<OpenAt(x, "rdwr"), Sys("ccwd", 0), Sys("close", 0)>>
LibSeek(i) == {from \o <<Sys("seek", i), Sys("get_seek", i)>> : from \in {<<>>, <<Sys("stat", i)>>, <<Sys("get_seek", i)>>}}

PathArg ==
  {[abs |-> TRUE, path |-> p, at |-> 0] : p \in RawPaths}
  \cup {[abs |-> FALSE, path |-> p, at |-> i] : p \in RelPaths, i \in AtFds}

Opening ==
  UNION {{<<OpenAt(x, fl)>> : fl \in Flags}
         \cup {LibOpenDir(x), LibStat(x), LibUnlink(x), LibMkdir(x), LibChdir(x)}
         \cup UNION {{LibLink(x, y), LibRename(x, y)} : y \in {y \in PathArg : y.abs}} : x \in PathArg}

\* a directory is read after it was opened as one, as readdir does
LibReadEntries(h, i) == IF h.index > 0 THEN {<<Sys("read_dir", i)>>} ELSE {}
LibIsatty(i) == <<Sys("is_interactive", i)>>

OnDescriptor(h, i) ==
  {<<Sys(op, i)>> : op \in {"read", "write", "stat", "truncate", "close"}}
  \cup LibSeek(i) \cup LibReadEntries(h, i) \cup {LibIsatty(i)}

\* every process has the terminal from init, and these have opened /dev as a directory
VfsInit ==
  /\ wd = [c \in Client |-> Handle(<<>>, <<>>, "rdwr")]
  /\ fds = [c \in Client |-> [i \in 1 .. MaxFds |-> IF i = 1 THEN Handle(<<"dev", "ttyS0">>, <<"dev", "ttyS0">>, "rdwr")
                                                   ELSE IF i = 2 THEN [Handle(<<"dev">>, <<"dev">>, "rdwr") EXCEPT !.index = 1]
                                                   ELSE NoHandle]]
  /\ program = [c \in Client |-> <<>>]
  /\ got = [c \in Client |-> <<>>]
  /\ holds = [c \in Client |-> NoHandle]
  /\ exists = {} /\ typed = {}
  /\ libCalls = 0

FreeFds(c) == {i \in 1 .. MaxFds : fds[c][i] = NoHandle}

LibCall(c) ==
  /\ program[c] = <<>> /\ libCalls < MaxLibCalls
  /\ \/ Cardinality(FreeFds(c)) >= 2 /\ \E prog \in Opening : program' = [program EXCEPT ![c] = prog]
     \/ \E i \in 1 .. MaxFds \ FreeFds(c) :
          \E prog \in OnDescriptor(fds[c][i], i) : program' = [program EXCEPT ![c] = prog]
  /\ libCalls' = libCalls + 1
  /\ got' = [got EXCEPT ![c] = <<>>]
  /\ UNCHANGED <<wd, fds, holds, exists, typed>>

-----------------------------------------------------------------------------
(* System calls.                                                           *)

Doing(c, ops) == program[c] # <<>> /\ Head(program[c]).sys \in ops
Done(c, more) == program' = [program EXCEPT ![c] = more \o Tail(@)]
Failed(c) == program' = [program EXCEPT ![c] = Head(@).orelse]

FdOf(c) == IF Head(program[c]).fd > 0 THEN Head(program[c]).fd ELSE got[c][1 - Head(program[c]).fd]
HandleOf(c) == fds[c][FdOf(c)]

\* openat, fs_openat, fs_open_mode and process_register_fd; a descriptor that
\* is not open any more is not resolved
SysOpenat(c) ==
  /\ Doing(c, {"openat"})
  /\ LET s == Head(program[c])
         at == IF s.at = 0 THEN wd[c] ELSE fds[c][s.at]
         h == HandleAt(at, s)
         i == Min(FreeFds(c)) IN
     \/ /\ at # NoHandle /\ MayOpen(h)
        /\ fds' = [fds EXCEPT ![c][i] = h] /\ got' = [got EXCEPT ![c] = <<i>> \o @]
        /\ exists' = IF h.mount = "ext2" /\ ~IsDir(h) THEN exists \cup {h.rest} ELSE exists
        /\ Done(c, <<>>)
     \/ /\ at # NoHandle => ~MustOpen(h)
        /\ Failed(c)
        /\ UNCHANGED <<fds, got, exists>>
  /\ UNCHANGED <<wd, holds, typed, libCalls>>

\* calls that take no lock: is_interactive, a read or a write the flags of the handle do not allow
\* (0 bytes) and a link between two mounts
Unlocked(c) ==
  \/ Doing(c, {"is_interactive"})
  \/ Doing(c, {"read"}) /\ ~Readable(HandleOf(c))
  \/ Doing(c, {"write"}) /\ ~Writable(HandleOf(c))
  \/ Doing(c, {"link"}) /\ HandleOf(c).mount # fds[c][got[c][1]].mount
SysAnswer(c) ==
  /\ Unlocked(c)
  /\ IF Doing(c, {"link"}) THEN Failed(c) ELSE Done(c, <<>>)
  /\ UNCHANGED <<wd, fds, got, holds, exists, typed, libCalls>>

\* the file an operation locks: ccwd closes the old working directory
Locked(c) == IF Doing(c, {"ccwd"}) THEN wd[c].path ELSE HandleOf(c).path

\* lock_acquire(&handle->shared->lock) of every fs_ operation
SysLock(c) ==
  /\ program[c] # <<>> /\ ~Doing(c, {"openat"}) /\ ~Unlocked(c)
  /\ holds[c] = NoHandle
  /\ \A d \in Client : holds[d] # Locked(c)
  /\ holds' = [holds EXCEPT ![c] = Locked(c)]
  /\ UNCHANGED <<wd, fds, program, got, exists, typed, libCalls>>

\* mount->read, write, stat and the others, then lock_release; stubs answer the rest
SysAct(c, ops) ==
  /\ Doing(c, ops) /\ holds[c] # NoHandle
  /\ holds' = [holds EXCEPT ![c] = NoHandle]
  /\ UNCHANGED <<got, exists, libCalls>>

\* tty_read sleeps with the file's lock held until a line was typed
SysRead(c) ==
  /\ SysAct(c, {"read"})
  /\ IsTty(HandleOf(c)) => HandleOf(c).rest[1] \in typed
  /\ typed' = typed \ ToSet(HandleOf(c).rest)
  /\ Done(c, <<>>)
  /\ UNCHANGED <<wd, fds>>

SysWrite(c) == SysAct(c, {"write"}) /\ Done(c, <<>>) /\ UNCHANGED <<wd, fds, typed>>
SysStat(c) == SysAct(c, {"stat"}) /\ Done(c, <<>>) /\ UNCHANGED <<wd, fds, typed>>
\* seek answers with get_seek, whether it succeeded or not; tell is get_seek alone
SysSeek(c) == SysAct(c, {"seek", "get_seek"}) /\ Done(c, <<>>) /\ UNCHANGED <<wd, fds, typed>>

\* fs_truncate_stub, fs_create_dir_stub, fs_link_stub and fs_unlink_stub: FILE_NO_SUPPORT
Refused(c, op) == SysAct(c, {op}) /\ Failed(c) /\ UNCHANGED <<wd, fds, typed>>
SysTruncate(c) == Refused(c, "truncate")
SysCreateDir(c) == Refused(c, "create_dir")
SysLink(c) == Refused(c, "link")
SysUnlink(c) == Refused(c, "unlink")

SysOpenDir(c) ==
  /\ SysAct(c, {"open_dir"})
  /\ IF IsDir(HandleOf(c))
       THEN fds' = [fds EXCEPT ![c][FdOf(c)].index = 1, ![c][FdOf(c)].listed = <<>>] /\ Done(c, <<>>)
       ELSE Failed(c) /\ UNCHANGED fds
  /\ UNCHANGED <<wd, typed>>

\* the loop of read_dir: at the end, or at an entry that does not fit, the call returns; the entry
\* is copied, and then the handle moved on under the lock anew
SysReadDir(c) ==
  /\ SysAct(c, {"read_dir"})
  /\ LET h == HandleOf(c)
         s == Head(program[c]) IN
     \/ Done(c, <<>>) /\ UNCHANGED fds
     \/ /\ h.index <= Len(Children(h))
        /\ fds' = [fds EXCEPT ![c][FdOf(c)].listed = Append(@, Children(h)[h.index])]
        /\ Done(c, <<[s EXCEPT !.sys = "next_dir"], s>>)
  /\ UNCHANGED <<wd, typed>>

SysNextDir(c) ==
  /\ SysAct(c, {"next_dir"})
  /\ fds' = [fds EXCEPT ![c][FdOf(c)].index = @ + 1]
  /\ Done(c, <<>>)
  /\ UNCHANGED <<wd, typed>>

\* Mutant: fs_close keeps the lock of the file
SysCloseFdLocked(c) ==
  /\ Doing(c, {"close"}) /\ holds[c] # NoHandle
  /\ fds' = [fds EXCEPT ![c][FdOf(c)] = NoHandle]
  /\ Done(c, <<>>)
  /\ UNCHANGED <<wd, got, holds, exists, typed, libCalls>>

\* fs_close and process_remove_fd
SysCloseFd(c) ==
  /\ SysAct(c, {"close"})
  /\ fds' = [fds EXCEPT ![c][FdOf(c)] = NoHandle]
  /\ Done(c, <<>>)
  /\ UNCHANGED <<wd, typed>>

\* fs_close of the old working directory and fs_dup of the new one
SysChdir(c) ==
  /\ SysAct(c, {"ccwd"})
  /\ wd' = [wd EXCEPT ![c] = HandleOf(c)]
  /\ Done(c, <<>>)
  /\ UNCHANGED <<fds, typed>>

\* a line is typed at a terminal (Tty)
Input(t) ==
  /\ t \notin typed
  /\ typed' = typed \cup {t}
  /\ UNCHANGED <<wd, fds, program, got, holds, exists, libCalls>>

SysStep(c) ==
  \/ SysOpenat(c) \/ SysAnswer(c) \/ SysLock(c) \/ SysRead(c) \/ SysWrite(c) \/ SysStat(c) \/ SysSeek(c)
  \/ SysTruncate(c) \/ SysCreateDir(c) \/ SysLink(c) \/ SysUnlink(c)
  \/ SysOpenDir(c) \/ SysReadDir(c) \/ SysNextDir(c) \/ SysCloseFd(c) \/ SysChdir(c)

VfsNext == (\E c \in Client : LibCall(c) \/ SysStep(c)) \/ (\E t \in Typists : Input(t))

-----------------------------------------------------------------------------
(* What a path means, from its first component to its last: ".." leaves    *)
(* the directory reached so far, and the root is above itself.             *)
Enter(dir, n) ==
  IF n \in {"", "."} THEN dir
  ELSE IF n = ".." THEN (IF dir = <<>> THEN dir ELSE Front(dir))
  ELSE Append(dir, n)
Normalise(raw) ==
  LET upto[k \in 0 .. Len(raw)] == IF k = 0 THEN <<>> ELSE Enter(upto[k - 1], raw[k])
  IN upto[Len(raw)]

CleanAgrees == \A raw \in Probes : Clean(raw) = Normalise(raw)

(* The backward pass of find_mount reads every path as a forward reading   *)
(* of it from the root does, for relative paths too, whatever chain of     *)
(* directories they were resolved against; the file lock is that of the    *)
(* path, and a path below /dev, however it is written, and no other goes   *)
(* to the device file system with what follows.                            *)
NameExact ==
  \A c \in Client : \A h \in {wd[c]} \cup {fds[c][i] : i \in 1 .. MaxFds \ FreeFds(c)} :
    /\ h.path = Normalise(h.asked)
    /\ h.path = (IF h.mount = "devfs" THEN <<"dev">> ELSE <<>>) \o h.rest
    /\ (h.mount = "devfs") <=> (h.path # <<>> /\ Head(h.path) = "dev")

(* A directory's entries are returned once each and in order over several  *)
(* calls with a small buffer: an entry that does not fit is the first of   *)
(* the next call.                                                          *)
ListedOnce ==
  \A c \in Client, i \in 1 .. MaxFds : fds[c][i] # NoHandle =>
    LET h == fds[c][i] IN
    h.index > 0 => h.listed = SubSeq(Children(h), 1, h.index - (IF Doing(c, {"next_dir"}) /\ FdOf(c) = i THEN 0 ELSE 1))

\* d sleeps in tty_read with the lock that c wants or has
Starved(c) ==
  \E d \in Client :
    /\ Doing(d, {"read"}) /\ holds[d] # NoHandle /\ IsTty(HandleOf(d)) /\ HandleOf(d).rest[1] \notin typed
    /\ d = c \/ (~Doing(c, {"openat"}) /\ Locked(c) = holds[d])

(* Library calls never get stuck (and none goes back to an earlier state,  *)
(* so each returns), but on a process that reads an idle terminal, with    *)
(* the file's spin lock held: writing to the same terminal, closing it and *)
(* stat then wait for somebody to type.                                    *)
OpsReturn ==
  (\A c \in Client : ~ENABLED SysStep(c)) => \A c \in Client : program[c] = <<>> \/ Starved(c)
=============================================================================
