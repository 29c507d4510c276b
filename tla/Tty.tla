--------------------------------- MODULE Tty ---------------------------------
(***************************************************************************)
(* The cooked terminal of kernel/devfs/tty.c: the serial interrupt edits   *)
(* the current line in a ring buffer (tty_queue_read) and echoes it; a     *)
(* newline commits the line and wakes the readers (tty_read).              *)
(*                                                                         *)
(* The ring has four indices: read_index <= ls_index is what readers may   *)
(* take, ls_index <= le_index the line being edited, write_index the       *)
(* cursor in it.  Readers hold the tty lock; the interrupt takes no lock.  *)
(* tty_read stores read_index twice, before and after masking it, and the  *)
(* interrupt may run between the two stores (the unoptimised build keeps   *)
(* both, the optimised one may merge them: the model allows either).       *)
(***************************************************************************)
EXTENDS Integers, Sequences, SequencesExt, FiniteSets

CONSTANTS Reader,
          Byte,          \* the bytes that arrive, a subset of Bytes below
          N,             \* ring size, TTY_RING_MASK + 1
          MAX_CSI_LEN,
          MaxCount,      \* bound: the largest count given to tty_read
          None

\* "[", "C" and "D" are printable and part of control sequences, "1" stands
\* for every other printable byte
Bytes == {"ESC", "BS", "NL", "[", "C", "D", "1"}

ASSUME TtyAssumption ==
  /\ N \in Nat /\ N >= 2
  /\ MAX_CSI_LEN \in Nat /\ MaxCount \in Nat \ {0}
  /\ Byte \subseteq Bytes
  /\ None \notin Reader

VARIABLES
  read_buffer, read_index, write_index, ls_index, le_index,
  flg,           \* subset of {"ESC", "CSI"}
  csi_index,
  lock,          \* the reader that holds tty->lock
  pc, count,     \* of each reader inside tty_read
  screen, cursor,  \* what the echo left on the terminal's current line
  pipe,          \* the committed bytes nobody has read
  overrun        \* the interrupt stored a byte although the ring was full

ringVars == <<read_buffer, write_index, ls_index, le_index>>
csiVars == <<flg, csi_index>>
readerVars == <<lock, pc, count>>
termVars == <<screen, cursor>>
vars == <<ringVars, read_index, csiVars, readerVars, termVars, pipe, overrun>>

Mask(i) == i % N

Init ==
  /\ read_buffer = [i \in 0 .. N - 1 |-> " "]
  /\ read_index = 0 /\ write_index = 0 /\ ls_index = 0 /\ le_index = 0
  /\ flg = {} /\ csi_index = 0
  /\ lock = None
  /\ pc = [r \in Reader |-> "idle"]
  /\ count = [r \in Reader |-> 0]
  /\ screen = <<>> /\ cursor = 0
  /\ pipe = <<>> /\ overrun = FALSE

-----------------------------------------------------------------------------
(* tty_read.                                                                 *)

Goto(r, label) == pc' = [pc EXCEPT ![r] = label]
Empty == read_index = ls_index

Read(r, n) ==
  /\ pc[r] = "idle"
  /\ Goto(r, "test")
  /\ count' = [count EXCEPT ![r] = n]
  /\ UNCHANGED <<ringVars, read_index, csiVars, lock, termVars, pipe, overrun>>

\* while (EMPTY) signal_wait(...): the test, without the lock
ReadTest(r) ==
  /\ pc[r] = "test"
  /\ Goto(r, IF Empty THEN "gap" ELSE "lock")
  /\ UNCHANGED <<ringVars, read_index, csiVars, lock, count, termVars, pipe, overrun>>

\* the next tick parks the reader on tty->signal
ReadPark(r) ==
  /\ pc[r] = "gap"
  /\ Goto(r, "parked")
  /\ UNCHANGED <<ringVars, read_index, csiVars, lock, count, termVars, pipe, overrun>>

ReadLock(r) ==
  /\ pc[r] = "lock"
  /\ lock = None
  /\ lock' = r
  /\ Goto(r, "copy")
  /\ UNCHANGED <<ringVars, read_index, csiVars, count, termVars, pipe, overrun>>

\* one byte; a newline ends the call.  The index is stored masked at once, or
\* unmasked first
ReadCopy(r) ==
  LET byte == read_buffer[Mask(read_index)] IN
  /\ pc[r] = "copy"
  /\ count[r] > 0 /\ ~Empty
  /\ count' = [count EXCEPT ![r] = IF byte = "NL" THEN 0 ELSE @ - 1]
  /\ pipe' = IF pipe = <<>> THEN <<>> ELSE Tail(pipe)
  /\ \/ read_index' = Mask(read_index + 1) /\ UNCHANGED pc
     \/ read_index' = read_index + 1 /\ Goto(r, "mask")
  /\ UNCHANGED <<ringVars, csiVars, lock, termVars, overrun>>

ReadMask(r) ==
  /\ pc[r] = "mask"
  /\ read_index' = Mask(read_index)
  /\ Goto(r, "copy")
  /\ UNCHANGED <<ringVars, csiVars, lock, count, termVars, pipe, overrun>>

\* Mutant: the lock is kept
ReadUnlockKeeps(r) ==
  /\ pc[r] = "copy"
  /\ count[r] = 0 \/ Empty
  /\ Goto(r, IF count[r] = 0 THEN "idle" ELSE "test")
  /\ UNCHANGED <<ringVars, read_index, csiVars, lock, count, termVars, pipe, overrun>>

\* the inner loop ends; the outer one starts again unless count is used up
ReadUnlock(r) ==
  /\ pc[r] = "copy"
  /\ count[r] = 0 \/ Empty
  /\ lock' = None
  /\ Goto(r, IF count[r] = 0 THEN "idle" ELSE "test")
  /\ UNCHANGED <<ringVars, read_index, csiVars, count, termVars, pipe, overrun>>

-----------------------------------------------------------------------------
(* tty_queue_read, from the serial interrupt, in cooked mode.                *)

\* Mutant: the index behind the cursor is not masked
FullUnmasked == write_index + 1 = read_index

Full == Mask(write_index + 1) = read_index
\* full for the reader that is between its two stores
ReallyFull == Mask(write_index + 1) = Mask(read_index)

\* ESC, '[' after ESC, and the bytes of a control sequence
QueueEscape(byte) ==
  /\ byte = "ESC"
  /\ flg' = flg \cup {"ESC"}
  /\ UNCHANGED <<ringVars, csi_index, termVars>>

QueueCsiStart(byte) ==
  /\ byte = "[" /\ "ESC" \in flg
  /\ flg' = flg \cup {"CSI"}
  /\ csi_index' = 0
  /\ UNCHANGED <<ringVars, termVars>>

InCsi(byte) == byte # "ESC" /\ ~(byte = "[" /\ "ESC" \in flg) /\ "CSI" \in flg

CsiFull == csi_index = MAX_CSI_LEN

QueueCsiOverflow(byte) ==
  /\ InCsi(byte)
  /\ CsiFull
  /\ flg' = flg \ {"CSI"}
  /\ UNCHANGED <<ringVars, csi_index, termVars>>

Final(byte) == byte \in {"[", "C", "D"}     \* 0x40 .. 0x7f

\* 'C' moves right within the line, 'D' left
MoveCursor(byte) ==
  IF byte = "C" /\ write_index # le_index THEN 1
  ELSE IF byte = "D" /\ write_index # ls_index THEN -1 ELSE 0

QueueCsi(byte) ==
  /\ InCsi(byte)
  /\ ~CsiFull
  /\ csi_index' = csi_index + 1
  /\ IF Final(byte)
       THEN /\ flg' = flg \ {"CSI"}
            /\ write_index' = Mask(write_index + MoveCursor(byte))
            /\ cursor' = cursor + MoveCursor(byte)
       ELSE UNCHANGED <<flg, write_index, cursor>>
  /\ UNCHANGED <<read_buffer, ls_index, le_index, screen>>

\* Overwrite or extend the sequence s at position i (from 0)
Write(s, i, byte) == IF i < Len(s) THEN [s EXCEPT ![i + 1] = byte] ELSE Append(s, byte)

\* Plain bytes clear the ESC flag.
Plain(byte) == byte # "ESC" /\ ~InCsi(byte) /\ ~(byte = "[" /\ "ESC" \in flg)

QueueErase(byte) ==
  /\ byte = "BS" /\ Plain(byte)
  /\ flg' = flg \ {"ESC"}
  /\ IF ls_index = write_index
       THEN UNCHANGED <<write_index, read_buffer, termVars>>
       ELSE /\ write_index' = Mask(write_index - 1)
            /\ read_buffer' = [read_buffer EXCEPT ![Mask(write_index - 1)] = " "]
            /\ screen' = Write(screen, cursor - 1, " ")
            /\ cursor' = cursor - 1
  /\ UNCHANGED <<ls_index, le_index, csi_index>>

QueueChar(byte) ==
  /\ byte \in {"[", "C", "D", "1"} /\ Plain(byte)
  /\ flg' = flg \ {"ESC"}
  /\ read_buffer' = [read_buffer EXCEPT ![Mask(write_index)] = byte]
  /\ le_index' = IF le_index = write_index THEN Mask(le_index + 1) ELSE le_index
  /\ write_index' = Mask(write_index + 1)
  /\ screen' = Write(screen, cursor, byte)
  /\ cursor' = cursor + 1
  /\ UNCHANGED <<ls_index, csi_index>>

\* Mutant: the line ends at the cursor
QueueNewlineAtCursor(byte) ==
  /\ byte = "NL" /\ Plain(byte)
  /\ flg' = flg \ {"ESC"}
  /\ read_buffer' = [read_buffer EXCEPT ![write_index] = "NL"]
  /\ write_index' = Mask(write_index + 1)
  /\ le_index' = Mask(write_index + 1)
  /\ ls_index' = Mask(write_index + 1)
  /\ screen' = <<>> /\ cursor' = 0
  /\ UNCHANGED csi_index

\* everything up to the end of the line is committed, wherever the cursor is
QueueNewline(byte) ==
  /\ byte = "NL" /\ Plain(byte)
  /\ flg' = flg \ {"ESC"}
  /\ read_buffer' = [read_buffer EXCEPT ![le_index] = "NL"]
  /\ write_index' = Mask(le_index + 1)
  /\ le_index' = Mask(le_index + 1)
  /\ ls_index' = Mask(le_index + 1)
  /\ screen' = <<>> /\ cursor' = 0
  /\ UNCHANGED csi_index

\* signal_awake(tty->signal)
Awakened == [r \in Reader |-> IF pc[r] = "parked" THEN "test" ELSE pc[r]]

\* a byte for which there is no room is dropped (as is a zero byte); the model
\* follows the terminal up to its first overrun
QueueRead(byte) ==
  /\ ~overrun
  /\ ~Full
  /\ \/ QueueEscape(byte) \/ QueueCsiStart(byte) \/ QueueCsiOverflow(byte)
     \/ QueueCsi(byte) \/ QueueErase(byte) \/ QueueChar(byte) \/ QueueNewline(byte)
  /\ pc' = IF ls_index' # ls_index THEN Awakened ELSE pc
  /\ pipe' = IF ls_index' # ls_index THEN pipe \o Append(screen, "NL") ELSE pipe
  /\ overrun' = (overrun \/ (ReallyFull /\ <<write_index, le_index>>' # <<write_index, le_index>>))
  /\ UNCHANGED <<read_index, lock, count>>

Reading(r) ==
  ReadTest(r) \/ ReadPark(r) \/ ReadLock(r) \/ ReadCopy(r) \/ ReadMask(r) \/ ReadUnlock(r)

Next ==
  \/ \E byte \in Byte : QueueRead(byte)
  \/ \E r \in Reader : Reading(r) \/ \E n \in 1 .. MaxCount : Read(r, n)

Spec == Init /\ [][Next]_vars

-----------------------------------------------------------------------------
Index == 0 .. N - 1

\* the ring's contents from index i up to index j
Slice(i, j) == [k \in 1 .. Mask(j - i) |-> read_buffer[Mask(i + k - 1)]]

(* What is between read_index and ls_index is what was committed and not     *)
(* read, byte for byte: tty_read takes every committed byte once and in      *)
(* order, although the interrupt edits the same ring without the lock.       *)
Delivered == ~overrun => Slice(Mask(read_index), ls_index) = pipe

(* The line a newline will commit is the line the echo put on the screen,    *)
(* with the cursor where the terminal shows it.                              *)
ScreenMatches ==
  ~overrun => Slice(ls_index, le_index) = screen /\ Mask(write_index - ls_index) = cursor

(* The bytes read are the bytes committed and the bytes committed are the    *)
(* bytes shown: Delivered and ScreenMatches.                                 *)
LinesExact == Delivered /\ ScreenMatches

(* The interrupt overwrites the ring's oldest byte only if it comes between  *)
(* the two stores of read_index as the index wraps, when FULL compares with  *)
(* the unmasked value.                                                       *)
OverrunOnlyAtWrap ==
  [][overrun' /\ ~overrun => read_index = N /\ \E r \in Reader : pc[r] = "mask"]_vars

(* The reader sleeps on a committed line: the newline came between its test  *)
(* and the tick that parked it.                                              *)
Missed(r) == pc[r] \in {"gap", "parked"} /\ ~Empty

(* The only way to sleep on a committed line is through that window: a       *)
(* newline leaves nobody parked, and a reader who drains the ring strands no *)
(* one who waited for it.  LossOnlyInWindows is this and OverrunOnlyAtWrap.  *)
LostOnlyInGap == [][\A r \in Reader : Missed(r)' /\ ~Missed(r) => pc[r] = "gap"]_vars

LossOnlyInWindows == OverrunOnlyAtWrap /\ LostOnlyInGap

(* While a line is committed and someone waits for it, bytes of it are read, *)
(* however the readers contend for the lock and whatever is typed meanwhile, *)
(* unless the wakeup of all who wait fell into that window.                  *)
ReaderServed ==
  \A i \in Index :
    (read_index = i /\ ~Empty) ~>
      (read_index # i \/ \A r \in Reader : pc[r] = "idle" \/ Missed(r))
=============================================================================
