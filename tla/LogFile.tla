------------------------------- MODULE LogFile -------------------------------
(***************************************************************************)
(* The append-only log file of src/log_file.c: logfile_append_data and     *)
(* logfile_get_last_tai, with crashes, short writes and two threads that   *)
(* append at once.  thread_3 appends what a leader commits and thread_2    *)
(* what a follower accepts, with no lock: a node that was leader and now   *)
(* follows may be in both.                                                 *)
(*                                                                         *)
(* The file is a sequence of pieces, one per write(): a whole header, the  *)
(* whole commands of a batch, or a torn piece of either.  The threads      *)
(* share one descriptor, hence one file offset, which a write() moves      *)
(* before another can start; it never leaves the end of the file.  The     *)
(* file is opened with O_SYNC, so what a write() returned for survives a   *)
(* crash.  A batch is the number of its append; that stands for its term   *)
(* and index.  A window of the file that is not a whole header never       *)
(* passes the checksum.  A file offset is counted in pieces.               *)
(***************************************************************************)
EXTENDS Naturals, Sequences

CONSTANTS
    Writer,      \* the threads that append
    Half,        \* the first offset that is negative as an int32_t
    MaxBatches,  \* bound: appends
    MaxCrashes,  \* bound: crashes
    MaxShort     \* bound: writes that return early

ASSUME LogFileAssumption ==
    /\ Half \in Nat \ {0}
    /\ MaxBatches \in Nat /\ MaxCrashes \in Nat /\ MaxShort \in Nat

VARIABLES
    file,    \* the pieces of the file
    up,      \* the process: "up", "down" or "aborted"
    at,      \* at[w]: the write of logfile_append_data a thread is at, or "idle"
    batch,   \* batch[w]: the batch a thread appends
    found,   \* what logfile_get_last_tai last answered
    begun,   \* number of appends begun
    done,    \* history: the batches whose append has returned
    before,  \* history: the batches that were over when an append began
    shape,   \* history: does batch b have commands?
    crashes, shorts

vars == <<file, up, at, batch, found, begun, done, before, shape, crashes, shorts>>

Header(b) == [kind |-> "header", of |-> b]
Data(b)   == [kind |-> "data", of |-> b]
Torn(b)   == [kind |-> "torn", of |-> b]

Piece == [kind : {"header", "data", "torn"}, of : 0 .. MaxBatches]
Writing == {"header1", "commands", "header2"}
AllIdle == [w \in Writer |-> "idle"]

Init ==
    /\ file = << >> /\ up = "up" /\ found = 0 /\ begun = 0 /\ done = {}
    /\ at = AllIdle /\ batch = [w \in Writer |-> 0]
    /\ before = [b \in 1 .. MaxBatches |-> {}]
    /\ shape = [b \in 1 .. MaxBatches |-> FALSE]
    /\ crashes = 0 /\ shorts = 0

-----------------------------------------------------------------------------
(* The batches in progress.                                                *)
active == {batch[w] : w \in {v \in Writer : at[v] # "idle"}}

(* lseek() returns the end of the file as an int32_t.                      *)
Negative(offset) == offset % (2 * Half) >= Half

(* logfile_append_data is called with a batch, which may have no commands. *)
AppendData(w, some) ==
    /\ up = "up" /\ at[w] = "idle" /\ begun < MaxBatches
    /\ ~Negative(Len(file))
    /\ begun' = begun + 1
    /\ at' = [at EXCEPT ![w] = "header1"]
    /\ batch' = [batch EXCEPT ![w] = begun + 1]
    /\ before' = [before EXCEPT ![begun + 1] = (1 .. begun) \ active]
    /\ shape' = [shape EXCEPT ![begun + 1] = some]
    /\ UNCHANGED <<file, up, found, done, crashes, shorts>>

(* Its assertion on the offset fails, and takes the other thread with it.  *)
AppendAborts(w) ==
    /\ up = "up" /\ at[w] = "idle"
    /\ Negative(Len(file))
    /\ up' = "aborted" /\ at' = AllIdle
    /\ UNCHANGED <<file, batch, found, begun, done, before, shape, crashes, shorts>>

(* What the write in progress puts at the end of the file.                 *)
Written(w) ==
    CASE at[w] = "commands" /\ ~shape[batch[w]] -> << >>
      [] at[w] = "commands" /\ shape[batch[w]] -> <<Data(batch[w])>>
      [] OTHER -> <<Header(batch[w])>>

(* Mutant of NextWrite: the batch is counted under the next number.        *)
NextWriteAhead(w) ==
    /\ at' = [at EXCEPT ![w] = CASE @ = "header1" -> "commands"
                                 [] @ = "commands" -> "header2"
                                 [] @ = "header2" -> "idle"]
    /\ done' = IF at[w] = "header2" THEN done \cup {batch[w] + 1} ELSE done

(* Mutant of NextWrite: the append is over before its last write.          *)
NextWriteEarly(w) ==
    /\ at' = [at EXCEPT ![w] = CASE @ = "header1" -> "commands"
                                 [] @ = "commands" -> "header2"
                                 [] @ = "header2" -> "idle"]
    /\ done' = IF at[w] = "commands" THEN done \cup {batch[w]} ELSE done

(* The three writes follow one another ...                                 *)
NextWrite(w) ==
    /\ at' = [at EXCEPT ![w] = CASE @ = "header1" -> "commands"
                                 [] @ = "commands" -> "header2"
                                 [] @ = "header2" -> "idle"]
    /\ done' = IF at[w] = "header2" THEN done \cup {batch[w]} ELSE done

(* Mutant of Write: the third write is left out.                           *)
WriteNoTail(w) ==
    /\ up = "up" /\ at[w] \in Writing
    /\ file' = IF at[w] = "header2" THEN file ELSE file \o Written(w)
    /\ NextWrite(w)
    /\ UNCHANGED <<up, batch, found, begun, before, shape, crashes, shorts>>

(* ... when a write is complete ...                                        *)
Write(w) ==
    /\ up = "up" /\ at[w] \in Writing
    /\ file' = file \o Written(w)
    /\ NextWrite(w)
    /\ UNCHANGED <<up, batch, found, begun, before, shape, crashes, shorts>>

(* ... and when it is short, because only a negative result is an error.   *)
ShortWrite(w) ==
    /\ up = "up" /\ at[w] \in Writing /\ Written(w) # << >>
    /\ shorts < MaxShort
    /\ shorts' = shorts + 1
    /\ file' = Append(file, Torn(batch[w]))
    /\ NextWrite(w)
    /\ UNCHANGED <<up, batch, found, begun, before, shape, crashes>>

(* A crash, between two writes or in the middle of one.                    *)
Crash ==
    /\ up = "up"
    /\ crashes < MaxCrashes
    /\ crashes' = crashes + 1
    /\ \/ file' = file
       \/ \E w \in Writer : /\ at[w] \in Writing /\ Written(w) # << >>
                            /\ file' = Append(file, Torn(batch[w]))
    /\ up' = "down" /\ at' = AllIdle
    /\ UNCHANGED <<batch, found, begun, done, before, shape, shorts>>

(* Mutant of LastHeader: the header at the start of the file.              *)
FirstHeader == IF file = << >> THEN Header(0) ELSE Head(file)

(* What logfile_get_last_tai reads at the end of the file.                 *)
LastHeader == IF file = << >> THEN Header(0) ELSE file[Len(file)]

(* A restart: logfile_get_last_tai, which aborts if that is not a header.  *)
Restart ==
    /\ up = "down"
    /\ IF LastHeader.kind = "header" /\ (file # << >> => ~Negative(Len(file) - 1))
       THEN up' = "up" /\ found' = LastHeader.of
       ELSE up' = "aborted" /\ UNCHANGED found
    /\ UNCHANGED <<file, at, batch, begun, done, before, shape, crashes, shorts>>

Next ==
    \/ \E w \in Writer : \/ \E some \in BOOLEAN : AppendData(w, some)
                         \/ AppendAborts(w) \/ Write(w) \/ ShortWrite(w)
    \/ Crash \/ Restart

Spec == Init /\ [][Next]_vars

-----------------------------------------------------------------------------
(* Every variable has its type.                                            *)
TypeOK ==
    /\ file \in Seq(Piece)
    /\ up \in {"up", "down", "aborted"}
    /\ at \in [Writer -> {"idle"} \cup Writing]
    /\ batch \in [Writer -> 0 .. MaxBatches]
    /\ found \in 0 .. MaxBatches /\ begun \in 0 .. MaxBatches
    /\ done \subseteq 1 .. MaxBatches
    /\ before \in [1 .. MaxBatches -> SUBSET (1 .. MaxBatches)]
    /\ shape \in [1 .. MaxBatches -> BOOLEAN]
    /\ crashes \in 0 .. MaxCrashes /\ shorts \in 0 .. MaxShort

(* A restart that succeeds finds a batch that was not over before any      *)
(* completed batch began: what thread_2 or thread_3 has logged is only     *)
(* hidden by a batch that the other thread logged at the same time, after  *)
(* any number of crashes and short writes.                                 *)
NothingCompletedLost ==
    [][up = "down" /\ up' = "up" =>
        \A b \in done : found' # 0 /\ found' \notin before[b]]_vars

(* A batch as logfile_append_data writes it.                               *)
Whole(b) ==
    IF shape[b] THEN <<Header(b), Data(b), Header(b)>> ELSE <<Header(b), Header(b)>>

(* The pieces of a batch in the file are the first n of a whole batch, at  *)
(* the places f, in order ...                                              *)
Laid(b, n, f) ==
    /\ \A i \in 1 .. n : file[f[i]] = Whole(b)[i]
    /\ \A i \in 1 .. n - 1 : f[i] < f[i + 1]
    /\ \A k \in 1 .. Len(file) : file[k].of = b => \E i \in 1 .. n : f[i] = k

(* ... and there is nothing between them.                                  *)
Together(n, f) == \A i \in 1 .. n - 1 : f[i + 1] = f[i] + 1

IsTorn(b) == \E k \in 1 .. Len(file) : file[k] = Torn(b)

(* Was another batch appended while b was?                                 *)
Overlapped(b) == \E x \in 1 .. begun \ {b} : x \notin before[b] /\ b \notin before[x]

(* A batch whose append has returned, with none of its writes short, is in *)
(* the file with all its pieces in order, and in one piece unless the      *)
(* other thread appended at the same time: neither a crash nor the other   *)
(* thread ever writes over it.                                             *)
CompletedIsWhole ==
    \A b \in done :
        \/ IsTorn(b)
        \/ LET n == Len(Whole(b))
           IN  \E f \in [1 .. n -> 1 .. Len(file)] :
                   Laid(b, n, f) /\ (Overlapped(b) \/ Together(n, f))

(* The log file is a durable log.                                          *)
Durable == INSTANCE DurableLog

(* However its pieces are laid out, torn and interleaved, the file keeps   *)
(* the promise of a durable log: logfile_append_data and                   *)
(* logfile_get_last_tai do together what DurableLog does in one step each. *)
ImplementsDurableLog == Durable!Spec
=============================================================================
