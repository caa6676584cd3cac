---------------------------- MODULE LogFileProofs ----------------------------
(***************************************************************************)
(* The log file keeps the promise of DurableLog, for any set of threads    *)
(* that append at once and any number of batches, crashes and short        *)
(* writes; and what was appended without a short write stays in the file   *)
(* whole, in one piece when no other thread appended meanwhile.            *)
(***************************************************************************)
EXTENDS LogFile, SequenceTheorems, TLAPS

(* Where the writes of a thread are, and what its batch is.                *)
Appending(w) == at[w] # "idle"
InHand == \A w \in Writer : Appending(w) => up = "up" /\ batch[w] \in 1 .. begun

(* A batch in progress was not over before any other began; batches that   *)
(* have not begun have no history.                                         *)
ActiveNotOver ==
    \A w \in Writer : Appending(w) => \A b \in 1 .. MaxBatches : batch[w] \notin before[b]
BeforeBegun == \A b \in 1 .. MaxBatches : before[b] \subseteq 1 .. begun
NotBeforeItself == \A b \in 1 .. MaxBatches : b \notin before[b]
DoneBegun == done \subseteq 1 .. begun
OneThreadEach == \A v, w \in Writer : Appending(v) /\ Appending(w) /\ batch[v] = batch[w] => v = w

(* A whole header at the end of the file is what a recovery may find.      *)
EndIsRecent == LastHeader.kind = "header" => Durable!NotOlder(LastHeader.of)

DInv == TypeOK /\ InHand /\ ActiveNotOver /\ BeforeBegun /\ NotBeforeItself /\ DoneBegun
        /\ OneThreadEach /\ EndIsRecent

(* What a write puts at the end of the file.                               *)
LEMMA WrittenPieces ==
    ASSUME TypeOK, InHand, NEW w \in Writer, at[w] \in Writing
    PROVE  \/ Written(w) = << >> /\ at[w] = "commands"
           \/ Written(w) = <<Data(batch[w])>>
           \/ Written(w) = <<Header(batch[w])>>
<1>1. CASE at[w] = "commands"
  <2>1. batch[w] \in 1 .. MaxBatches
    BY <1>1, LogFileAssumption DEF TypeOK, InHand, Appending
  <2>2. shape[batch[w]] \in BOOLEAN
    BY <2>1 DEF TypeOK
  <2> QED
    BY <1>1, <2>2 DEF Written
<1>2. CASE at[w] # "commands"
  BY <1>2 DEF Written
<1> QED
  BY <1>1, <1>2

(* Appending one piece makes it the last one.                              *)
LEMMA LastPiece ==
    ASSUME NEW f \in Seq(Piece), NEW p \in Piece
    PROVE  /\ f \o <<p>> \in Seq(Piece) /\ Append(f, p) \in Seq(Piece)
           /\ f \o <<p>> # << >> /\ (f \o <<p>>)[Len(f \o <<p>>)] = p
           /\ Append(f, p) # << >> /\ Append(f, p)[Len(Append(f, p))] = p
OBVIOUS

(* The pieces of a batch in progress are pieces.                           *)
LEMMA PiecesOf ==
    ASSUME NEW b \in 0 .. MaxBatches
    PROVE  Header(b) \in Piece /\ Data(b) \in Piece /\ Torn(b) \in Piece
BY DEF Header, Data, Torn, Piece

(* What a restart reads is a piece of the file, or stands for no batch.    *)
LEMMA LastIsPiece ==
    ASSUME TypeOK
    PROVE  LastHeader \in Piece
<1>1. CASE file = << >>
  <2>1. Header(0) \in Piece
    BY LogFileAssumption DEF Header, Piece
  <2> QED
    BY <1>1, <2>1 DEF LastHeader
<1>2. CASE file # << >>
  <2>1. file \in Seq(Piece)
    BY DEF TypeOK
  <2>2. Len(file) \in 1 .. Len(file)
    BY <1>2, <2>1
  <2>3. file[Len(file)] \in Piece
    BY <2>1, <2>2
  <2> QED
    BY <1>2, <2>3 DEF LastHeader
<1> QED
  BY <1>1, <1>2

(* The initial state satisfies the invariant.                              *)
LEMMA DInvInit == Init => DInv
<1> SUFFICES ASSUME Init PROVE DInv
  OBVIOUS
<1> USE LogFileAssumption
<1>1. TypeOK
  BY DEF Init, TypeOK, AllIdle, Piece
<1>2. InHand /\ ActiveNotOver /\ OneThreadEach
  BY DEF Init, InHand, ActiveNotOver, OneThreadEach, Appending, AllIdle
<1>3. BeforeBegun /\ NotBeforeItself /\ DoneBegun
  BY DEF Init, BeforeBegun, NotBeforeItself, DoneBegun
<1>4. EndIsRecent
  BY DEF Init, EndIsRecent, Durable!NotOlder
<1> QED
  BY <1>1, <1>2, <1>3, <1>4 DEF DInv

(* The step from one write to the next.                                    *)
LEMMA NextWriteType ==
    ASSUME TypeOK, InHand, NEW w \in Writer, at[w] \in Writing, NextWrite(w)
    PROVE  /\ at' \in [Writer -> {"idle"} \cup Writing]
           /\ \A v \in Writer : v # w => at'[v] = at[v]
           /\ at[w] = "header2" => at'[w] = "idle" /\ done' = done \cup {batch[w]}
           /\ at[w] # "header2" => at'[w] # "idle" /\ done' = done
BY DEF TypeOK, InHand, NextWrite, Writing

(* What a write, whole or short, has to do with the rest of the invariant  *)
(* does not depend on what it puts in the file.                            *)
LEMMA WriteKeeps ==
    ASSUME DInv, NEW w \in Writer, up = "up", at[w] \in Writing, NextWrite(w),
           file' \in Seq(Piece), shorts' \in 0 .. MaxShort,
           UNCHANGED <<up, batch, found, begun, before, shape, crashes>>
    PROVE  /\ TypeOK' /\ InHand' /\ ActiveNotOver' /\ BeforeBegun' /\ NotBeforeItself'
           /\ DoneBegun' /\ OneThreadEach'
           /\ Durable!NotOlder(batch[w])' /\ batch[w] \in 1 .. MaxBatches
<1> USE LogFileAssumption
<1>1. TypeOK /\ InHand /\ Appending(w)
  BY DEF DInv, Appending, Writing
<1>2. batch[w] \in 1 .. begun /\ begun \in 0 .. MaxBatches
  BY <1>1 DEF InHand, TypeOK
<1>3. batch[w] \in 1 .. MaxBatches
  BY <1>2
<1>4. done' \subseteq done \cup {batch[w]}
  BY <1>1, NextWriteType
<1>5. TypeOK'
  BY <1>1, <1>3, <1>4, NextWriteType DEF TypeOK
<1>6. \A v \in Writer : Appending(v)' => Appending(v)
  BY <1>1, NextWriteType DEF Appending, Writing
<1>7. InHand' /\ ActiveNotOver' /\ OneThreadEach'
  BY <1>6 DEF DInv, InHand, ActiveNotOver, OneThreadEach, Appending
<1>8. BeforeBegun' /\ NotBeforeItself'
  BY DEF DInv, BeforeBegun, NotBeforeItself
<1>9. DoneBegun'
  BY <1>2, <1>4 DEF DInv, DoneBegun
<1>10. Durable!NotOlder(batch[w])'
  <2>1. \A b \in 1 .. MaxBatches : batch[w] \notin before[b]
    BY <1>1 DEF DInv, ActiveNotOver
  <2>2. done' \subseteq 1 .. MaxBatches
    BY <1>5 DEF TypeOK
  <2> QED
    BY <1>3, <2>1, <2>2 DEF Durable!NotOlder
<1> QED
  BY <1>3, <1>5, <1>7, <1>8, <1>9, <1>10

(* An append begins.                                                       *)
LEMMA AppendKeeps ==
    ASSUME DInv, NEW w \in Writer, NEW some \in BOOLEAN, AppendData(w, some)
    PROVE  DInv'
<1> USE LogFileAssumption
<1> DEFINE new == begun + 1
<1>1. /\ up = "up" /\ at[w] = "idle" /\ begun < MaxBatches
      /\ begun' = new /\ at' = [at EXCEPT ![w] = "header1"]
      /\ batch' = [batch EXCEPT ![w] = new]
      /\ before' = [before EXCEPT ![new] = (1 .. begun) \ active]
      /\ shape' = [shape EXCEPT ![new] = some]
      /\ UNCHANGED <<file, up, found, done, crashes, shorts>>
  BY DEF AppendData
<1>2. begun \in 0 .. MaxBatches /\ new \in 1 .. MaxBatches /\ TypeOK
  BY <1>1 DEF DInv, TypeOK
<1> HIDE DEF new
<1>3. 1 .. begun \subseteq 1 .. MaxBatches /\ 1 .. begun' = (1 .. begun) \cup {new}
      /\ new \notin 1 .. begun
  BY <1>1, <1>2 DEF new
<1>4. TypeOK'
  <2>1. at' \in [Writer -> {"idle"} \cup Writing] /\ batch' \in [Writer -> 0 .. MaxBatches]
    BY <1>1, <1>2 DEF TypeOK, Writing
  <2>2. (1 .. begun) \ active \in SUBSET (1 .. MaxBatches)
    BY <1>3
  <2>3. before' \in [1 .. MaxBatches -> SUBSET (1 .. MaxBatches)]
    BY <1>1, <1>2, <2>2 DEF TypeOK
  <2>4. shape' \in [1 .. MaxBatches -> BOOLEAN]
    BY <1>1, <1>2 DEF TypeOK
  <2>5. begun' \in 0 .. MaxBatches
    BY <1>1, <1>2
  <2> QED
    BY <1>1, <1>2, <2>1, <2>3, <2>4, <2>5 DEF TypeOK
<1>5. \A v \in Writer : /\ v = w => batch'[v] = new
                        /\ v # w => batch'[v] = batch[v] /\ (Appending(v)' <=> Appending(v))
  BY <1>1, <1>2 DEF TypeOK, Appending
<1>6. \A b \in 1 .. MaxBatches : /\ b # new => before'[b] = before[b]
                                 /\ b = new => before'[b] = (1 .. begun) \ active
  BY <1>1, <1>2 DEF TypeOK
<1>7. InHand'
  BY <1>1, <1>3, <1>5 DEF DInv, InHand
<1>8. ActiveNotOver'
  <2> SUFFICES ASSUME NEW v \in Writer, Appending(v)', NEW b \in 1 .. MaxBatches
               PROVE  batch'[v] \notin before'[b]
    BY DEF ActiveNotOver
  <2>1. CASE v = w
    BY <1>3, <1>5, <1>6, <2>1 DEF DInv, BeforeBegun
  <2>2. CASE v # w
    <3>1. Appending(v) /\ batch'[v] = batch[v]
      BY <1>5, <2>2
    <3>2. batch[v] \in active /\ batch[v] \notin before[b]
      BY <3>1 DEF active, Appending, DInv, ActiveNotOver
    <3> QED
      BY <1>6, <3>1, <3>2
  <2> QED
    BY <2>1, <2>2
<1>9. BeforeBegun' /\ NotBeforeItself' /\ DoneBegun'
  BY <1>1, <1>3, <1>6 DEF DInv, BeforeBegun, NotBeforeItself, DoneBegun
<1>10. OneThreadEach'
  BY <1>3, <1>5 DEF DInv, OneThreadEach, InHand
<1>11. EndIsRecent'
  <2>1. \A b \in done : b # new /\ b \in 1 .. MaxBatches
    BY <1>2, <1>3 DEF DInv, DoneBegun, TypeOK
  <2>2. LastHeader' = LastHeader
    BY <1>1 DEF LastHeader
  <2> QED
    BY <1>1, <1>6, <2>1, <2>2 DEF DInv, EndIsRecent, Durable!NotOlder
<1> QED
  BY <1>4, <1>7, <1>8, <1>9, <1>10, <1>11 DEF DInv

(* A write, whole or short.                                                *)
LEMMA WriteStepKeeps ==
    ASSUME DInv, NEW w \in Writer, Write(w) \/ ShortWrite(w)
    PROVE  DInv'
<1> USE LogFileAssumption
<1>1. up = "up" /\ at[w] \in Writing /\ NextWrite(w)
      /\ UNCHANGED <<up, batch, found, begun, before, shape, crashes>>
  BY DEF Write, ShortWrite
<1>2. TypeOK /\ InHand /\ file \in Seq(Piece)
  BY DEF DInv, TypeOK
<1>3. batch[w] \in 0 .. MaxBatches
  BY <1>2 DEF TypeOK
<1>4. Header(batch[w]) \in Piece /\ Data(batch[w]) \in Piece /\ Torn(batch[w]) \in Piece
  BY <1>3, PiecesOf
<1>5. CASE Write(w)
  <2>1. file' = file \o Written(w) /\ shorts' = shorts
    BY <1>5 DEF Write
  <2>2. \/ Written(w) = << >> /\ at[w] = "commands"
        \/ Written(w) = <<Data(batch[w])>>
        \/ Written(w) = <<Header(batch[w])>>
    BY <1>1, <1>2, WrittenPieces
  <2>3. CASE Written(w) = << >> /\ at[w] = "commands"
    <3>1. file' = file
      BY <1>2, <2>1, <2>3
    <3>2. file' \in Seq(Piece) /\ shorts' \in 0 .. MaxShort
      BY <1>2, <2>1, <3>1 DEF TypeOK
    <3>3. done' = done
      BY <1>1, <1>2, <2>3, NextWriteType
    <3>4. EndIsRecent'
      BY <1>1, <3>1, <3>3 DEF DInv, EndIsRecent, LastHeader, Durable!NotOlder
    <3> QED
      BY <1>1, <3>2, <3>4, WriteKeeps DEF DInv
  <2>4. CASE Written(w) = <<Data(batch[w])>>
    <3>1. file' \in Seq(Piece) /\ LastHeader' = Data(batch[w])
      BY <1>2, <1>4, <2>1, <2>4, LastPiece DEF LastHeader
    <3>2. shorts' \in 0 .. MaxShort
      BY <1>2, <2>1 DEF TypeOK
    <3>3. EndIsRecent'
      BY <3>1 DEF EndIsRecent, Data
    <3> QED
      BY <1>1, <3>1, <3>2, <3>3, WriteKeeps DEF DInv
  <2>5. CASE Written(w) = <<Header(batch[w])>>
    <3>1. file' \in Seq(Piece) /\ LastHeader' = Header(batch[w])
      BY <1>2, <1>4, <2>1, <2>5, LastPiece DEF LastHeader
    <3>2. shorts' \in 0 .. MaxShort
      BY <1>2, <2>1 DEF TypeOK
    <3>3. Durable!NotOlder(batch[w])'
      BY <1>1, <3>1, <3>2, WriteKeeps
    <3>4. LastHeader'.of = batch'[w]
      BY <1>1, <3>1 DEF Header
    <3>5. EndIsRecent'
      BY <3>3, <3>4 DEF EndIsRecent, Durable!NotOlder
    <3> QED
      BY <1>1, <3>1, <3>2, <3>5, WriteKeeps DEF DInv
  <2> QED
    BY <2>2, <2>3, <2>4, <2>5
<1>6. CASE ShortWrite(w)
  <2>1. file' = Append(file, Torn(batch[w])) /\ shorts' = shorts + 1 /\ shorts < MaxShort
    BY <1>6 DEF ShortWrite
  <2>2. file' \in Seq(Piece) /\ LastHeader' = Torn(batch[w])
    BY <1>2, <1>4, <2>1, LastPiece DEF LastHeader
  <2>3. shorts' \in 0 .. MaxShort
    BY <1>2, <2>1 DEF TypeOK
  <2>4. EndIsRecent'
    BY <2>2 DEF EndIsRecent, Torn
  <2> QED
    BY <1>1, <2>2, <2>3, <2>4, WriteKeeps DEF DInv
<1> QED
  BY <1>5, <1>6

(* The process stops or starts: nothing is in progress.                    *)
LEMMA StopKeeps ==
    ASSUME DInv, UNCHANGED <<batch, begun, done, before, shape, shorts>>,
           file' \in Seq(Piece), up' \in {"up", "down", "aborted"},
           at' = AllIdle, found' \in 0 .. MaxBatches, crashes' \in 0 .. MaxCrashes,
           LastHeader' = LastHeader \/ LastHeader'.kind # "header"
    PROVE  DInv'
<1>1. TypeOK'
  BY DEF DInv, TypeOK, AllIdle
<1>2. InHand' /\ ActiveNotOver' /\ OneThreadEach'
  BY DEF InHand, ActiveNotOver, OneThreadEach, Appending, AllIdle
<1>3. BeforeBegun' /\ NotBeforeItself' /\ DoneBegun'
  BY DEF DInv, BeforeBegun, NotBeforeItself, DoneBegun
<1>4. EndIsRecent'
  BY DEF DInv, EndIsRecent, Durable!NotOlder
<1> QED
  BY <1>1, <1>2, <1>3, <1>4 DEF DInv

(* Between a crash and the restart no thread appends.                      *)
LEMMA DownIsIdle ==
    ASSUME DInv, up # "up"
    PROVE  at = AllIdle
<1>1. at \in [Writer -> {"idle"} \cup Writing] /\ \A w \in Writer : at[w] = "idle"
  BY DEF DInv, TypeOK, InHand, Appending
<1> QED
  BY <1>1 DEF AllIdle

(* A crash.                                                                *)
LEMMA CrashKeeps == ASSUME DInv, Crash PROVE DInv'
<1> USE LogFileAssumption
<1>1. /\ up' = "down" /\ at' = AllIdle /\ crashes' = crashes + 1 /\ crashes < MaxCrashes
      /\ UNCHANGED <<batch, found, begun, done, before, shape, shorts>>
      /\ file' = file \/ \E w \in Writer : file' = Append(file, Torn(batch[w]))
  BY DEF Crash
<1>2. file \in Seq(Piece) /\ crashes' \in 0 .. MaxCrashes /\ found' \in 0 .. MaxBatches
  BY <1>1 DEF DInv, TypeOK
<1>3. CASE file' = file
  BY <1>1, <1>2, <1>3, StopKeeps DEF LastHeader
<1>4. ASSUME NEW w \in Writer, file' = Append(file, Torn(batch[w])) PROVE DInv'
  <2>1. Torn(batch[w]) \in Piece
    BY PiecesOf DEF DInv, TypeOK
  <2>2. file' \in Seq(Piece) /\ LastHeader' = Torn(batch[w])
    BY <1>2, <1>4, <2>1, LastPiece DEF LastHeader
  <2>3. LastHeader'.kind # "header"
    BY <2>2 DEF Torn
  <2> QED
    BY <1>1, <1>2, <2>2, <2>3, StopKeeps
<1> QED
  BY <1>1, <1>3, <1>4

(* A restart, and an append that aborts.                                   *)
LEMMA RestartKeeps ==
    ASSUME DInv, Restart \/ \E w \in Writer : AppendAborts(w)
    PROVE  DInv'
<1>1. UNCHANGED <<file, batch, begun, done, before, shape, crashes, shorts>>
      /\ up' \in {"up", "down", "aborted"}
  BY DEF Restart, AppendAborts
<1>2. at' = AllIdle
  BY DownIsIdle DEF Restart, AppendAborts
<1>3. LastHeader' = LastHeader
  BY <1>1 DEF LastHeader
<1>4. found' \in 0 .. MaxBatches
  <2>1. LastHeader \in Piece
    BY LastIsPiece DEF DInv
  <2>2. LastHeader.of \in 0 .. MaxBatches /\ found \in 0 .. MaxBatches
    BY <2>1 DEF Piece, DInv, TypeOK
  <2> QED
    BY <2>2 DEF Restart, AppendAborts
<1>5. file' \in Seq(Piece) /\ crashes' \in 0 .. MaxCrashes
  BY <1>1 DEF DInv, TypeOK
<1> QED
  BY <1>1, <1>2, <1>3, <1>4, <1>5, StopKeeps

(* Every step keeps the invariant.                                         *)
LEMMA DInvNext == DInv /\ [Next]_vars => DInv'
<1> SUFFICES ASSUME DInv, [Next]_vars PROVE DInv'
  OBVIOUS
<1>1. CASE UNCHANGED vars
  BY <1>1 DEF vars, DInv, TypeOK, InHand, ActiveNotOver, BeforeBegun, NotBeforeItself,
              DoneBegun, OneThreadEach, EndIsRecent, Appending, LastHeader,
              Durable!NotOlder
<1>2. CASE Next
  <2>1. ASSUME NEW w \in Writer, NEW some \in BOOLEAN, AppendData(w, some) PROVE DInv'
    BY <2>1, AppendKeeps
  <2>2. ASSUME NEW w \in Writer, Write(w) \/ ShortWrite(w) PROVE DInv'
    BY <2>2, WriteStepKeeps
  <2> QED
    BY <1>2, <2>1, <2>2, CrashKeeps, RestartKeeps DEF Next
<1> QED
  BY <1>1, <1>2

(* Type correctness of the log file module.                                *)
THEOREM TypeCorrect == Spec => []TypeOK
<1>1. DInv => TypeOK
  BY DEF DInv
<1> QED
  BY <1>1, DInvInit, DInvNext, PTL DEF Spec

(* logfile_get_last_tai, when it does not abort, never answers with a      *)
(* batch that was over before one whose logfile_append_data has returned   *)
(* began.                                                                  *)
THEOREM CompletedFound == Spec => NothingCompletedLost
<1>1. DInv /\ [Next]_vars =>
        [up = "down" /\ up' = "up" =>
            \A b \in done : found' # 0 /\ found' \notin before[b]]_vars
  <2> SUFFICES ASSUME DInv, [Next]_vars, up = "down", up' = "up", NEW b \in done
               PROVE  found' # 0 /\ found' \notin before[b]
    BY DEF vars
  <2>1. Restart
    BY DEF Next, AppendData, AppendAborts, Write, ShortWrite, Crash, vars
  <2>2. LastHeader.kind = "header" /\ found' = LastHeader.of
    BY <2>1 DEF Restart
  <2> QED
    BY <2>2 DEF DInv, EndIsRecent, Durable!NotOlder
<1> QED
  BY <1>1, DInvInit, DInvNext, PTL DEF Spec, NothingCompletedLost

(* What a step of the file does to the batches in progress.                *)
LEMMA ActiveAfter ==
    ASSUME TypeOK, NEW w \in Writer, at' \in [Writer -> {"idle"} \cup Writing],
           \A v \in Writer : v # w => at'[v] = at[v] /\ batch'[v] = batch[v]
    PROVE  /\ at[w] # "idle" /\ at'[w] # "idle" /\ batch'[w] = batch[w] => active' = active
           /\ at[w] = "idle" /\ at'[w] # "idle" => active' = active \cup {batch'[w]}
           /\ at[w] # "idle" /\ at'[w] = "idle"
              /\ (\A v \in Writer : at[v] # "idle" /\ batch[v] = batch[w] => v = w)
              => active' = active \ {batch[w]}
BY DEF active

(* An append begins in the durable log when it does in the file ...        *)
LEMMA AppendBegins ==
    ASSUME DInv, NEW w \in Writer, NEW some \in BOOLEAN, AppendData(w, some)
    PROVE  Durable!Begin
<1>1. at' \in [Writer -> {"idle"} \cup Writing] /\ batch'[w] = begun + 1
      /\ at[w] = "idle" /\ at'[w] # "idle"
  BY DEF DInv, TypeOK, AppendData, Writing
<1>2. \A v \in Writer : v # w => at'[v] = at[v] /\ batch'[v] = batch[v]
  BY DEF DInv, TypeOK, AppendData
<1>3. active' = active \cup {begun + 1}
  BY <1>1, <1>2, ActiveAfter DEF DInv
<1> QED
  BY <1>3 DEF AppendData, Durable!Begin

(* ... and finishes with its last write; the writes before it are not seen.*)
LEMMA WriteFinishes ==
    ASSUME DInv, NEW w \in Writer, Write(w) \/ ShortWrite(w)
    PROVE  Durable!Next \/ UNCHANGED Durable!vars
<1>1. up = "up" /\ at[w] \in Writing /\ NextWrite(w)
      /\ UNCHANGED <<up, batch, found, begun, before>>
  BY DEF Write, ShortWrite
<1>2. /\ at' \in [Writer -> {"idle"} \cup Writing]
      /\ \A v \in Writer : v # w => at'[v] = at[v]
      /\ at[w] = "header2" => at'[w] = "idle" /\ done' = done \cup {batch[w]}
      /\ at[w] # "header2" => at'[w] # "idle" /\ done' = done
  BY <1>1, NextWriteType DEF DInv
<1>3. at[w] # "idle" /\ batch[w] \in active
  BY <1>1 DEF Writing, active
<1>4. CASE at[w] = "header2"
  <2>1. active' = active \ {batch[w]}
    BY <1>1, <1>2, <1>3, <1>4, ActiveAfter DEF DInv, OneThreadEach, Appending
  <2>2. batch[w] \in 1 .. MaxBatches
    BY <1>3, LogFileAssumption DEF DInv, InHand, Appending, TypeOK
  <2>3. Durable!Finish(batch[w])
    BY <1>1, <1>2, <1>3, <1>4, <2>1 DEF Durable!Finish
  <2> QED
    BY <2>2, <2>3 DEF Durable!Next
<1>5. CASE at[w] # "header2"
  <2>1. active' = active
    BY <1>1, <1>2, <1>3, <1>5, ActiveAfter DEF DInv
  <2> QED
    BY <1>1, <1>2, <1>5, <2>1 DEF Durable!vars
<1> QED
  BY <1>4, <1>5

(* A crash, or an append that aborts, abandons what is in progress.        *)
LEMMA StopFails ==
    ASSUME DInv, Crash \/ \E w \in Writer : AppendAborts(w)
    PROVE  Durable!Fail
<1>1. up = "up" /\ up' \in {"down", "aborted"} /\ at' = AllIdle
      /\ UNCHANGED <<begun, done, before, found>>
  BY DEF Crash, AppendAborts
<1>2. active' = {}
  BY <1>1 DEF active, AllIdle
<1> QED
  BY <1>1, <1>2 DEF Durable!Fail

(* A restart recovers or gives up.                                         *)
LEMMA RestartRecovers == ASSUME DInv, Restart PROVE Durable!Next
<1>1. up = "down" /\ UNCHANGED <<at, batch, begun, done, before>>
  BY DEF Restart
<1>2. active' = active
  BY <1>1 DEF active
<1>3. CASE up' = "up"
  <2>1. LastHeader.kind = "header" /\ found' = LastHeader.of
    BY <1>3 DEF Restart
  <2>2. Durable!NotOlder(LastHeader.of)
    BY <2>1 DEF DInv, EndIsRecent
  <2>3. LastHeader.of \in 0 .. MaxBatches
    BY LastIsPiece DEF DInv, Piece
  <2>4. Durable!Recover(LastHeader.of)
    BY <1>1, <1>2, <1>3, <2>1, <2>2 DEF Durable!Recover
  <2> QED
    BY <2>3, <2>4 DEF Durable!Next
<1>4. CASE up' # "up"
  <2>1. up' = "aborted" /\ found' = found
    BY <1>4 DEF Restart
  <2> QED
    BY <1>1, <1>2, <2>1 DEF Durable!GiveUp, Durable!Next
<1> QED
  BY <1>3, <1>4

(* The log file of src/log_file.c implements a durable log: every step of  *)
(* logfile_append_data and logfile_get_last_tai, in any number of threads  *)
(* at once and with any crash or short write, is a step of DurableLog or   *)
(* is not seen there.                                                      *)
THEOREM LogFileIsDurable == Spec => ImplementsDurableLog
<1>1. Init => Durable!Init
  BY DEF Init, Durable!Init, active, AllIdle
<1>2. DInv /\ [Next]_vars => [Durable!Next]_(Durable!vars)
  <2> SUFFICES ASSUME DInv, [Next]_vars PROVE Durable!Next \/ UNCHANGED Durable!vars
    OBVIOUS
  <2>1. CASE UNCHANGED vars
    BY <2>1 DEF vars, Durable!vars, active
  <2>2. CASE Next
    <3>1. ASSUME NEW w \in Writer, NEW some \in BOOLEAN, AppendData(w, some)
          PROVE  Durable!Next
      BY <3>1, AppendBegins DEF Durable!Next
    <3>2. CASE Crash \/ \E w \in Writer : AppendAborts(w)
      BY <3>2, StopFails DEF Durable!Next
    <3> QED
      BY <2>2, <3>1, <3>2, WriteFinishes, RestartRecovers DEF Next
  <2> QED
    BY <2>1, <2>2
<1> QED
  BY <1>1, <1>2, DInvInit, DInvNext, PTL DEF Spec, ImplementsDurableLog, Durable!Spec

-----------------------------------------------------------------------------
(* The pieces of a batch.  The first n pieces of e are in the file fl, at  *)
(* the places f, and no other piece of fl is of batch b.                   *)
In(fl, b, e, n, f) ==
    /\ f \in [1 .. n -> 1 .. Len(fl)]
    /\ \A i \in 1 .. n : fl[f[i]] = e[i]
    /\ \A i \in 1 .. n - 1 : f[i] < f[i + 1]
    /\ \A k \in 1 .. Len(fl) : fl[k].of = b => \E i \in 1 .. n : f[i] = k

LEMMA OnePiece ==
    ASSUME NEW fl \in Seq(Piece), NEW p
    PROVE  /\ Len(fl) \in Nat /\ Len(Append(fl, p)) = Len(fl) + 1
           /\ \A k \in 1 .. Len(fl) : Append(fl, p)[k] = fl[k]
           /\ Append(fl, p)[Len(fl) + 1] = p
OBVIOUS

(* A piece of another batch leaves the places alone.                       *)
LEMMA InOther ==
    ASSUME NEW fl \in Seq(Piece), NEW b, NEW e, NEW n \in Nat, NEW f, In(fl, b, e, n, f),
           NEW p, p.of # b
    PROVE  In(Append(fl, p), b, e, n, f)
<1> DEFINE l == Append(fl, p)
<1>1. /\ Len(fl) \in Nat /\ Len(l) = Len(fl) + 1 /\ l[Len(fl) + 1] = p
      /\ \A k \in 1 .. Len(fl) : l[k] = fl[k]
  BY OnePiece
<1> HIDE DEF l
<1>2. f \in [1 .. n -> 1 .. Len(l)]
  BY <1>1 DEF In
<1>3. \A i \in 1 .. n : l[f[i]] = e[i]
  BY <1>1 DEF In
<1>4. \A k \in 1 .. Len(l) : l[k].of = b => \E i \in 1 .. n : f[i] = k
  <2> TAKE k \in 1 .. Len(l)
  <2>1. k \in 1 .. Len(fl) \/ k = Len(fl) + 1
    BY <1>1
  <2> QED
    BY <1>1, <2>1 DEF In
<1>5. In(l, b, e, n, f)
  BY <1>2, <1>3, <1>4 DEF In
<1> QED
  BY <1>5 DEF l

(* The next piece of the batch itself gets the last place.                 *)
LEMMA InNext ==
    ASSUME NEW fl \in Seq(Piece), NEW b, NEW e, NEW n \in Nat, NEW f, In(fl, b, e, n, f),
           NEW p, p = e[n + 1]
    PROVE  \E g : /\ In(Append(fl, p), b, e, n + 1, g)
                  /\ g[n + 1] = Len(Append(fl, p))
                  /\ Together(n, f) /\ (n # 0 => f[n] = Len(fl)) => Together(n + 1, g)
<1> DEFINE l == Append(fl, p)
           g == [i \in 1 .. n + 1 |-> IF i = n + 1 THEN Len(fl) + 1 ELSE f[i]]
<1>1. /\ Len(fl) \in Nat /\ Len(l) = Len(fl) + 1 /\ l[Len(fl) + 1] = p
      /\ \A k \in 1 .. Len(fl) : l[k] = fl[k]
  BY OnePiece
<1> HIDE DEF l
<1>2. \A i \in 1 .. n + 1 : i \in 1 .. n \/ i = n + 1
  OBVIOUS
<1>3. /\ \A i \in 1 .. n : i \in 1 .. n + 1 /\ i # n + 1 /\ f[i] \in 1 .. Len(fl)
      /\ n + 1 \in 1 .. n + 1
  BY DEF In
<1>4. g[n + 1] = Len(fl) + 1 /\ \A i \in 1 .. n : g[i] = f[i]
  BY <1>3
<1>5. g \in [1 .. n + 1 -> 1 .. Len(l)]
  BY <1>1, <1>2, <1>3
<1> HIDE DEF g
<1>6. \A i \in 1 .. n + 1 : l[g[i]] = e[i]
  <2> TAKE i \in 1 .. n + 1
  <2>1. CASE i \in 1 .. n
    BY <1>1, <1>3, <1>4, <2>1 DEF In
  <2>2. CASE i = n + 1
    BY <1>1, <1>4, <2>2
  <2> QED
    BY <1>2, <2>1, <2>2
<1>7. \A i \in 1 .. (n + 1) - 1 : g[i] < g[i + 1]
  <2> TAKE i \in 1 .. (n + 1) - 1
  <2>0. i \in 1 .. n
    OBVIOUS
  <2>1. CASE i = n
    <3>1. g[i + 1] = Len(fl) + 1 /\ g[i] = f[i] /\ f[i] \in 1 .. Len(fl)
      BY <1>3, <1>4, <2>0, <2>1
    <3> QED
      BY <1>1, <3>1
  <2>2. CASE i # n
    <3>1. i \in 1 .. n - 1 /\ i + 1 \in 1 .. n
      BY <2>0, <2>2
    <3>2. g[i] = f[i] /\ g[i + 1] = f[i + 1]
      BY <1>4, <3>1, <2>0
    <3> QED
      BY <3>1, <3>2 DEF In
  <2> QED
    BY <2>1, <2>2
<1>8. \A k \in 1 .. Len(l) : l[k].of = b => \E i \in 1 .. n + 1 : g[i] = k
  <2> TAKE k \in 1 .. Len(l)
  <2>1. CASE k \in 1 .. Len(fl)
    <3>1. l[k].of = b => \E i \in 1 .. n : f[i] = k
      BY <1>1, <2>1 DEF In
    <3> QED
      BY <1>3, <1>4, <3>1
  <2>2. CASE k = Len(fl) + 1
    BY <1>3, <1>4, <2>2
  <2> QED
    BY <1>1, <2>1, <2>2
<1>9. In(l, b, e, n + 1, g)
  BY <1>5, <1>6, <1>7, <1>8 DEF In
<1>a. ASSUME Together(n, f), n # 0 => f[n] = Len(fl) PROVE Together(n + 1, g)
  <2> SUFFICES ASSUME NEW i \in 1 .. (n + 1) - 1 PROVE g[i + 1] = g[i] + 1
    BY DEF Together
  <2>0. i \in 1 .. n
    OBVIOUS
  <2>1. CASE i = n
    BY <1>4, <1>a, <2>0, <2>1
  <2>2. CASE i # n
    <3>1. i \in 1 .. n - 1 /\ i + 1 \in 1 .. n
      BY <2>0, <2>2
    <3>2. g[i] = f[i] /\ g[i + 1] = f[i + 1]
      BY <1>4, <2>0, <3>1
    <3> QED
      BY <1>a, <3>1, <3>2 DEF Together
  <2> QED
    BY <2>1, <2>2
<1>b. g[n + 1] = Len(l)
  BY <1>1, <1>4
<1> QED
  BY <1>9, <1>a, <1>b DEF l

(* A batch that is over, and one of which n pieces are written: they are   *)
(* the last ones of the file unless another thread wrote meanwhile.        *)
Kept(b) ==
    \/ IsTorn(b)
    \/ \E f : /\ In(file, b, Whole(b), Len(Whole(b)), f)
              /\ Overlapped(b) \/ Together(Len(Whole(b)), f)

AtEnd(b, n) ==
    \/ IsTorn(b)
    \/ \E f : /\ In(file, b, Whole(b), n, f)
              /\ Overlapped(b) \/ (Together(n, f) /\ (n # 0 => f[n] = Len(file)))

LEMMA KeptIsWhole == (\A b \in done : Kept(b)) <=> CompletedIsWhole
BY DEF Kept, CompletedIsWhole, Laid, In

LEMMA EndIsKept == ASSUME NEW b, AtEnd(b, Len(Whole(b))) PROVE Kept(b)
BY DEF AtEnd, Kept

LEMMA TornStays ==
    ASSUME NEW b, file \in Seq(Piece), IsTorn(b),
           file' = file \/ \E p : file' = Append(file, p)
    PROVE  IsTorn(b)'
<1>1. CASE file' = file
  BY <1>1 DEF IsTorn
<1>2. ASSUME NEW p, file' = Append(file, p) PROVE IsTorn(b)'
  <2>1. /\ Len(file) \in Nat /\ Len(file') = Len(file) + 1
        /\ \A k \in 1 .. Len(file) : file'[k] = file[k]
    BY <1>2, OnePiece
  <2>2. PICK k \in 1 .. Len(file) : file[k] = Torn(b)
    BY DEF IsTorn
  <2>3. k \in 1 .. Len(file') /\ file'[k] = Torn(b)
    BY <2>1, <2>2
  <2> QED
    BY <2>3 DEF IsTorn, Torn
<1> QED
  BY <1>1, <1>2

LEMMA OthersKept ==
    ASSUME NEW b, file \in Seq(Piece), Whole(b)' = Whole(b), Len(Whole(b)) \in Nat,
           Overlapped(b) => Overlapped(b)',
           file' = file \/ \E p : p.of # b /\ file' = Append(file, p)
    PROVE  /\ Kept(b) => Kept(b)'
           /\ \A n \in Nat : AtEnd(b, n) /\ (file' = file \/ Overlapped(b)') => AtEnd(b, n)'
<1>1. \A n \in Nat : \A f : In(file, b, Whole(b), n, f) => In(file', b, Whole(b), n, f)
  <2>1. CASE file' = file
    BY <2>1
  <2>2. ASSUME NEW p, p.of # b, file' = Append(file, p),
               NEW n \in Nat, NEW f, In(file, b, Whole(b), n, f)
        PROVE  In(file', b, Whole(b), n, f)
    BY <2>2, InOther
  <2> QED
    BY <2>1, <2>2
<1>2. IsTorn(b) => IsTorn(b)'
  BY TornStays
<1>3. Kept(b) => Kept(b)'
  BY <1>1, <1>2 DEF Kept
<1>4. ASSUME NEW n \in Nat, AtEnd(b, n), file' = file \/ Overlapped(b)' PROVE AtEnd(b, n)'
  BY <1>1, <1>2, <1>4 DEF AtEnd
<1> QED
  BY <1>3, <1>4

LEMMA NextPiece ==
    ASSUME NEW b, NEW n \in Nat, AtEnd(b, n), file \in Seq(Piece), Whole(b)' = Whole(b),
           Overlapped(b) => Overlapped(b)', file' = Append(file, Whole(b)[n + 1])
    PROVE  AtEnd(b, n + 1)'
<1>1. CASE IsTorn(b)
  <2>1. IsTorn(b)'
    BY <1>1, TornStays
  <2> QED
    BY <2>1 DEF AtEnd
<1>2. ASSUME NEW f, In(file, b, Whole(b), n, f),
             Overlapped(b) \/ (Together(n, f) /\ (n # 0 => f[n] = Len(file)))
      PROVE  AtEnd(b, n + 1)'
  <2>1. PICK g : /\ In(file', b, Whole(b), n + 1, g) /\ g[n + 1] = Len(file')
                 /\ Together(n, f) /\ (n # 0 => f[n] = Len(file)) => Together(n + 1, g)
    BY <1>2, InNext
  <2> QED
    BY <1>2, <2>1 DEF AtEnd
<1> QED
  BY <1>1, <1>2 DEF AtEnd

-----------------------------------------------------------------------------
(* How many pieces of its batch a thread has written, when none was short. *)
SoFar(w) ==
    CASE at[w] = "header1" -> 0
      [] at[w] = "commands" -> 1
      [] OTHER -> IF shape[batch[w]] THEN 2 ELSE 1

(* The file holds pieces of batches that have begun; a batch in progress   *)
(* is not over, and what is written of it is at the end of the file.       *)
PiecesBegun == \A k \in 1 .. Len(file) : file[k].of \in 1 .. begun
NotDone == \A w \in Writer : Appending(w) => batch[w] \notin done
InProgress == \A w \in Writer : Appending(w) => AtEnd(batch[w], SoFar(w))
Completed == \A b \in done : Kept(b)

Pieces == PiecesBegun /\ NotDone /\ InProgress /\ Completed
PInv == DInv /\ Pieces

LEMMA WholeIs ==
    ASSUME TypeOK, NEW b \in 1 .. MaxBatches
    PROVE  /\ shape[b] => Whole(b) = <<Header(b), Data(b), Header(b)>> /\ Len(Whole(b)) = 3
           /\ ~shape[b] => Whole(b) = <<Header(b), Header(b)>> /\ Len(Whole(b)) = 2
           /\ Len(Whole(b)) \in Nat
<1>1. shape[b] \in BOOLEAN
  BY DEF TypeOK
<1> QED
  BY <1>1 DEF Whole

(* Nothing an append begins later changes what overlapped before.          *)
LEMMA OverlapStays ==
    ASSUME begun \in Nat, begun' \in Nat, begun <= begun', NEW b \in 1 .. begun,
           \A x \in 1 .. begun : before'[x] = before[x], Overlapped(b)
    PROVE  Overlapped(b)'
<1>1. PICK x \in 1 .. begun \ {b} : x \notin before[b] /\ b \notin before[x]
  BY DEF Overlapped
<1>2. x \in 1 .. begun' \ {b} /\ x \notin before'[b] /\ b \notin before'[x]
  BY <1>1
<1> QED
  BY <1>2 DEF Overlapped

(* Two threads that append at once: their batches overlap.                 *)
LEMMA BothOverlap ==
    ASSUME DInv, NEW v \in Writer, NEW w \in Writer, v # w, Appending(v), Appending(w)
    PROVE  Overlapped(batch[v]) /\ batch[v] # batch[w]
<1>1. batch[v] # batch[w] /\ batch[v] \in 1 .. begun /\ batch[w] \in 1 .. begun
  BY DEF DInv, OneThreadEach, InHand
<1>2. begun \in 0 .. MaxBatches /\ MaxBatches \in Nat
  BY LogFileAssumption DEF DInv, TypeOK
<1>3. batch[v] \in 1 .. MaxBatches /\ batch[w] \in 1 .. MaxBatches
  BY <1>1, <1>2
<1>4. batch[w] \notin before[batch[v]] /\ batch[v] \notin before[batch[w]]
  BY <1>3 DEF DInv, ActiveNotOver
<1> QED
  BY <1>1, <1>4 DEF Overlapped

LEMMA Ranges ==
    ASSUME DInv
    PROVE  /\ TypeOK /\ file \in Seq(Piece) /\ begun \in Nat /\ begun <= MaxBatches
           /\ MaxBatches \in Nat /\ \A b \in 1 .. begun : b \in 1 .. MaxBatches
           /\ \A b \in done : b \in 1 .. begun
           /\ \A w \in Writer : Appending(w) => batch[w] \in 1 .. begun
<1>1. TypeOK /\ begun \in 0 .. MaxBatches /\ MaxBatches \in Nat
  BY LogFileAssumption DEF DInv, TypeOK
<1>2. file \in Seq(Piece)
  BY <1>1 DEF TypeOK
<1>3. begun \in Nat /\ begun <= MaxBatches /\ \A b \in 1 .. begun : b \in 1 .. MaxBatches
  BY <1>1
<1> QED
  BY <1>1, <1>2, <1>3 DEF DInv, DoneBegun, InHand

(* What a write puts in the file: nothing, a torn piece or the next piece  *)
(* of its batch; and what is written then.                                 *)
LEMMA WritePieces ==
    ASSUME DInv, NEW w \in Writer, Write(w) \/ ShortWrite(w)
    PROVE  LET b == batch[w]  n == SoFar(w)
           IN  /\ n \in Nat
               /\ \/ file' = file /\ at'[w] # "idle" /\ SoFar(w)' = n /\ done' = done
                  \/ file' = Append(file, Torn(b)) /\ done' \subseteq done \cup {b}
                     /\ SoFar(w)' \in Nat
                  \/ /\ file' = Append(file, Whole(b)[n + 1]) /\ Whole(b)[n + 1].of = b
                     /\ \/ at'[w] # "idle" /\ SoFar(w)' = n + 1 /\ done' = done
                        \/ /\ at'[w] = "idle" /\ Len(Whole(b)) = n + 1
                           /\ done' = done \cup {b}
<1> DEFINE b == batch[w]
           n == SoFar(w)
<1>0. /\ TypeOK /\ InHand /\ at[w] \in Writing /\ NextWrite(w)
      /\ UNCHANGED <<batch, begun, before, shape>> /\ Appending(w)
  BY DEF DInv, Write, ShortWrite, Appending, Writing
<1>1. b \in 1 .. MaxBatches /\ file \in Seq(Piece)
  BY <1>0, Ranges
<1>2. shape[b] \in BOOLEAN /\ at \in [Writer -> {"idle"} \cup Writing]
  BY <1>0, <1>1 DEF TypeOK
<1>3. /\ at[w] = "header1" => at'[w] = "commands" /\ done' = done
      /\ at[w] = "commands" => at'[w] = "header2" /\ done' = done
      /\ at[w] = "header2" => at'[w] = "idle" /\ done' = done \cup {b}
  BY <1>0, <1>2 DEF NextWrite
<1>4. /\ at[w] = "header1" => n = 0
      /\ at[w] = "commands" => n = 1
      /\ at[w] = "header2" /\ shape[b] => n = 2
      /\ at[w] = "header2" /\ ~shape[b] => n = 1
  BY DEF SoFar
<1>5. /\ at'[w] = "commands" => SoFar(w)' = 1
      /\ at'[w] \notin {"commands", "header1"} /\ shape[b] => SoFar(w)' = 2
      /\ at'[w] \notin {"commands", "header1"} /\ ~shape[b] => SoFar(w)' = 1
  BY <1>0 DEF SoFar
<1>6. /\ shape[b] => Whole(b) = <<Header(b), Data(b), Header(b)>> /\ Len(Whole(b)) = 3
      /\ ~shape[b] => Whole(b) = <<Header(b), Header(b)>> /\ Len(Whole(b)) = 2
  BY <1>0, <1>1, WholeIs
<1>7. Header(b).of = b /\ Data(b).of = b
  BY DEF Header, Data
<1>8. /\ at[w] = "commands" /\ ~shape[b] => Written(w) = << >>
      /\ at[w] = "commands" /\ shape[b] => Written(w) = <<Data(b)>>
      /\ at[w] # "commands" => Written(w) = <<Header(b)>>
  BY DEF Written
<1>9. at[w] = "header1" \/ at[w] = "commands" \/ at[w] = "header2"
  BY <1>0 DEF Writing
<1>a. file \o << >> = file /\ \A p : file \o <<p>> = Append(file, p)
  BY <1>1
<1> HIDE DEF b, n
<1>b. n \in Nat /\ SoFar(w)' \in Nat
  BY <1>2, <1>3, <1>4, <1>5, <1>9
<1>c. CASE ShortWrite(w)
  <2>1. file' = Append(file, Torn(b))
    BY <1>c DEF ShortWrite, b
  <2>2. done' \subseteq done \cup {b}
    BY <1>3, <1>9
  <2> QED
    BY <1>b, <2>1, <2>2 DEF b, n
<1>d. CASE Write(w)
  <2>0. file' = file \o Written(w)
    BY <1>d DEF Write
  <2>1. CASE at[w] = "commands" /\ ~shape[b]
    <3>1. file' = file /\ at'[w] # "idle" /\ SoFar(w)' = n /\ done' = done
      BY <1>3, <1>4, <1>5, <1>8, <1>a, <2>0, <2>1
    <3> QED
      BY <1>b, <3>1 DEF b, n
  <2>2. CASE at[w] = "header1"
    <3>1. n = 0 /\ n + 1 = 1 /\ at'[w] # "idle" /\ SoFar(w)' = n + 1 /\ done' = done
      BY <1>3, <1>4, <1>5, <2>2
    <3>2. Whole(b)[1] = Header(b)
      BY <1>2, <1>6
    <3>3. file' = Append(file, Header(b))
      BY <1>8, <1>a, <2>0, <2>2
    <3>4. file' = Append(file, Whole(b)[n + 1]) /\ Whole(b)[n + 1].of = b
      BY <1>7, <3>1, <3>2, <3>3
    <3> QED
      BY <1>b, <3>1, <3>4 DEF b, n
  <2>3. CASE at[w] = "commands" /\ shape[b]
    <3>1. n = 1 /\ n + 1 = 2 /\ at'[w] # "idle" /\ SoFar(w)' = n + 1 /\ done' = done
      BY <1>3, <1>4, <1>5, <2>3
    <3>2. Whole(b)[2] = Data(b)
      BY <1>6, <2>3
    <3>3. file' = Append(file, Data(b))
      BY <1>8, <1>a, <2>0, <2>3
    <3>4. file' = Append(file, Whole(b)[n + 1]) /\ Whole(b)[n + 1].of = b
      BY <1>7, <3>1, <3>2, <3>3
    <3> QED
      BY <1>b, <3>1, <3>4 DEF b, n
  <2>4. CASE at[w] = "header2"
    <3>1. at'[w] = "idle" /\ done' = done \cup {b}
      BY <1>3, <2>4
    <3>2. Len(Whole(b)) = n + 1 /\ Whole(b)[n + 1] = Header(b)
      <4>1. CASE shape[b]
        BY <1>4, <1>6, <2>4, <4>1
      <4>2. CASE ~shape[b]
        <5>1. n + 1 = 2
          BY <1>4, <2>4, <4>2
        <5>2. Whole(b) = <<Header(b), Header(b)>> /\ Len(Whole(b)) = 2
          BY <1>6, <4>2
        <5> QED
          BY <5>1, <5>2
      <4> QED
        BY <1>2, <4>1, <4>2
    <3>3. file' = Append(file, Header(b))
      BY <1>8, <1>a, <2>0, <2>4
    <3> QED
      BY <1>b, <1>7, <3>1, <3>2, <3>3 DEF b, n
  <2> QED
    BY <1>2, <1>9, <2>1, <2>2, <2>3, <2>4
<1> QED
  BY <1>c, <1>d

(* A write completes the batch in hand or moves it on, and overlaps every  *)
(* other batch in progress.                                                *)
LEMMA WriteWhole ==
    ASSUME PInv, NEW w \in Writer, Write(w) \/ ShortWrite(w)
    PROVE  Pieces'
<1> DEFINE b == batch[w]
           n == SoFar(w)
<1>0. /\ DInv /\ Pieces /\ TypeOK /\ InHand /\ at[w] \in Writing /\ NextWrite(w)
      /\ UNCHANGED <<batch, begun, before, shape>> /\ Appending(w)
  BY DEF PInv, DInv, Write, ShortWrite, Appending, Writing
<1>1. /\ file \in Seq(Piece) /\ begun \in Nat /\ b \in 1 .. begun /\ b \in 1 .. MaxBatches
      /\ \A d \in done : d \in 1 .. begun
      /\ \A x \in 1 .. begun : x \in 1 .. MaxBatches
  BY <1>0, Ranges
<1>2. /\ n \in Nat
      /\ \/ file' = file /\ at'[w] # "idle" /\ SoFar(w)' = n /\ done' = done
         \/ file' = Append(file, Torn(b)) /\ done' \subseteq done \cup {b}
            /\ SoFar(w)' \in Nat
         \/ /\ file' = Append(file, Whole(b)[n + 1]) /\ Whole(b)[n + 1].of = b
            /\ \/ at'[w] # "idle" /\ SoFar(w)' = n + 1 /\ done' = done
               \/ /\ at'[w] = "idle" /\ Len(Whole(b)) = n + 1 /\ done' = done \cup {b}
  BY <1>0, WritePieces
<1>3. file' = file \/ \E p : p.of = b /\ file' = Append(file, p)
  BY <1>2 DEF Torn
<1>4. done' \subseteq done \cup {b} /\ b \notin done
  BY <1>0, <1>2 DEF Pieces, NotDone
<1>5. /\ \A v \in Writer : v # w => at'[v] = at[v] /\ SoFar(v)' = SoFar(v)
                                    /\ (Appending(v)' <=> Appending(v))
  BY <1>0, NextWriteType DEF SoFar, Appending
<1>6. /\ \A x : Whole(x)' = Whole(x) /\ Overlapped(x)' = Overlapped(x)
  BY <1>0 DEF Whole, Overlapped, Header, Data
<1>7. \A x \in 1 .. begun : x # b =>
          /\ Kept(x) => Kept(x)'
          /\ \A k \in Nat : AtEnd(x, k) /\ Overlapped(x)' => AtEnd(x, k)'
  <2> SUFFICES ASSUME NEW x \in 1 .. begun, x # b
               PROVE  /\ Kept(x) => Kept(x)'
                      /\ \A k \in Nat : AtEnd(x, k) /\ Overlapped(x)' => AtEnd(x, k)'
    OBVIOUS
  <2>1. Len(Whole(x)) \in Nat
    BY <1>0, <1>1, WholeIs
  <2>2. file' = file \/ \E p : p.of # x /\ file' = Append(file, p)
    BY <1>3
  <2> QED
    BY <1>1, <1>6, <2>1, <2>2, OthersKept
<1>8. AtEnd(b, n) /\ Len(Whole(b)) \in Nat
  BY <1>0, <1>1, WholeIs DEF Pieces, InProgress
<1>9. /\ at'[w] # "idle" => AtEnd(b, SoFar(w))'
      /\ b \in done' => Kept(b)'
  <2>0. PICK c \in 1 .. begun, m \in Nat : c = b /\ m = n
    BY <1>1, <1>2
  <2>1. CASE file' = file /\ SoFar(w)' = n /\ done' = done
    <3>1. AtEnd(c, m) /\ Whole(c)' = Whole(c) /\ Overlapped(c)' = Overlapped(c)
      BY <1>6, <1>8, <2>0
    <3>2. AtEnd(c, m)'
      BY <2>1, <3>1 DEF AtEnd, IsTorn, Torn
    <3>3. b' = c /\ SoFar(w)' = m /\ b \notin done'
      BY <1>0, <1>4, <2>0, <2>1
    <3> QED
      BY <3>2, <3>3 DEF AtEnd, IsTorn
  <2>2. CASE file' = Append(file, Torn(b))
    <3>1. IsTorn(b)'
      <4>1. Len(file) \in Nat /\ Len(file') = Len(file) + 1 /\ file'[Len(file) + 1] = Torn(b)
        BY <1>1, <2>2, OnePiece
      <4>2. Len(file) + 1 \in 1 .. Len(file')
        BY <4>1
      <4>3. Torn(b)' = Torn(b)
        BY <1>0 DEF Torn
      <4> QED
        BY <4>1, <4>2, <4>3 DEF IsTorn
    <3> QED
      BY <3>1 DEF AtEnd, Kept
  <2>3. CASE /\ file' = Append(file, Whole(b)[n + 1])
             /\ \/ at'[w] # "idle" /\ SoFar(w)' = n + 1 /\ done' = done
                \/ /\ at'[w] = "idle" /\ Len(Whole(b)) = n + 1 /\ done' = done \cup {b}
    <3>1. c = b /\ m = n
      BY <2>0
    <3>2. AtEnd(c, m + 1)'
      <4>1. /\ AtEnd(c, m) /\ Whole(c)' = Whole(c) /\ (Overlapped(c) => Overlapped(c)')
            /\ file' = Append(file, Whole(c)[m + 1])
        BY <1>6, <1>8, <2>3, <3>1
      <4> HIDE DEF b, n
      <4> QED
        BY <1>1, <4>1, NextPiece
    <3>3. CASE SoFar(w)' = n + 1 /\ done' = done
      <4>1. b' = c /\ SoFar(w)' = m + 1 /\ b \notin done'
        BY <1>0, <1>4, <3>1, <3>3
      <4> QED
        BY <3>2, <4>1 DEF AtEnd, IsTorn
    <3>4. CASE at'[w] = "idle" /\ Len(Whole(b)) = n + 1
      <4>1. Len(Whole(c))' = m + 1 /\ b' = c
        BY <1>0, <1>6, <3>1, <3>4
      <4>2. Kept(c)'
        BY <3>2, <4>1 DEF Kept, AtEnd
      <4> QED
        BY <3>4, <4>1, <4>2 DEF Kept, IsTorn
    <3> QED
      BY <2>3, <3>3, <3>4
  <2> QED
    BY <1>2, <2>1, <2>2, <2>3
<1>a. PiecesBegun'
  <2>1. CASE file' = file
    BY <1>0, <2>1 DEF Pieces, PiecesBegun
  <2>2. ASSUME NEW p, p.of = b, file' = Append(file, p) PROVE PiecesBegun'
    <3>1. /\ Len(file) \in Nat /\ Len(file') = Len(file) + 1 /\ file'[Len(file) + 1] = p
          /\ \A k \in 1 .. Len(file) : file'[k] = file[k]
      BY <1>1, <2>2, OnePiece
    <3>2. \A k \in 1 .. Len(file') : k \in 1 .. Len(file) \/ k = Len(file) + 1
      BY <3>1
    <3> QED
      BY <1>0, <1>1, <2>2, <3>1, <3>2 DEF Pieces, PiecesBegun
  <2> QED
    BY <1>3, <2>1, <2>2
<1>b. NotDone'
  <2> SUFFICES ASSUME NEW v \in Writer, Appending(v)' PROVE batch[v] \notin done'
    BY <1>0 DEF NotDone
  <2>1. CASE v = w
    BY <1>2, <1>0, <2>1, NextWriteType, <1>4 DEF Appending
  <2>2. CASE v # w
    <3>1. Appending(v) /\ batch[v] # b /\ batch[v] \notin done
      BY <1>0, <1>5, <2>2, BothOverlap DEF Pieces, NotDone
    <3> QED
      BY <1>4, <3>1
  <2> QED
    BY <2>1, <2>2
<1>c. InProgress'
  <2> SUFFICES ASSUME NEW v \in Writer, Appending(v)' PROVE AtEnd(batch[v], SoFar(v))'
    BY DEF InProgress
  <2>1. CASE v = w
    BY <1>9, <2>1 DEF Appending
  <2>2. CASE v # w
    <3>1. Appending(v) /\ batch[v] # b /\ Overlapped(batch[v])
      BY <1>0, <1>5, <2>2, BothOverlap
    <3>2. PICK x \in 1 .. begun, k \in Nat : x = batch[v] /\ k = SoFar(v)
      <4>1. batch[v] \in 1 .. begun
        BY <1>0, <3>1, Ranges
      <4>2. batch[v] \in 1 .. MaxBatches /\ TypeOK
        BY <1>0, <1>1, <4>1
      <4>3. SoFar(v) \in Nat
        BY <4>2 DEF SoFar, TypeOK
      <4> QED
        BY <4>1, <4>3
    <3>3. AtEnd(x, k)'
      BY <1>0, <1>6, <1>7, <3>1, <3>2 DEF Pieces, InProgress
    <3>4. batch'[v] = x /\ SoFar(v)' = k
      BY <1>0, <1>5, <2>2, <3>2
    <3> QED
      BY <3>3, <3>4 DEF AtEnd, IsTorn
  <2> QED
    BY <2>1, <2>2
<1>d. Completed'
  <2> SUFFICES ASSUME NEW d \in done' PROVE Kept(d)'
    BY DEF Completed
  <2>1. CASE d = b
    BY <1>9, <1>0, <2>1 DEF Kept, IsTorn
  <2>2. CASE d # b
    BY <1>0, <1>1, <1>4, <1>7, <2>2 DEF Pieces, Completed
  <2> QED
    BY <2>1, <2>2
<1> QED
  BY <1>a, <1>b, <1>c, <1>d DEF Pieces

(* Where the file stays as it is, or gets a piece of a batch that will     *)
(* never be over, the batches that are over stay whole.                    *)
LEMMA CompletedStays ==
    ASSUME PInv, UNCHANGED done, begun' \in Nat, begun <= begun',
           \A x \in 1 .. begun : before'[x] = before[x] /\ shape'[x] = shape[x],
           file' = file \/ \E p : /\ p.of \in (1 .. begun) \ done
                                  /\ file' = Append(file, p)
    PROVE  /\ PiecesBegun' /\ Completed'
           /\ \A b \in 1 .. begun, n \in Nat : AtEnd(b, n) /\ file' = file => AtEnd(b, n)'
<1>0. DInv /\ Pieces
  BY DEF PInv
<1>1. /\ TypeOK /\ file \in Seq(Piece) /\ begun \in Nat
      /\ \A b \in 1 .. begun : b \in 1 .. MaxBatches
      /\ \A b \in done : b \in 1 .. begun
  BY <1>0, Ranges
<1>2. ASSUME NEW b \in 1 .. begun
      PROVE  /\ Len(Whole(b)) \in Nat /\ Whole(b)' = Whole(b)
             /\ (Overlapped(b) => Overlapped(b)')
  <2>1. Len(Whole(b)) \in Nat
    BY <1>1, WholeIs
  <2>2. Whole(b)' = Whole(b)
    BY DEF Whole, Header, Data
  <2> QED
    BY <1>1, <2>1, <2>2, OverlapStays
<1>3. ASSUME NEW b \in done PROVE Kept(b)'
  <2>1. file' = file \/ \E p : p.of # b /\ file' = Append(file, p)
    OBVIOUS
  <2>2. Kept(b)
    BY <1>0 DEF Pieces, Completed
  <2> QED
    BY <1>1, <1>2, <2>1, <2>2, OthersKept
<1>4. ASSUME NEW b \in 1 .. begun, NEW n \in Nat, AtEnd(b, n), file' = file PROVE AtEnd(b, n)'
  BY <1>1, <1>2, <1>4, OthersKept
<1>5. PiecesBegun'
  <2>0. \A x \in 1 .. begun : x \in 1 .. begun'
    BY <1>1
  <2>1. CASE file' = file
    BY <1>0, <2>0, <2>1 DEF Pieces, PiecesBegun
  <2>2. ASSUME NEW p, p.of \in 1 .. begun, file' = Append(file, p) PROVE PiecesBegun'
    <3>1. /\ Len(file) \in Nat /\ Len(file') = Len(file) + 1 /\ file'[Len(file) + 1] = p
          /\ \A k \in 1 .. Len(file) : file'[k] = file[k]
      BY <1>1, <2>2, OnePiece
    <3>2. \A k \in 1 .. Len(file') : k \in 1 .. Len(file) \/ k = Len(file) + 1
      BY <3>1
    <3> QED
      BY <1>0, <2>0, <2>2, <3>1, <3>2 DEF Pieces, PiecesBegun
  <2> QED
    BY <2>1, <2>2
<1>6. Completed'
  BY <1>3 DEF Completed
<1> QED
  BY <1>4, <1>5, <1>6

(* An append begins: its batch has a number of its own.                    *)
LEMMA BeginWhole ==
    ASSUME PInv, NEW w \in Writer, NEW some \in BOOLEAN, AppendData(w, some)
    PROVE  Pieces'
<1> DEFINE new == begun + 1
<1>0. DInv /\ Pieces
  BY DEF PInv
<1>1. /\ at[w] = "idle" /\ begun < MaxBatches /\ begun' = new
      /\ at' = [at EXCEPT ![w] = "header1"]
      /\ batch' = [batch EXCEPT ![w] = new]
      /\ before' = [before EXCEPT ![new] = (1 .. begun) \ active]
      /\ shape' = [shape EXCEPT ![new] = some]
      /\ UNCHANGED <<file, done>>
  BY DEF AppendData
<1>2. /\ TypeOK /\ file \in Seq(Piece) /\ begun \in Nat /\ MaxBatches \in Nat
      /\ \A b \in 1 .. begun : b \in 1 .. MaxBatches
      /\ \A b \in done : b \in 1 .. begun
      /\ \A v \in Writer : Appending(v) => batch[v] \in 1 .. begun
  BY <1>0, Ranges
<1>3. new \in Nat /\ begun <= new /\ new \notin 1 .. begun /\ new \in 1 .. MaxBatches
  BY <1>1, <1>2
<1> HIDE DEF new
<1>4. \A x \in 1 .. begun : before'[x] = before[x] /\ shape'[x] = shape[x]
  BY <1>1, <1>2, <1>3 DEF TypeOK
<1>5. \A v \in Writer : /\ v = w => batch'[v] = new /\ at'[v] = "header1"
                        /\ v # w => batch'[v] = batch[v] /\ at'[v] = at[v]
  BY <1>1, <1>2 DEF TypeOK
<1>6. /\ PiecesBegun' /\ Completed'
      /\ \A b \in 1 .. begun, n \in Nat : AtEnd(b, n) => AtEnd(b, n)'
  <2>1. begun' \in Nat /\ begun <= begun'
    BY <1>1, <1>3
  <2> QED
    BY <1>1, <1>4, <2>1, CompletedStays
<1>7. NotDone'
  BY <1>0, <1>1, <1>2, <1>3, <1>5 DEF NotDone, Pieces, Appending
<1>8. InProgress'
  <2> SUFFICES ASSUME NEW v \in Writer, Appending(v)' PROVE AtEnd(batch[v], SoFar(v))'
    BY DEF InProgress
  <2>1. CASE v = w
    <3>1. PICK x : x = new
      OBVIOUS
    <3>2. \A k \in 1 .. Len(file) : file[k].of # x
      BY <1>0, <1>3, <3>1 DEF Pieces, PiecesBegun
    <3> DEFINE f == [i \in 1 .. 0 |-> 0]
    <3>3. In(file', x, Whole(x)', 0, f) /\ Together(0, f)
      BY <1>1, <3>2 DEF In, Together
    <3>4. AtEnd(x, 0)'
      BY <3>3 DEF AtEnd
    <3>5. batch'[v] = x /\ SoFar(v)' = 0
      BY <1>5, <2>1, <3>1 DEF SoFar
    <3> QED
      BY <3>4, <3>5 DEF AtEnd, IsTorn
  <2>2. CASE v # w
    <3>1. Appending(v) /\ batch[v] \in 1 .. begun
      BY <1>2, <1>5, <2>2 DEF Appending
    <3>2. SoFar(v) \in Nat
      BY <1>2, <3>1 DEF SoFar, TypeOK
    <3>3. PICK x \in 1 .. begun, k \in Nat : x = batch[v] /\ k = SoFar(v)
      BY <3>1, <3>2
    <3>4. AtEnd(x, k)'
      BY <1>0, <1>6, <3>1, <3>3 DEF Pieces, InProgress
    <3>5. batch'[v] = x /\ SoFar(v)' = k
      BY <1>4, <1>5, <2>2, <3>1, <3>3 DEF SoFar
    <3> QED
      BY <3>4, <3>5 DEF AtEnd, IsTorn
  <2> QED
    BY <2>1, <2>2
<1> QED
  BY <1>6, <1>7, <1>8 DEF Pieces

(* The process stops or starts.                                            *)
LEMMA StopWhole ==
    ASSUME PInv, Crash \/ Restart \/ \E w \in Writer : AppendAborts(w)
    PROVE  Pieces'
<1>0. DInv /\ Pieces
  BY DEF PInv
<1>1. UNCHANGED <<begun, done, before, shape>>
  BY DEF Crash, Restart, AppendAborts
<1>2. at' = AllIdle
  BY <1>0, DownIsIdle DEF Crash, Restart, AppendAborts
<1>3. file' = file \/ \E p : p.of \in (1 .. begun) \ done /\ file' = Append(file, p)
  <2>1. ASSUME NEW w \in Writer, at[w] \in Writing
        PROVE  Torn(batch[w]).of \in (1 .. begun) \ done
    <3>1. Appending(w)
      BY <2>1 DEF Appending, Writing
    <3> QED
      BY <1>0, <3>1, Ranges DEF Pieces, NotDone, Torn
  <2> QED
    BY <2>1 DEF Crash, Restart, AppendAborts
<1>4. PiecesBegun' /\ Completed'
  <2>1. begun' \in Nat /\ begun <= begun'
    BY <1>0, <1>1, Ranges
  <2> QED
    BY <1>1, <1>3, <2>1, CompletedStays
<1>5. NotDone' /\ InProgress'
  BY <1>2 DEF NotDone, InProgress, Appending, AllIdle
<1> QED
  BY <1>4, <1>5 DEF Pieces

LEMMA PInvNext == PInv /\ [Next]_vars => PInv'
<1> SUFFICES ASSUME PInv, [Next]_vars PROVE PInv'
  OBVIOUS
<1>1. DInv'
  BY DInvNext DEF PInv
<1>2. CASE UNCHANGED vars
  BY <1>1, <1>2 DEF vars, PInv, Pieces, PiecesBegun, NotDone, InProgress, Completed, Appending,
              SoFar, AtEnd, Kept, IsTorn, Overlapped, Whole
<1>3. CASE Next
  <2>1. ASSUME NEW w \in Writer, NEW some \in BOOLEAN, AppendData(w, some) PROVE Pieces'
    BY <2>1, BeginWhole
  <2>2. ASSUME NEW w \in Writer, Write(w) \/ ShortWrite(w) PROVE Pieces'
    BY <2>2, WriteWhole
  <2>3. Pieces'
    BY <1>3, <2>1, <2>2, StopWhole DEF Next
  <2> QED
    BY <1>1, <2>3 DEF PInv
<1> QED
  BY <1>2, <1>3

(* A batch whose logfile_append_data has returned with no short write is   *)
(* in the file with all its pieces in order, and in one piece unless the   *)
(* other thread appended at the same time, whatever crashes and whatever   *)
(* is appended later.                                                      *)
THEOREM CompletedStaysWhole == Spec => []CompletedIsWhole
<1>1. Init => PInv
  <2> SUFFICES ASSUME Init PROVE PInv
    OBVIOUS
  <2>1. PiecesBegun /\ NotDone /\ InProgress /\ Completed
    BY DEF Init, PiecesBegun, NotDone, InProgress, Completed, Appending, AllIdle
  <2> QED
    BY <2>1, DInvInit DEF PInv, Pieces
<1>2. PInv => CompletedIsWhole
  BY KeptIsWhole DEF PInv, Pieces, Completed
<1> QED
  BY <1>1, <1>2, PInvNext, PTL DEF Spec
=============================================================================
