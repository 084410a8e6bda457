------------------------- MODULE WriteAheadLogProofs -------------------------
(* What the write-ahead log keeps of the entries it acknowledged, proved for *)
(* any number of callers, entries, failures and truncations.                *)
EXTENDS WriteAheadLog, FiniteSetTheorems, SequenceTheorems, TLAPS

\* The loops over the lines and over the entries of the log.
ParseNext(none, read, l) == ParseLine(read, l)
ReplayNext(none, map, e) == ApplyLogEntry(map, e)
ExecuteNext(none, map, e) == Executed(map, e)

Parsing == INSTANCE LoopLemmas WITH Op <- ParseNext
Replaying == INSTANCE LoopLemmas WITH Op <- ReplayNext
Executing == INSTANCE LoopLemmas WITH Op <- ExecuteNext

Line == LogEntry \cup {Garbage}
LastLine == lines[Len(lines)]

AppendingCallers == {c \in Caller : call[c].op = "append"}

\* An entry is handed over once: what is being appended is not acknowledged.
EntriesAreDistinct ==
    /\ \A e \in acked : e.id <= entries
    /\ \A c \in AppendingCallers : call[c].entry.id <= entries /\ call[c].entry \notin acked
    /\ \A c, d \in AppendingCallers : c # d => call[c].entry.id # call[d].entry.id

\* The next append takes nothing that the log owes.  A truncation that was cut
\* off may have left an acknowledged entry without the end of its line.
TornIsNobodys ==
    torn => /\ LastLine \notin due
            /\ cuts = 0 => LastLine \notin acked

\* A truncation that has read the file will write what has to stay.
KeepsTheDue ==
    \A c \in Truncating({"read", "opened"}) : exists /\ due \subseteq ToSet(call[c].keep)

\* The piece of a line is the only debt of a failure that is still to be paid.
FailuresPay ==
    cuts = 0 => /\ Truncating({"called", "read", "opened"}) = {}
                /\ Cardinality(acked \ Readable) + (IF torn THEN 1 ELSE 0) <= failures

WalInv ==
    /\ TypeOK /\ IsFiniteSet(acked)
    /\ EntriesAreDistinct /\ TornIsNobodys
    /\ KeepsTheDue /\ DueIsReadable /\ FailuresPay

-----------------------------------------------------------------------------
(* Types.                                                                  *)

LEMMA GarbageIsNoEntry == Garbage \notin LogEntry
PROOF
  <1> SUFFICES ASSUME NEW e \in LogEntry PROVE e # Garbage
    OBVIOUS
  <1>1. e.id \in 1..MaxEntries
    BY DEF LogEntry
  <1>2. Garbage.id = 0
    BY DEF Garbage
  <1> QED
    BY <1>1, <1>2

\* What a call is, by its operation.
LEMMA CallFields ==
    ASSUME TypeOK, NEW c \in Caller
    PROVE  /\ call[c].op \in {"idle", "broken", "append", "truncate"}
           /\ call[c] = Idle <=> call[c].op = "idle"
           /\ call[c].op = "append" => call[c].entry \in LogEntry
           /\ call[c].op = "truncate" => /\ call[c].stage \in {"called", "read", "opened"}
                                         /\ call[c].from \in Nat
                                         /\ call[c].keep \in Seq(Line)
PROOF
  <1>1. call[c] \in CallType
    BY DEF TypeOK
  <1>2. CASE call[c] \in {Idle, Broken}
    BY <1>2 DEF Idle, Broken
  <1>3. CASE call[c] \in {Appending(e) : e \in LogEntry}
    BY <1>3 DEF Appending, Idle
  <1>4. CASE call[c] \in [op : {"truncate"}, stage : {"called", "read", "opened"},
                          from : Nat, keep : Seq(Line)]
    BY <1>4 DEF Idle
  <1> QED
    BY <1>1, <1>2, <1>3, <1>4 DEF CallType, Line

LEMMA TruncationType ==
    ASSUME NEW stage \in {"called", "read", "opened"}, NEW n \in Nat, NEW keep \in Seq(Line)
    PROVE  Truncation(stage, n, keep) \in CallType
PROOF
  BY DEF Truncation, CallType, Line

LEMMA EndedTypes ==
    /\ Idle \in CallType /\ Idle.op = "idle"
    /\ Broken \in CallType /\ Broken.op = "broken"
PROOF
  BY DEF CallType, Idle, Broken

\* Who calls what, after one caller's call has changed.
LEMMA CallsAfter ==
    ASSUME TypeOK, NEW c \in Caller, NEW x, call' = [call EXCEPT ![c] = x]
    PROVE  /\ call'[c] = x /\ \A d \in Caller \ {c} : call'[d] = call[d]
           /\ x \in CallType => call' \in [Caller -> CallType]
PROOF
  BY DEF TypeOK

-----------------------------------------------------------------------------
(* Lines.                                                                  *)

\* What an append may make of the file: no line is lost but the piece of one.
Grown ==
    /\ lines' \in Seq(Line) /\ torn' \in BOOLEAN /\ exists' \in BOOLEAN
    /\ (lines' # <<>> => exists') /\ (torn' => lines' # <<>>) /\ (exists => exists')
    /\ \A y \in ToSet(lines) : y \in ToSet(lines') \/ (torn /\ y = LastLine)

LEMMA ExtendedLines ==
    ASSUME TypeOK, NEW t \in Line
    PROVE  /\ Extended(t) \in Seq(Line) /\ Extended(t) # <<>>
           /\ Extended(t)[Len(Extended(t))] = IF torn THEN Garbage ELSE t
           /\ ~torn => t \in ToSet(Extended(t))
           /\ \A y \in ToSet(lines) : y \in ToSet(Extended(t)) \/ (torn /\ y = LastLine)
PROOF
  <1> DEFINE n == Len(lines)
  <1>1. /\ lines \in Seq(Line) /\ n \in Nat /\ torn \in BOOLEAN
        /\ torn => lines # <<>>
        /\ Garbage \in Line
    BY DEF TypeOK, Line
  <1>2. CASE torn
    <2> DEFINE u == [lines EXCEPT ![n] = Garbage]
    <2>1. n \in 1..n /\ DOMAIN lines = 1..n
      BY <1>1, <1>2
    <2>2. u \in Seq(Line) /\ Len(u) = n /\ DOMAIN u = 1..n
      BY <1>1, <2>1
    <2>3. u[n] = Garbage /\ \A i \in 1..n : i # n => u[i] = lines[i]
      BY <1>1, <2>1
    <2>4. u # <<>>
      BY <2>1, <2>2
    <2>5. ASSUME NEW y \in ToSet(lines) PROVE y \in ToSet(u) \/ y = LastLine
      <3>1. PICK i \in 1..n : y = lines[i]
        BY <2>1 DEF ToSet
      <3> QED
        BY <2>2, <2>3, <3>1 DEF ToSet, LastLine
    <2>6. Extended(t) = u
      BY <1>2 DEF Extended
    <2> QED
      BY <1>2, <2>2, <2>3, <2>4, <2>5, <2>6
  <1>3. CASE ~torn
    <2> DEFINE u == Append(lines, t)
    <2>1. u \in Seq(Line) /\ Len(u) = n + 1 /\ DOMAIN u = 1..(n + 1) /\ DOMAIN lines = 1..n
      BY <1>1
    <2>2. u[n + 1] = t /\ \A i \in 1..n : u[i] = lines[i]
      BY <1>1
    <2>3. u # <<>>
      BY <1>1, <2>1
    <2>4. t \in ToSet(u)
      BY <1>1, <2>1, <2>2 DEF ToSet
    <2>5. ToSet(lines) \subseteq ToSet(u)
      BY <1>1, <2>1, <2>2 DEF ToSet
    <2>6. Extended(t) = u
      BY <1>3 DEF Extended
    <2> QED
      BY <1>3, <2>1, <2>2, <2>3, <2>4, <2>5, <2>6
  <1> QED
    BY <1>2, <1>3

\* An append that is cut off leaves no entry but its own in a piece of a line.
LEMMA CutOffGrows ==
    ASSUME TypeOK, NEW e \in LogEntry, CutOff(e)
    PROVE  /\ Grown
           /\ torn' => lines'[Len(lines')] \in {Garbage, e} \/ (torn /\ lines' = lines)
PROOF
  <1>1. e \in Line /\ Garbage \in Line
    BY DEF Line
  <1>2. /\ exists \in BOOLEAN /\ lines \in Seq(Line) /\ torn \in BOOLEAN
        /\ (lines # <<>> => exists) /\ (torn => lines # <<>>)
    BY DEF TypeOK, Line
  <1>3. CASE UNCHANGED file
    BY <1>2, <1>3 DEF Grown, file
  <1>4. CASE exists' = TRUE /\ UNCHANGED <<lines, torn>>
    BY <1>2, <1>4 DEF Grown
  <1>5. ASSUME NEW t \in {Garbage, e}, exists' = TRUE, lines' = Extended(t), torn' \in BOOLEAN
        PROVE  Grown /\ lines'[Len(lines')] \in {Garbage, e}
    BY <1>1, <1>5, ExtendedLines DEF Grown
  <1> QED
    BY <1>3, <1>4, <1>5 DEF CutOff, file

-----------------------------------------------------------------------------
(* appendToWAL.                                                            *)

\* What is left of the invariant where only the call of one caller and the
\* counters change.
LEMMA QuietFile ==
    ASSUME WalInv, UNCHANGED <<file, acked>>
    PROVE  /\ exists' \in BOOLEAN /\ lines' \in Seq(Line) /\ torn' \in BOOLEAN
           /\ (lines' # <<>> => exists') /\ (torn' => lines' # <<>>)
           /\ acked' \subseteq LogEntry /\ IsFiniteSet(acked')
           /\ Readable' = Readable /\ LastLine' = LastLine
PROOF
  BY DEF WalInv, TypeOK, file, Readable, LastLine, Line

LEMMA HandOver ==
    ASSUME WalInv, NEW c \in Caller, NEW k \in Key, NEW v \in Value \cup {Missing},
           AppendToWAL(c, k, v)
    PROVE  WalInv'
PROOF
  <1> DEFINE e == [id |-> entries + 1, key |-> k, value |-> v]
  <1>1. /\ call[c] = Idle /\ entries < MaxEntries /\ entries' = entries + 1
        /\ call' = [call EXCEPT ![c] = Appending(e)]
        /\ UNCHANGED <<file, acked, due, failures, cuts>>
    BY DEF AppendToWAL, history
  <1>2. TypeOK /\ entries \in Nat /\ MaxEntries \in Nat
    BY LogAssumption DEF WalInv, TypeOK
  <1>3. e \in LogEntry /\ e.id = entries + 1
    BY <1>1, <1>2 DEF LogEntry
  <1> HIDE DEF e
  <1>4. Appending(e) \in CallType /\ Appending(e).op = "append" /\ Appending(e).entry = e
    BY <1>3 DEF CallType, Appending
  <1>5. /\ call'[c] = Appending(e) /\ \A d \in Caller \ {c} : call'[d] = call[d]
        /\ call' \in [Caller -> CallType]
    BY <1>1, <1>2, <1>4, CallsAfter
  <1>6. call[c].op = "idle"
    BY <1>1, <1>2, CallFields
  <1>7. \A S : Truncating(S)' = Truncating(S)
    BY <1>4, <1>5, <1>6 DEF Truncating
  <1>8. AppendingCallers' = AppendingCallers \cup {c} /\ c \notin AppendingCallers
    BY <1>4, <1>5, <1>6 DEF AppendingCallers
  <1>9. TypeOK'
    BY <1>1, <1>2, <1>5, QuietFile DEF TypeOK, Line
  <1>10. EntriesAreDistinct'
    <2>1. \A x \in acked : x \in LogEntry /\ x.id <= entries
      BY <1>2 DEF WalInv, EntriesAreDistinct, TypeOK
    <2>2. \A x \in LogEntry : x.id \in Nat
      BY <1>2 DEF LogEntry
    <2>3. \A d \in AppendingCallers : /\ call'[d] = call[d] /\ call[d].entry.id <= entries
                                      /\ call[d].entry.id \in Nat /\ call[d].entry \notin acked
      BY <1>2, <1>5, <1>8, <2>2, CallFields DEF AppendingCallers, WalInv, EntriesAreDistinct
    <2>4. e \notin acked
      BY <1>2, <1>3, <2>1, <2>2
    <2>5. \A x \in acked' : x.id <= entries'
      BY <1>1, <1>2, <2>1, <2>2
    <2>6. \A d \in AppendingCallers' : call'[d].entry.id <= entries' /\ call'[d].entry \notin acked'
      BY <1>1, <1>2, <1>3, <1>4, <1>5, <1>8, <2>3, <2>4
    <2>7. \A d \in AppendingCallers : call'[d].entry.id # call'[c].entry.id
      BY <1>2, <1>3, <1>4, <1>5, <2>3
    <2>8. \A b, d \in AppendingCallers' : b # d => call'[b].entry.id # call'[d].entry.id
      <3> SUFFICES ASSUME NEW b \in AppendingCallers', NEW d \in AppendingCallers', b # d
                   PROVE  call'[b].entry.id # call'[d].entry.id
        OBVIOUS
      <3>1. CASE b = c
        BY <1>8, <2>7, <3>1
      <3>2. CASE d = c
        BY <1>8, <2>7, <3>2
      <3>3. CASE b # c /\ d # c
        BY <1>8, <2>3, <3>3 DEF WalInv, EntriesAreDistinct
      <3> QED
        BY <3>1, <3>2, <3>3
    <2> QED
      BY <2>5, <2>6, <2>8 DEF EntriesAreDistinct
  <1>11. TornIsNobodys'
    BY <1>1, QuietFile DEF WalInv, TornIsNobodys, file
  <1>12. KeepsTheDue'
    <2>1. \A d \in Truncating({"read", "opened"}) : call'[d] = call[d]
      BY <1>5, <1>6 DEF Truncating
    <2> QED
      BY <1>1, <1>7, <2>1 DEF WalInv, KeepsTheDue, file
  <1>13. DueIsReadable'
    BY <1>1, <1>7, QuietFile DEF WalInv, DueIsReadable
  <1>14. FailuresPay'
    BY <1>1, <1>7, QuietFile DEF WalInv, FailuresPay, file
  <1> QED
    BY <1>1, <1>9, <1>10, <1>11, <1>12, <1>13, <1>14, QuietFile DEF WalInv

\* What grows loses nothing that was acknowledged.
LEMMA GrownKeeps ==
    ASSUME WalInv, Grown
    PROVE  /\ due \cap Readable \subseteq Readable'
           /\ Cardinality(acked \ Readable) \in Nat /\ Cardinality(acked \ Readable') \in Nat
           /\ cuts = 0 => Cardinality(acked \ Readable') <= Cardinality(acked \ Readable)
PROOF
  <1>1. torn => LastLine \notin due /\ (cuts = 0 => LastLine \notin acked)
    BY DEF WalInv, TornIsNobodys
  <1>2. due \cap Readable \subseteq Readable'
    BY <1>1 DEF Grown, Readable
  <1>3. IsFiniteSet(acked)
    BY DEF WalInv
  <1>4. cuts = 0 => acked \ Readable' \subseteq acked \ Readable
    BY <1>1 DEF Grown, Readable
  <1>5. IsFiniteSet(acked \ Readable) /\ IsFiniteSet(acked \ Readable')
    BY <1>3, FS_Subset
  <1> QED
    BY <1>2, <1>4, <1>5, FS_Subset, FS_CardinalityType

LEMMA AppendLineStep ==
    ASSUME WalInv, NEW c \in Caller, AppendLine(c)
    PROVE  WalInv'
PROOF
  <1> DEFINE e == call[c].entry
  <1>1. /\ call[c].op = "append" /\ exists' = TRUE /\ lines' = Extended(e) /\ torn' = FALSE
        /\ acked' = acked \cup {e} /\ call' = [call EXCEPT ![c] = Idle]
        /\ due' = IF torn \/ Truncating({"read", "opened"}) # {} THEN due ELSE due \cup {e}
        /\ UNCHANGED <<entries, failures, cuts>>
    BY DEF AppendLine
  <1>2. /\ TypeOK /\ e \in LogEntry /\ e \in Line /\ IsFiniteSet(acked)
        /\ due \subseteq acked /\ acked \subseteq LogEntry /\ failures \in Nat /\ torn \in BOOLEAN
    BY <1>1, CallFields DEF WalInv, TypeOK, Line
  <1>3. Idle \in CallType /\ Idle.op = "idle"
    BY DEF CallType, Idle
  <1>4. /\ call'[c] = Idle /\ \A d \in Caller \ {c} : call'[d] = call[d]
        /\ call' \in [Caller -> CallType]
    BY <1>1, <1>2, <1>3, CallsAfter
  <1>5. \A S : Truncating(S)' = Truncating(S)
    BY <1>1, <1>3, <1>4 DEF Truncating
  <1>6. AppendingCallers' = AppendingCallers \ {c} /\ c \in AppendingCallers
    BY <1>1, <1>3, <1>4 DEF AppendingCallers
  <1>7. Grown
    BY <1>1, <1>2, ExtendedLines DEF Grown
  <1>8. ~torn => e \in Readable'
    BY <1>1, <1>2, ExtendedLines, GarbageIsNoEntry DEF Readable
  <1>9. TypeOK'
    BY <1>1, <1>2, <1>4, <1>7 DEF TypeOK, Grown, Line
  <1>10. IsFiniteSet(acked')
    BY <1>1, <1>2, FS_AddElement
  <1>11. EntriesAreDistinct'
    <2>1. \A d \in AppendingCallers \ {c} : call'[d] = call[d] /\ call[d].entry # e
      BY <1>4, <1>6 DEF WalInv, EntriesAreDistinct, AppendingCallers
    <2>2. \A x \in acked' : x.id <= entries
      BY <1>1, <1>6 DEF WalInv, EntriesAreDistinct
    <2>3. \A d \in AppendingCallers' : call'[d].entry.id <= entries /\ call'[d].entry \notin acked'
      BY <1>1, <1>6, <2>1 DEF WalInv, EntriesAreDistinct
    <2>4. \A b, d \in AppendingCallers' : b # d => call'[b].entry.id # call'[d].entry.id
      BY <1>6, <2>1 DEF WalInv, EntriesAreDistinct
    <2> QED
      BY <1>1, <2>2, <2>3, <2>4 DEF EntriesAreDistinct
  <1>12. TornIsNobodys'
    BY <1>1 DEF TornIsNobodys
  <1>13. KeepsTheDue'
    <2>1. \A d \in Truncating({"read", "opened"}) : call'[d] = call[d]
      BY <1>1, <1>4 DEF Truncating
    <2>2. Truncating({"read", "opened"}) # {} => due' = due
      BY <1>1
    <2> QED
      BY <1>1, <1>5, <2>1, <2>2 DEF WalInv, KeepsTheDue
  <1>14. DueIsReadable'
    <2>1. due \cap Readable \subseteq Readable'
      BY <1>7, GrownKeeps
    <2>2. \A y \in due' : y \in due \/ (~torn /\ y = e)
      <3>1. CASE torn \/ Truncating({"read", "opened"}) # {}
        BY <1>1, <3>1
      <3>2. CASE ~(torn \/ Truncating({"read", "opened"}) # {})
        <4>1. due' = due \cup {e}
          BY <1>1, <3>2
        <4> QED
          BY <3>2, <4>1
      <3> QED
        BY <3>1, <3>2
    <2> SUFFICES ASSUME Truncating({"opened"}) = {} PROVE due' \subseteq Readable'
      BY <1>5 DEF DueIsReadable
    <2>3. due \subseteq Readable
      BY DEF WalInv, DueIsReadable
    <2> QED
      BY <1>8, <2>1, <2>2, <2>3
  <1>15. FailuresPay'
    <2> SUFFICES ASSUME cuts = 0 PROVE Cardinality(acked' \ Readable') <= failures
      <3>1. IsFiniteSet(acked' \ Readable')
        BY <1>10, FS_Subset
      <3>2. Cardinality(acked' \ Readable') \in Nat
        BY <3>1, FS_CardinalityType
      <3>3. (Cardinality(acked \ Readable))' = Cardinality(acked' \ Readable')
        OBVIOUS
      <3> QED
        BY <1>1, <1>2, <1>5, <3>2, <3>3 DEF WalInv, FailuresPay
    <2>1. Cardinality(acked \ Readable) + (IF torn THEN 1 ELSE 0) <= failures
      BY DEF WalInv, FailuresPay
    <2>2. /\ Cardinality(acked \ Readable') <= Cardinality(acked \ Readable)
          /\ Cardinality(acked \ Readable) \in Nat /\ Cardinality(acked \ Readable') \in Nat
      BY <1>7, GrownKeeps
    <2>3. CASE ~torn
      <3>1. acked' \ Readable' = acked \ Readable'
        BY <1>1, <1>8, <2>3
      <3> QED
        BY <1>2, <2>1, <2>2, <2>3, <3>1
    <2>4. CASE torn
      <3>1. acked' \ Readable' \subseteq (acked \ Readable') \cup {e}
        BY <1>1
      <3>2. /\ IsFiniteSet((acked \ Readable') \cup {e})
            /\ Cardinality((acked \ Readable') \cup {e}) <= Cardinality(acked \ Readable') + 1
        <4>1. IsFiniteSet(acked \ Readable')
          BY <1>2, FS_Subset
        <4> QED
          BY <2>2, <4>1, FS_AddElement
      <3>3. Cardinality(acked' \ Readable') <= Cardinality((acked \ Readable') \cup {e})
        BY <3>1, <3>2, FS_Subset
      <3>4. /\ Cardinality(acked' \ Readable') \in Nat
            /\ Cardinality((acked \ Readable') \cup {e}) \in Nat
        BY <3>1, <3>2, FS_Subset, FS_CardinalityType
      <3> QED
        BY <1>2, <2>1, <2>2, <2>4, <3>2, <3>3, <3>4
    <2> QED
      BY <2>3, <2>4
  <1> QED
    BY <1>9, <1>10, <1>11, <1>12, <1>13, <1>14, <1>15 DEF WalInv

LEMMA AppendFailsStep ==
    ASSUME WalInv, NEW c \in Caller, AppendFails(c)
    PROVE  WalInv'
PROOF
  <1> DEFINE e == call[c].entry
  <1>0. /\ call[c].op = "append" /\ CutOff(e) /\ failures' = failures + 1
        /\ call' = [call EXCEPT ![c] = Broken] /\ UNCHANGED <<entries, acked, due, cuts>>
    BY DEF AppendFails
  <1>1. /\ TypeOK /\ e \in LogEntry /\ IsFiniteSet(acked) /\ c \in AppendingCallers
        /\ failures \in Nat /\ torn \in BOOLEAN /\ due \subseteq acked
    BY <1>0, CallFields DEF WalInv, TypeOK, AppendingCallers
  <1>2. Grown /\ (torn' => lines'[Len(lines')] \in {Garbage, e} \/ (torn /\ lines' = lines))
    BY <1>0, <1>1, CutOffGrows
  <1>3. /\ call'[c] = Broken /\ \A d \in Caller \ {c} : call'[d] = call[d]
        /\ call' \in [Caller -> CallType]
    BY <1>0, <1>1, CallsAfter, EndedTypes
  <1>4. \A S : Truncating(S)' = Truncating(S)
    BY <1>0, <1>3, EndedTypes DEF Truncating
  <1>5. AppendingCallers' \subseteq AppendingCallers \ {c}
        /\ \A d \in AppendingCallers' : call'[d] = call[d]
    BY <1>3, EndedTypes DEF AppendingCallers
  <1>6. TypeOK'
    BY <1>0, <1>1, <1>2, <1>3 DEF TypeOK, Grown, Line
  <1>7. EntriesAreDistinct'
    <2>1. EntriesAreDistinct
      BY DEF WalInv
    <2> QED
      BY <1>0, <1>5, <2>1 DEF EntriesAreDistinct
  <1>8. TornIsNobodys'
    <2> SUFFICES ASSUME torn'
                 PROVE  LastLine' \notin due /\ (cuts = 0 => LastLine' \notin acked)
      BY <1>0 DEF TornIsNobodys
    <2>1. Garbage \notin acked /\ e \notin acked
      BY <1>1, GarbageIsNoEntry DEF WalInv, TypeOK, EntriesAreDistinct
    <2>2. CASE LastLine' \in {Garbage, e}
      BY <1>1, <2>1, <2>2
    <2>3. CASE torn /\ lines' = lines
      BY <2>3 DEF WalInv, TornIsNobodys, LastLine
    <2> QED
      BY <1>2, <2>2, <2>3 DEF LastLine
  <1>9. KeepsTheDue'
    <2>1. \A d \in Truncating({"read", "opened"})' :
              d \in Truncating({"read", "opened"}) /\ call'[d] = call[d]
      BY <1>3, EndedTypes DEF Truncating
    <2> QED
      BY <1>0, <1>2, <2>1 DEF WalInv, KeepsTheDue, Grown
  <1>10. DueIsReadable'
    <2> SUFFICES ASSUME Truncating({"opened"}) = {} PROVE due \subseteq Readable'
      BY <1>0, <1>4 DEF DueIsReadable
    <2>1. due \subseteq Readable
      BY DEF WalInv, DueIsReadable
    <2>2. due \cap Readable \subseteq Readable'
      BY <1>2, GrownKeeps
    <2> QED
      BY <2>1, <2>2
  <1>11. FailuresPay'
    <2> SUFFICES ASSUME cuts = 0
                 PROVE  /\ Truncating({"called", "read", "opened"})' = {}
                        /\ Cardinality(acked \ Readable') + (IF torn' THEN 1 ELSE 0) <= failures + 1
      BY <1>0 DEF FailuresPay
    <2>1. /\ Truncating({"called", "read", "opened"}) = {}
          /\ Cardinality(acked \ Readable) + (IF torn THEN 1 ELSE 0) <= failures
      BY DEF WalInv, FailuresPay
    <2>2. Truncating({"called", "read", "opened"})' = {}
      BY <1>4, <2>1
    <2>3. /\ Cardinality(acked \ Readable') <= Cardinality(acked \ Readable)
          /\ Cardinality(acked \ Readable) \in Nat /\ Cardinality(acked \ Readable') \in Nat
      BY <1>2, GrownKeeps
    <2>4. Cardinality(acked \ Readable) <= failures
      BY <1>1, <2>1, <2>3
    <2> QED
      BY <1>1, <2>2, <2>3, <2>4
  <1>12. IsFiniteSet(acked')
    BY <1>0, <1>1
  <1> QED
    BY <1>6, <1>7, <1>8, <1>9, <1>10, <1>11, <1>12 DEF WalInv

\* Calls that end and leave the file alone.
LEMMA CallsEnd ==
    ASSUME WalInv, UNCHANGED <<file, entries, acked, cuts>>,
           call' \in [Caller -> CallType],
           \A d \in Caller : call'[d] \in {call[d], Idle, Broken},
           failures' \in Nat, failures' >= failures, due' \subseteq due,
           Truncating({"opened"})' = {} => due' = {} \/ Truncating({"opened"}) = {}
    PROVE  WalInv'
PROOF
  <1>1. Idle.op = "idle" /\ Broken.op = "broken"
    BY EndedTypes
  <1>2. \A S : Truncating(S)' \subseteq Truncating(S)
    BY <1>1 DEF Truncating
  <1>3. /\ AppendingCallers' \subseteq AppendingCallers
        /\ \A d \in AppendingCallers' : call'[d] = call[d]
    BY <1>1 DEF AppendingCallers
  <1>4. TypeOK' /\ IsFiniteSet(acked')
    BY DEF WalInv, TypeOK, file
  <1>5. EntriesAreDistinct'
    BY <1>3 DEF WalInv, EntriesAreDistinct
  <1>6. TornIsNobodys'
    BY QuietFile DEF WalInv, TornIsNobodys, file
  <1>7. KeepsTheDue'
    <2>1. \A d \in Truncating({"read", "opened"})' :
              d \in Truncating({"read", "opened"}) /\ call'[d] = call[d]
      BY <1>1 DEF Truncating
    <2> QED
      BY <2>1 DEF WalInv, KeepsTheDue, file
  <1>8. DueIsReadable'
    BY QuietFile DEF WalInv, DueIsReadable
  <1>9. FailuresPay'
    <2> SUFFICES ASSUME cuts = 0
                 PROVE  /\ Truncating({"called", "read", "opened"})' = {}
                        /\ Cardinality(acked \ Readable) + (IF torn THEN 1 ELSE 0) <= failures'
      BY QuietFile DEF FailuresPay, file
    <2>1. /\ Truncating({"called", "read", "opened"}) = {}
          /\ Cardinality(acked \ Readable) + (IF torn THEN 1 ELSE 0) <= failures
      BY DEF WalInv, FailuresPay
    <2>2. IsFiniteSet(acked \ Readable)
      BY FS_Subset DEF WalInv
    <2>3. Cardinality(acked \ Readable) \in Nat /\ failures \in Nat
      BY <2>2, FS_CardinalityType DEF WalInv, TypeOK
    <2> QED
      BY <1>2, <2>1, <2>3
  <1> QED
    BY <1>4, <1>5, <1>6, <1>7, <1>8, <1>9 DEF WalInv

LEMMA CrashStep == ASSUME WalInv, Crash PROVE WalInv'
PROOF
  <1>1. /\ call' = [c \in Caller |-> Idle]
        /\ due' = IF Truncating({"opened"}) # {} THEN {} ELSE due
        /\ UNCHANGED <<file, entries, acked, failures, cuts>>
    BY DEF Crash
  <1>2. failures' \in Nat /\ failures' >= failures
    BY <1>1 DEF WalInv, TypeOK
  <1>3. call' \in [Caller -> CallType] /\ \A d \in Caller : call'[d] = Idle
    BY <1>1, EndedTypes
  <1>4. due' \subseteq due /\ (due' = {} \/ Truncating({"opened"}) = {})
    BY <1>1
  <1> QED
    BY <1>1, <1>2, <1>3, <1>4, CallsEnd

LEMMA RejectsStep == ASSUME WalInv, NEW c \in Caller, Rejects(c) PROVE WalInv'
PROOF
  <1>1. /\ call[c] = Broken /\ call' = [call EXCEPT ![c] = Idle]
        /\ UNCHANGED <<file, entries, acked, due, failures, cuts>>
    BY DEF Rejects, history
  <1>2. TypeOK /\ failures' \in Nat /\ failures' >= failures
    BY <1>1 DEF WalInv, TypeOK
  <1>3. /\ call'[c] = Idle /\ \A d \in Caller \ {c} : call'[d] = call[d]
        /\ call' \in [Caller -> CallType]
    BY <1>1, <1>2, CallsAfter, EndedTypes
  <1>4. /\ \A d \in Caller : call'[d] \in {call[d], Idle, Broken}
        /\ Truncating({"opened"})' = {} => Truncating({"opened"}) = {}
    BY <1>1, <1>3, EndedTypes DEF Truncating
  <1> QED
    BY <1>1, <1>2, <1>3, <1>4, CallsEnd

-----------------------------------------------------------------------------
(* truncateWAL.                                                            *)

\* A truncation touches no append.
LEMMA AppendsUntouched ==
    ASSUME WalInv, NEW c \in Caller, call[c].op # "append", NEW x, x.op # "append",
           call' = [call EXCEPT ![c] = x], UNCHANGED <<entries, acked>>
    PROVE  /\ EntriesAreDistinct' /\ IsFiniteSet(acked')
           /\ AppendingCallers' = AppendingCallers
           /\ \A d \in AppendingCallers : call'[d] = call[d]
PROOF
  <1>1. call'[c] = x /\ \A d \in Caller \ {c} : call'[d] = call[d]
    BY CallsAfter DEF WalInv
  <1>2. AppendingCallers' = AppendingCallers /\ \A d \in AppendingCallers : call'[d] = call[d]
    BY <1>1 DEF AppendingCallers
  <1>3. EntriesAreDistinct
    BY DEF WalInv
  <1> QED
    BY <1>2, <1>3 DEF EntriesAreDistinct, WalInv

LEMMA TruncateWALStep ==
    ASSUME WalInv, NEW c \in Caller, NEW n \in Nat, TruncateWAL(c, n)
    PROVE  WalInv'
PROOF
  <1> DEFINE x == Truncation("called", n, <<>>)
  <1>1. /\ call[c] = Idle /\ cuts' = cuts + 1 /\ call' = [call EXCEPT ![c] = x]
        /\ UNCHANGED <<file, entries, acked, due, failures>>
    BY DEF TruncateWAL
  <1>2. TypeOK /\ cuts \in Nat
    BY DEF WalInv, TypeOK
  <1>3. x \in CallType /\ x.op = "truncate" /\ x.stage = "called"
    <2>1. <<>> \in Seq(Line)
      OBVIOUS
    <2> QED
      BY <2>1, TruncationType DEF Truncation
  <1> HIDE DEF x
  <1>4. /\ call'[c] = x /\ \A d \in Caller \ {c} : call'[d] = call[d]
        /\ call' \in [Caller -> CallType]
    BY <1>1, <1>2, <1>3, CallsAfter
  <1>5. call[c].op = "idle"
    BY <1>1, <1>2, CallFields
  <1>6. /\ EntriesAreDistinct' /\ IsFiniteSet(acked') /\ AppendingCallers' = AppendingCallers
        /\ \A d \in AppendingCallers : call'[d] = call[d]
    BY <1>1, <1>3, <1>5, AppendsUntouched
  <1>7. /\ Truncating({"read", "opened"})' = Truncating({"read", "opened"})
        /\ Truncating({"opened"})' = Truncating({"opened"})
        /\ \A d \in Truncating({"read", "opened"}) : call'[d] = call[d]
    BY <1>3, <1>4, <1>5 DEF Truncating
  <1>8. TypeOK'
    BY <1>1, <1>2, <1>4 DEF TypeOK, file
  <1>9. TornIsNobodys'
    BY <1>1, <1>2, QuietFile DEF WalInv, TornIsNobodys, file
  <1>10. KeepsTheDue'
    BY <1>1, <1>7 DEF WalInv, KeepsTheDue, file
  <1>11. DueIsReadable'
    BY <1>1, <1>7, QuietFile DEF WalInv, DueIsReadable
  <1>12. FailuresPay'
    BY <1>1, <1>2 DEF FailuresPay
  <1> QED
    BY <1>6, <1>8, <1>9, <1>10, <1>11, <1>12 DEF WalInv

\* A caller that truncates is why some truncation was called.
LEMMA CutsCounted ==
    ASSUME WalInv, NEW c \in Caller, call[c].op = "truncate"
    PROVE  cuts # 0
PROOF
  <1>1. c \in Truncating({"called", "read", "opened"})
    BY CallFields DEF WalInv, Truncating
  <1> QED
    BY <1>1 DEF WalInv, FailuresPay

LEMMA ReadLogStep ==
    ASSUME WalInv, NEW c \in Caller, ReadLog(c)
    PROVE  WalInv'
PROOF
  <1> DEFINE n == call[c].from
             x == Truncation("read", n, Keep(n))
  <1>1. /\ call[c].op = "truncate" /\ call[c].stage = "called"
        /\ UNCHANGED <<file, entries, acked, failures, cuts>>
    BY DEF ReadLog
  <1>2. TypeOK /\ n \in Nat /\ lines \in Seq(Line) /\ Len(lines) \in Nat /\ failures \in Nat
    BY <1>1, CallFields DEF WalInv, TypeOK, Line
  <1>3. CASE ~(exists /\ n < LineCount)
    <2>1. call' = [call EXCEPT ![c] = Idle] /\ due' = due
      BY <1>3 DEF ReadLog
    <2>2. Idle \in CallType /\ Idle.op = "idle"
      BY DEF CallType, Idle
    <2>3. /\ call'[c] = Idle /\ \A d \in Caller \ {c} : call'[d] = call[d]
          /\ call' \in [Caller -> CallType]
      BY <1>2, <2>1, <2>2, CallsAfter
    <2>4. Truncating({"opened"})' = {} => Truncating({"opened"}) = {}
      BY <1>1, <2>3 DEF Truncating
    <2> QED
      BY <1>1, <1>2, <2>1, <2>3, <2>4, CallsEnd
  <1>4. CASE exists /\ n < LineCount
    <2>1. /\ call' = [call EXCEPT ![c] = x]
          /\ due' = IF Truncating({"read", "opened"}) # {} THEN {}
                    ELSE due \ {lines[i] : i \in (n + 1)..Len(lines)}
      BY <1>4 DEF ReadLog
    <2>2. n <= Len(lines)
      BY <1>2, <1>4 DEF LineCount
    <2>3. Keep(n) \in Seq(Line) /\ DOMAIN Keep(n) = 1..n /\ \A i \in 1..n : Keep(n)[i] = lines[i]
      BY <1>2, <2>2 DEF Keep
    <2>4. x \in CallType /\ x.op = "truncate" /\ x.stage = "read" /\ x.keep = Keep(n)
      BY <1>2, <2>3, TruncationType DEF Truncation
    <2> HIDE DEF x
    <2>5. /\ call'[c] = x /\ \A d \in Caller \ {c} : call'[d] = call[d]
          /\ call' \in [Caller -> CallType]
      BY <1>2, <2>1, <2>4, CallsAfter
    <2>6. /\ EntriesAreDistinct' /\ IsFiniteSet(acked') /\ AppendingCallers' = AppendingCallers
          /\ \A d \in AppendingCallers : call'[d] = call[d]
      BY <1>1, <2>1, <2>4, AppendsUntouched
    <2>7. /\ Truncating({"opened"})' = Truncating({"opened"})
          /\ Truncating({"read", "opened"})' = Truncating({"read", "opened"}) \cup {c}
          /\ c \notin Truncating({"read", "opened"})
          /\ \A d \in Truncating({"read", "opened"}) : call'[d] = call[d]
      BY <1>1, <2>4, <2>5 DEF Truncating
    <2>8. due' \subseteq due
      BY <2>1
    <2>9. due' \subseteq ToSet(Keep(n))
      <3>1. CASE Truncating({"read", "opened"}) # {}
        BY <2>1, <3>1
      <3>2. CASE Truncating({"read", "opened"}) = {}
        <4>1. Truncating({"opened"}) = {}
          BY <3>2 DEF Truncating
        <4>2. due \subseteq ToSet(lines)
          BY <4>1 DEF WalInv, DueIsReadable, Readable
        <4>3. ASSUME NEW y \in due' PROVE y \in ToSet(Keep(n))
          <5>1. y \in due /\ y \notin {lines[i] : i \in (n + 1)..Len(lines)}
            BY <2>1, <3>2
          <5>2. PICK i \in 1..Len(lines) : y = lines[i]
            BY <1>2, <4>2, <5>1 DEF ToSet
          <5>3. i \in 1..n
            BY <1>2, <5>1, <5>2
          <5> QED
            BY <2>3, <5>2, <5>3 DEF ToSet
        <4> QED
          BY <4>3
      <3> QED
        BY <3>1, <3>2
    <2>10. TypeOK'
      BY <1>1, <1>2, <2>5, <2>8 DEF TypeOK, file
    <2>11. TornIsNobodys'
      BY <1>1, <2>8, QuietFile DEF WalInv, TornIsNobodys, file
    <2>12. KeepsTheDue'
      <3>1. ASSUME NEW d \in Truncating({"read", "opened"})'
            PROVE  exists' /\ due' \subseteq ToSet(call'[d].keep)
        <4>1. CASE d = c
          BY <1>1, <1>4, <2>4, <2>5, <2>9, <4>1 DEF file
        <4>2. CASE d # c
          BY <1>1, <1>4, <2>7, <2>8, <4>2 DEF WalInv, KeepsTheDue, file
        <4> QED
          BY <4>1, <4>2
      <3> QED
        BY <3>1 DEF KeepsTheDue
    <2>13. DueIsReadable'
      BY <1>1, <2>7, <2>8, QuietFile DEF WalInv, DueIsReadable
    <2>14. FailuresPay'
      BY <1>1, CutsCounted DEF FailuresPay
    <2> QED
      BY <2>6, <2>10, <2>11, <2>12, <2>13, <2>14 DEF WalInv
  <1> QED
    BY <1>3, <1>4

LEMMA OpenLogStep ==
    ASSUME WalInv, NEW c \in Caller, OpenLog(c)
    PROVE  WalInv'
PROOF
  <1> DEFINE x == [call[c] EXCEPT !.stage = "opened"]
  <1>1. /\ call[c].op = "truncate" /\ call[c].stage = "read"
        /\ lines' = <<>> /\ torn' = FALSE /\ call' = [call EXCEPT ![c] = x]
        /\ UNCHANGED <<exists, entries, acked, due, failures, cuts>>
    BY DEF OpenLog, history
  <1>2. TypeOK /\ call[c] \in CallType
    BY DEF WalInv, TypeOK
  <1>3. call[c] \in [op : {"truncate"}, stage : {"called", "read", "opened"},
                     from : Nat, keep : Seq(Line)]
    <2>1. call[c] \notin {Idle, Broken}
      BY <1>1 DEF Idle, Broken
    <2>2. call[c] \notin {Appending(e) : e \in LogEntry}
      BY <1>1 DEF Appending
    <2> QED
      BY <1>2, <2>1, <2>2 DEF CallType, Line
  <1>4. /\ x \in [op : {"truncate"}, stage : {"called", "read", "opened"},
                  from : Nat, keep : Seq(Line)]
        /\ x.op = "truncate" /\ x.stage = "opened" /\ x.keep = call[c].keep
    BY <1>3
  <1>5. x \in CallType
    BY <1>4 DEF CallType, Line
  <1> HIDE DEF x
  <1>6. /\ call'[c] = x /\ \A d \in Caller \ {c} : call'[d] = call[d]
        /\ call' \in [Caller -> CallType]
    BY <1>1, <1>2, <1>5, CallsAfter
  <1>7. /\ EntriesAreDistinct' /\ IsFiniteSet(acked') /\ AppendingCallers' = AppendingCallers
        /\ \A d \in AppendingCallers : call'[d] = call[d]
    BY <1>1, <1>4, AppendsUntouched
  <1>8. TypeOK'
    <2>1. lines' = <<>> /\ lines' \in Seq(LogEntry \cup {Garbage})
      <3>1. <<>> \in Seq(LogEntry \cup {Garbage})
        OBVIOUS
      <3> QED
        BY <1>1, <3>1
    <2>2. torn' \in BOOLEAN /\ ~torn'
      BY <1>1
    <2> QED
      BY <1>1, <1>2, <1>6, <2>1, <2>2 DEF TypeOK
  <1>9. TornIsNobodys'
    BY <1>1 DEF TornIsNobodys
  <1>10. KeepsTheDue'
    <2>1. \A d \in Truncating({"read", "opened"})' :
              d \in Truncating({"read", "opened"}) /\ call'[d].keep = call[d].keep
      BY <1>1, <1>4, <1>6 DEF Truncating
    <2> QED
      BY <1>1, <2>1 DEF WalInv, KeepsTheDue
  <1>11. DueIsReadable'
    <2>1. c \in Truncating({"opened"})'
      BY <1>4, <1>6 DEF Truncating
    <2> QED
      BY <2>1 DEF DueIsReadable
  <1>12. FailuresPay'
    BY <1>1, CutsCounted DEF FailuresPay
  <1> QED
    BY <1>7, <1>8, <1>9, <1>10, <1>11, <1>12 DEF WalInv

\* What is written over the file begins with the text that was kept, and ends
\* with its last line, or with the old last line, or with a cut one.
LEMMA OverlayLines ==
    ASSUME NEW keep \in Seq(Line), lines \in Seq(Line), NEW text \in Overlay(keep)
    PROVE  /\ text \in Seq(Line) /\ (lines # <<>> => text # <<>>)
           /\ ToSet(keep) \subseteq ToSet(text)
           /\ text # keep /\ lines # <<>> => text[Len(text)] \in {Garbage, LastLine}
PROOF
  <1>1. /\ Len(lines) \in Nat /\ DOMAIN lines = 1..Len(lines)
        /\ Len(keep) \in Nat /\ DOMAIN keep = 1..Len(keep) /\ Garbage \in Line
    BY DEF Line
  <1>2. CASE text = lines /\ (keep = <<>> \/ IsPrefix(keep, lines))
    <2>1. \A i \in 1..Len(keep) : i \in 1..Len(lines) /\ lines[i] = keep[i]
      <3>1. CASE keep = <<>>
        BY <3>1
      <3>2. CASE IsPrefix(keep, lines)
        BY <1>1, <3>2 DEF IsPrefix
      <3> QED
        BY <1>2, <3>1, <3>2
    <2> QED
      BY <1>1, <1>2, <2>1 DEF ToSet, LastLine
  <1>3. CASE text = keep /\ (lines = <<>> \/ keep # <<>>)
    BY <1>3
  <1>4. ASSUME NEW i \in 1..Len(lines), NEW glue \in Seq(Line), NEW j \in i..(i + 1),
               text = keep \o glue \o SubSeq(lines, j, Len(lines)),
               glue = <<Garbage>> \/ (glue = <<>> /\ j <= Len(lines))
        PROVE  /\ text \in Seq(Line) /\ text # <<>>
               /\ ToSet(keep) \subseteq ToSet(text)
               /\ text[Len(text)] \in {Garbage, LastLine}
    <2> DEFINE rest == SubSeq(lines, j, Len(lines))
               head == keep \o glue
    <2>1. /\ rest \in Seq(Line)
          /\ Len(rest) = IF j <= Len(lines) THEN Len(lines) - j + 1 ELSE 0
          /\ j <= Len(lines) => rest[Len(rest)] = LastLine
      BY <1>1 DEF LastLine
    <2>2. /\ head \in Seq(Line) /\ Len(head) = Len(keep) + Len(glue) /\ Len(glue) \in Nat
          /\ \A k \in 1..Len(keep) : head[k] = keep[k]
          /\ glue = <<Garbage>> => Len(glue) = 1 /\ head[Len(head)] = Garbage
      <3>1. /\ head \in Seq(Line) /\ Len(head) = Len(keep) + Len(glue)
            /\ \A k \in 1..(Len(keep) + Len(glue)) :
                   head[k] = IF k <= Len(keep) THEN keep[k] ELSE glue[k - Len(keep)]
        BY <1>4, ConcatProperties
      <3>2. Len(glue) \in Nat
        BY <1>4
      <3>3. glue = <<Garbage>> => Len(glue) = 1 /\ glue[1] = Garbage
        OBVIOUS
      <3> HIDE DEF head
      <3>4. \A k \in 1..Len(keep) : head[k] = keep[k]
        BY <1>1, <3>1, <3>2
      <3>5. glue = <<Garbage>> => head[Len(head)] = Garbage
        BY <1>1, <3>1, <3>3
      <3> QED
        BY <3>1, <3>2, <3>3, <3>4, <3>5
    <2> HIDE DEF rest, head
    <2>3. text = head \o rest
      BY <1>4 DEF rest, head
    <2>4. /\ text \in Seq(Line) /\ Len(text) = Len(head) + Len(rest) /\ DOMAIN text = 1..Len(text)
          /\ \A k \in 1..Len(head) : text[k] = head[k]
          /\ \A k \in 1..Len(rest) : text[Len(head) + k] = rest[k]
      <3>1. /\ text \in Seq(Line) /\ Len(text) = Len(head) + Len(rest)
            /\ \A k \in 1..(Len(head) + Len(rest)) :
                   text[k] = IF k <= Len(head) THEN head[k] ELSE rest[k - Len(head)]
        <4>1. /\ head \o rest \in Seq(Line) /\ Len(head \o rest) = Len(head) + Len(rest)
              /\ \A k \in 1..(Len(head) + Len(rest)) :
                     (head \o rest)[k] = IF k <= Len(head) THEN head[k] ELSE rest[k - Len(head)]
          <5>1. head \in Seq(Line) /\ rest \in Seq(Line)
            BY <2>1, <2>2
          <5> QED
            BY <5>1, ConcatProperties
        <4> QED
          BY <2>3, <4>1
      <3>2. Len(head) \in Nat /\ Len(rest) \in Nat /\ DOMAIN text = 1..Len(text)
        BY <2>1, <2>2, <3>1
      <3>3. \A k \in 1..Len(head) : text[k] = head[k]
        BY <3>1, <3>2
      <3>4. ASSUME NEW k \in 1..Len(rest) PROVE text[Len(head) + k] = rest[k]
        <4> DEFINE m == Len(head) + k
        <4>1. m \in 1..(Len(head) + Len(rest)) /\ ~(m <= Len(head)) /\ m - Len(head) = k
          BY <3>2
        <4> HIDE DEF m
        <4>2. text[m] = rest[k]
          BY <3>1, <4>1
        <4> QED
          BY <4>2 DEF m
      <3> QED
        BY <3>1, <3>2, <3>3, <3>4
    <2>5. ToSet(keep) \subseteq ToSet(text)
      <3>1. \A k \in 1..Len(keep) : k \in 1..Len(head) /\ k \in 1..Len(text) /\ text[k] = keep[k]
        <4>1. Len(keep) \in Nat /\ Len(rest) \in Nat /\ Len(glue) \in Nat
          BY <1>1, <2>1, <2>2
        <4>2. Len(keep) <= Len(head) /\ Len(head) <= Len(text)
              /\ Len(head) \in Nat /\ Len(text) \in Nat
          BY <2>2, <2>4, <4>1
        <4>3. \A k \in 1..Len(keep) : k \in 1..Len(head) /\ k \in 1..Len(text)
          BY <4>1, <4>2
        <4> QED
          BY <2>2, <2>4, <4>3
      <3> QED
        BY <1>1, <2>4, <3>1 DEF ToSet
    <2>6. text # <<>> /\ text[Len(text)] \in {Garbage, LastLine}
      <3>1. CASE j <= Len(lines)
        <4>1. Len(rest) \in Nat /\ Len(rest) \in 1..Len(rest) /\ Len(head) \in Nat
          BY <1>1, <2>1, <2>2, <3>1
        <4>2. text[Len(text)] = rest[Len(rest)] /\ Len(text) # 0
          BY <2>4, <4>1
        <4> QED
          BY <2>1, <3>1, <4>2
      <3>2. CASE ~(j <= Len(lines))
        <4>1. glue = <<Garbage>> /\ Len(rest) = 0
          BY <1>4, <2>1, <3>2
        <4>2. Len(head) \in 1..Len(head) /\ Len(text) = Len(head) /\ head[Len(head)] = Garbage
          BY <1>1, <2>2, <2>4, <4>1
        <4>3. text[Len(text)] = Garbage /\ Len(text) # 0
          BY <2>4, <4>2
        <4> QED
          BY <4>3
      <3> QED
        BY <3>1, <3>2
    <2> QED
      BY <2>4, <2>5, <2>6
  <1>5. ASSUME NEW i \in 2..Len(lines), text = keep \o SubSeq(lines, i, Len(lines))
        PROVE  /\ text \in Seq(Line) /\ text # <<>>
               /\ ToSet(keep) \subseteq ToSet(text)
               /\ text[Len(text)] \in {Garbage, LastLine}
    <2>1. keep \o <<>> = keep /\ <<>> \in Seq(Line)
      BY <1>1
    <2>2. i \in 1..Len(lines) /\ i \in i..(i + 1) /\ i <= Len(lines)
      BY <1>1, <1>5
    <2>3. text = keep \o <<>> \o SubSeq(lines, i, Len(lines))
      BY <1>5, <2>1
    <2> QED
      BY <1>4, <2>1, <2>2, <2>3
  <1>6. ASSUME NEW i \in 1..Len(lines),
               text = keep \o <<Garbage>> \o SubSeq(lines, i + 1, Len(lines))
        PROVE  /\ text \in Seq(Line) /\ text # <<>>
               /\ ToSet(keep) \subseteq ToSet(text)
               /\ text[Len(text)] \in {Garbage, LastLine}
    <2>1. <<Garbage>> \in Seq(Line)
      BY <1>1
    <2>2. i + 1 \in i..(i + 1)
      BY <1>1, <1>6
    <2> QED
      BY <1>4, <1>6, <2>1, <2>2
  <1>7. CASE ~(keep = <<>> \/ IsPrefix(keep, lines)) /\ ~IsPrefix(lines, keep)
    <2>1. text \in {keep} \cup {keep \o SubSeq(lines, i, Len(lines)) : i \in 2..Len(lines)}
                 \cup {keep \o <<Garbage>> \o SubSeq(lines, i + 1, Len(lines)) : i \in 1..Len(lines)}
      BY <1>7 DEF Overlay
    <2>2. text = keep \/ (\E i \in 2..Len(lines) : text = keep \o SubSeq(lines, i, Len(lines)))
          \/ (\E i \in 1..Len(lines) :
                text = keep \o <<Garbage>> \o SubSeq(lines, i + 1, Len(lines)))
      BY <2>1
    <2> QED
      BY <1>3, <1>5, <1>6, <1>7, <2>2
  <1>8. CASE ~(keep = <<>> \/ IsPrefix(keep, lines)) /\ IsPrefix(lines, keep)
    BY <1>3, <1>8 DEF Overlay
  <1>9. CASE keep = <<>> \/ IsPrefix(keep, lines)
    BY <1>2, <1>9 DEF Overlay
  <1> QED
    BY <1>7, <1>8, <1>9

LEMMA WriteLogStep ==
    ASSUME WalInv, NEW c \in Caller, WriteLog(c)
    PROVE  WalInv'
PROOF
  <1> DEFINE keep == call[c].keep
  <1>1. /\ call[c].op = "truncate" /\ call[c].stage = "opened"
        /\ lines' \in Overlay(keep) /\ torn' = (torn /\ lines' # keep)
        /\ call' = [call EXCEPT ![c] = Idle]
        /\ UNCHANGED <<exists, entries, acked, due, failures, cuts>>
    BY DEF WriteLog, history
  <1>2. TypeOK /\ keep \in Seq(Line) /\ lines \in Seq(Line) /\ torn \in BOOLEAN
    BY <1>1, CallFields DEF WalInv, TypeOK, Line
  <1>3. /\ lines' \in Seq(Line) /\ (lines # <<>> => lines' # <<>>)
        /\ ToSet(keep) \subseteq ToSet(lines')
        /\ lines' # keep /\ lines # <<>> => lines'[Len(lines')] \in {Garbage, LastLine}
    <2>1. ASSUME NEW text \in Overlay(keep)
          PROVE  /\ text \in Seq(Line) /\ (lines # <<>> => text # <<>>)
                 /\ ToSet(keep) \subseteq ToSet(text)
                 /\ text # keep /\ lines # <<>> => text[Len(text)] \in {Garbage, LastLine}
      BY <1>2, OverlayLines
    <2> HIDE DEF keep
    <2> QED
      BY <1>1, <2>1
  <1>4. Idle \in CallType /\ Idle.op = "idle"
    BY DEF CallType, Idle
  <1>5. /\ call'[c] = Idle /\ \A d \in Caller \ {c} : call'[d] = call[d]
        /\ call' \in [Caller -> CallType]
    BY <1>1, <1>2, <1>4, CallsAfter
  <1>6. /\ EntriesAreDistinct' /\ IsFiniteSet(acked') /\ AppendingCallers' = AppendingCallers
        /\ \A d \in AppendingCallers : call'[d] = call[d]
    BY <1>1, <1>4, AppendsUntouched
  <1>7. exists /\ due \subseteq ToSet(keep)
    <2>1. c \in Truncating({"read", "opened"})
      BY <1>1 DEF Truncating
    <2> QED
      BY <2>1 DEF WalInv, KeepsTheDue
  <1>8. due \subseteq acked /\ acked \subseteq LogEntry
    BY <1>2 DEF TypeOK
  <1> HIDE DEF keep
  <1>9. torn' => torn /\ lines # <<>> /\ lines' # keep
    BY <1>1, <1>2 DEF TypeOK
  <1>10. TypeOK'
    <2>1. torn' \in BOOLEAN /\ exists' /\ (torn' => lines' # <<>>)
      BY <1>1, <1>3, <1>7, <1>9
    <2> QED
      BY <1>1, <1>2, <1>3, <1>5, <2>1 DEF TypeOK, Line
  <1>11. TornIsNobodys'
    <2> SUFFICES ASSUME torn'
                 PROVE  LastLine' \notin due /\ cuts # 0
      BY <1>1 DEF TornIsNobodys
    <2>1. LastLine' \in {Garbage, LastLine}
      BY <1>3, <1>9 DEF LastLine
    <2>2. Garbage \notin due /\ LastLine \notin due
      BY <1>8, <1>9, GarbageIsNoEntry DEF WalInv, TornIsNobodys
    <2> QED
      BY <1>1, <2>1, <2>2, CutsCounted
  <1>12. KeepsTheDue'
    <2>1. \A d \in Truncating({"read", "opened"})' :
              d \in Truncating({"read", "opened"}) /\ call'[d] = call[d]
      BY <1>4, <1>5 DEF Truncating
    <2> QED
      BY <1>1, <2>1 DEF WalInv, KeepsTheDue
  <1>13. DueIsReadable'
    BY <1>1, <1>3, <1>7, <1>8, GarbageIsNoEntry DEF DueIsReadable, Readable
  <1>14. FailuresPay'
    BY <1>1, CutsCounted DEF FailuresPay
  <1> QED
    BY <1>6, <1>10, <1>11, <1>12, <1>13, <1>14 DEF WalInv

\* What a truncation leaves that is cut off while it writes.
LEMMA CutWriteLines ==
    ASSUME TypeOK, NEW keep \in Seq(Line), CutWrite(keep)
    PROVE  /\ lines' \in Seq(Line) /\ torn' \in BOOLEAN /\ (torn' => lines' # <<>>)
           /\ exists' = exists
PROOF
  <1>1. /\ lines \in Seq(Line) /\ torn \in BOOLEAN /\ (torn => lines # <<>>)
        /\ Garbage \in Line /\ Len(keep) \in Nat /\ Len(lines) \in Nat
    BY DEF TypeOK, Line
  <1>2. CASE UNCHANGED file
    BY <1>1, <1>2 DEF file
  <1>3. ASSUME NEW k \in 1..Len(keep), UNCHANGED exists,
               lines' \in Overlay(SubSeq(keep, 1, k)),
               torn' = (torn /\ lines' # SubSeq(keep, 1, k))
        PROVE  lines' \in Seq(Line) /\ torn' \in BOOLEAN /\ (torn' => lines' # <<>>)
    <2> DEFINE whole == SubSeq(keep, 1, k)
    <2>1. whole \in Seq(Line)
      BY <1>1
    <2> HIDE DEF whole
    <2>2. ASSUME NEW text \in Overlay(whole)
          PROVE  text \in Seq(Line) /\ (lines # <<>> => text # <<>>)
      BY <1>1, <2>1, OverlayLines
    <2>3. lines' \in Overlay(whole) /\ torn' = (torn /\ lines' # whole)
      BY <1>3 DEF whole
    <2> QED
      BY <1>1, <2>2, <2>3
  <1>4. ASSUME NEW k \in 1..Len(keep), NEW piece \in {Garbage, keep[k]} \cup ToSet(lines),
               NEW rest \in Seq(Line)
        PROVE  /\ Append(SubSeq(keep, 1, k - 1), piece) \o rest \in Seq(Line)
               /\ Append(SubSeq(keep, 1, k - 1), piece) \o rest # <<>>
               /\ Append(SubSeq(keep, 1, k - 1), piece) \in Seq(Line)
               /\ Append(SubSeq(keep, 1, k - 1), piece) # <<>>
    <2>1. piece \in Line
      BY <1>1, <1>4 DEF ToSet
    <2> DEFINE before == SubSeq(keep, 1, k - 1)
               head == Append(before, piece)
    <2>2. before \in Seq(Line)
      BY <1>1
    <2> HIDE DEF before
    <2>3. head \in Seq(Line) /\ Len(head) = Len(before) + 1 /\ Len(before) \in Nat
      BY <2>1, <2>2
    <2> HIDE DEF head
    <2>4. head \o rest \in Seq(Line) /\ Len(head \o rest) = Len(head) + Len(rest)
      BY <2>3, ConcatProperties
    <2>5. Len(rest) \in Nat
      OBVIOUS
    <2>6. Len(head) # 0 /\ Len(head \o rest) # 0
      BY <2>3, <2>4, <2>5
    <2>7. head # <<>> /\ head \o rest # <<>>
      BY <2>6
    <2> QED
      BY <2>3, <2>4, <2>7 DEF head, before
  <1>5. ASSUME NEW k \in 1..Len(keep), torn' = TRUE,
               lines' \in {Append(SubSeq(keep, 1, k - 1), piece) : piece \in {Garbage, keep[k]}}
        PROVE  lines' \in Seq(Line) /\ torn' \in BOOLEAN /\ (torn' => lines' # <<>>)
    <2>1. <<>> \in Seq(Line)
      OBVIOUS
    <2> QED
      BY <1>4, <1>5, <2>1
  <1>6. ASSUME NEW k \in 1..Len(keep), torn' = torn, NEW i \in 1..Len(lines),
               NEW glued \in {Garbage, keep[k]} \cup ToSet(lines),
               lines' = Append(SubSeq(keep, 1, k - 1), glued) \o SubSeq(lines, i + 1, Len(lines))
        PROVE  lines' \in Seq(Line) /\ torn' \in BOOLEAN /\ (torn' => lines' # <<>>)
    <2>1. SubSeq(lines, i + 1, Len(lines)) \in Seq(Line)
      BY <1>1
    <2> QED
      BY <1>1, <1>4, <1>6, <2>1
  <1> QED
    BY <1>2, <1>3, <1>5, <1>6 DEF CutWrite, file

LEMMA TruncateFailsStep ==
    ASSUME WalInv, NEW c \in Caller, TruncateFails(c)
    PROVE  WalInv'
PROOF
  <1>1. /\ call[c].op = "truncate" /\ failures' = failures + 1
        /\ call' = [call EXCEPT ![c] = Broken] /\ UNCHANGED <<entries, acked, cuts>>
    BY DEF TruncateFails
  <1>2. TypeOK /\ failures \in Nat
    BY DEF WalInv, TypeOK
  <1>3. /\ call'[c] = Broken /\ \A d \in Caller \ {c} : call'[d] = call[d]
        /\ call' \in [Caller -> CallType]
    BY <1>1, <1>2, CallsAfter, EndedTypes
  <1>4. CASE call[c].stage # "opened"
    <2>1. UNCHANGED <<file, due>>
      BY <1>4 DEF TruncateFails
    <2>2. Truncating({"opened"})' = {} => Truncating({"opened"}) = {}
      BY <1>3, <1>4 DEF Truncating
    <2>3. /\ \A d \in Caller : call'[d] \in {call[d], Idle, Broken}
          /\ due' \subseteq due /\ failures' \in Nat /\ failures' >= failures
      BY <1>1, <1>2, <1>3, <2>1
    <2> QED
      BY <1>1, <1>3, <2>1, <2>2, <2>3, CallsEnd
  <1>5. CASE call[c].stage = "opened"
    <2>1. CutWrite(call[c].keep) /\ due' = {}
      BY <1>5 DEF TruncateFails
    <2>2. call[c].keep \in Seq(Line)
      BY <1>1, <1>2, CallFields
    <2>3. /\ lines' \in Seq(Line) /\ torn' \in BOOLEAN /\ (torn' => lines' # <<>>)
          /\ exists' = exists
      BY <1>2, <2>1, <2>2, CutWriteLines
    <2>4. exists
      <3>1. c \in Truncating({"read", "opened"})
        BY <1>1, <1>5 DEF Truncating
      <3> QED
        BY <3>1 DEF WalInv, KeepsTheDue
    <2>5. TypeOK'
      BY <1>1, <1>2, <1>3, <2>1, <2>3, <2>4 DEF TypeOK, Line
    <2>6. EntriesAreDistinct' /\ IsFiniteSet(acked')
      BY <1>1, AppendsUntouched, EndedTypes
    <2>7. KeepsTheDue'
      BY <2>1, <2>3, <2>4 DEF KeepsTheDue
    <2>8. TornIsNobodys' /\ DueIsReadable' /\ FailuresPay'
      BY <1>1, <2>1, CutsCounted DEF TornIsNobodys, DueIsReadable, FailuresPay
    <2> QED
      BY <2>5, <2>6, <2>7, <2>8 DEF WalInv
  <1> QED
    BY <1>4, <1>5

-----------------------------------------------------------------------------
(* The specification.                                                      *)

LEMMA InitInv == Init => WalInv
PROOF
  <1> SUFFICES ASSUME Init PROVE WalInv
    OBVIOUS
  <1>1. /\ exists = FALSE /\ lines = <<>> /\ torn = FALSE /\ call = [c \in Caller |-> Idle]
        /\ entries = 0 /\ acked = {} /\ due = {} /\ failures = 0 /\ cuts = 0
    BY DEF Init
  <1>2. Idle \in CallType /\ Idle.op = "idle" /\ MaxEntries \in Nat
    BY LogAssumption DEF CallType, Idle
  <1>3. \A S : Truncating(S) = {}
    BY <1>1, <1>2 DEF Truncating
  <1>4. AppendingCallers = {}
    BY <1>1, <1>2 DEF AppendingCallers
  <1>5. acked \ Readable = {} /\ IsFiniteSet({}) /\ Cardinality({}) = 0
    BY <1>1, FS_EmptySet
  <1>6. TypeOK
    <2>1. /\ lines \in Seq(LogEntry \cup {Garbage}) /\ call \in [Caller -> CallType]
          /\ entries \in 0..MaxEntries
      BY <1>1, <1>2
    <2>2. exists \in BOOLEAN /\ torn \in BOOLEAN /\ ~torn
      BY <1>1
    <2> QED
      BY <1>1, <2>1, <2>2 DEF TypeOK
  <1>7. EntriesAreDistinct /\ TornIsNobodys /\ KeepsTheDue /\ DueIsReadable
    BY <1>1, <1>3, <1>4 DEF EntriesAreDistinct, TornIsNobodys, KeepsTheDue, DueIsReadable
  <1>8. FailuresPay
    BY <1>1, <1>3, <1>5 DEF FailuresPay
  <1> QED
    BY <1>1, <1>5, <1>6, <1>7, <1>8 DEF WalInv

LEMMA InvNext == WalInv /\ [Next]_vars => WalInv'
PROOF
  <1> SUFFICES ASSUME WalInv, [Next]_vars PROVE WalInv'
    OBVIOUS
  <1>1. ASSUME NEW c \in Caller, NEW k \in Key, NEW v \in Value \cup {Missing},
               AppendToWAL(c, k, v)
        PROVE  WalInv'
    BY <1>1, HandOver
  <1>2. ASSUME NEW c \in Caller, AppendLine(c) PROVE WalInv'
    BY <1>2, AppendLineStep
  <1>3. ASSUME NEW c \in Caller, AppendFails(c) PROVE WalInv'
    BY <1>3, AppendFailsStep
  <1>4. ASSUME NEW c \in Caller, NEW n \in 0..MaxEntries, TruncateWAL(c, n) PROVE WalInv'
    <2>1. n \in Nat
      BY LogAssumption
    <2> QED
      BY <1>4, <2>1, TruncateWALStep
  <1>5. ASSUME NEW c \in Caller, ReadLog(c) PROVE WalInv'
    BY <1>5, ReadLogStep
  <1>6. ASSUME NEW c \in Caller, OpenLog(c) PROVE WalInv'
    BY <1>6, OpenLogStep
  <1>7. ASSUME NEW c \in Caller, WriteLog(c) PROVE WalInv'
    BY <1>7, WriteLogStep
  <1>8. ASSUME NEW c \in Caller, TruncateFails(c) PROVE WalInv'
    BY <1>8, TruncateFailsStep
  <1>9. CASE Crash
    BY <1>9, CrashStep
  <1>11. ASSUME NEW c \in Caller, Rejects(c) PROVE WalInv'
    BY <1>11, RejectsStep
  <1>10. CASE UNCHANGED vars
    <2>1. UNCHANGED <<exists, lines, torn, call, entries, acked, due, failures, cuts>>
      BY <1>10 DEF vars, file, history
    <2>2. TypeOK' /\ IsFiniteSet(acked')
      BY <2>1 DEF WalInv, TypeOK
    <2>3. \A S : Truncating(S)' = Truncating(S)
      BY <2>1 DEF Truncating
    <2>4. AppendingCallers' = AppendingCallers
      BY <2>1 DEF AppendingCallers
    <2>5. EntriesAreDistinct' /\ TornIsNobodys'
      BY <2>1, <2>4 DEF WalInv, EntriesAreDistinct, TornIsNobodys, LastLine
    <2>6. KeepsTheDue' /\ DueIsReadable' /\ FailuresPay'
      BY <2>1, <2>3 DEF WalInv, KeepsTheDue, DueIsReadable, FailuresPay, Readable
    <2> QED
      BY <2>2, <2>5, <2>6 DEF WalInv
  <1> QED
    BY <1>1, <1>2, <1>3, <1>4, <1>5, <1>6, <1>7, <1>8, <1>9, <1>10, <1>11 DEF Next

\* The types of the log, which every other step of the argument needs.
THEOREM TypeCorrect == Spec => []TypeOK
PROOF
  <1>1. WalInv => TypeOK
    BY DEF WalInv
  <1> QED
    BY <1>1, InitInv, InvNext, PTL DEF Spec

\* What appendToWAL acknowledged can be read until one of the named races or a
\* crash takes it: the first half of LostOnlyToARaceOrACrash.
THEOREM TheLogHoldsWhatItOwes == Spec => []DueIsReadable
PROOF
  <1>1. WalInv => DueIsReadable
    BY DEF WalInv
  <1> QED
    BY <1>1, InitInv, InvNext, PTL DEF Spec

\* Without truncateWAL, a log that appendToWAL failed on has lost no more
\* acknowledged entries than there were failures.
THEOREM FailuresAreCheap == Spec => []FailureCostsOneEntry
PROOF
  <1>1. WalInv => FailureCostsOneEntry
    <2> SUFFICES ASSUME WalInv, cuts = 0 PROVE Cardinality(acked \ Readable) <= failures
      BY DEF FailureCostsOneEntry
    <2>1. IsFiniteSet(acked \ Readable)
      BY FS_Subset DEF WalInv
    <2>2. Cardinality(acked \ Readable) \in Nat /\ failures \in Nat
      BY <2>1, FS_CardinalityType DEF WalInv, TypeOK
    <2>3. Cardinality(acked \ Readable) + (IF torn THEN 1 ELSE 0) <= failures
      BY DEF WalInv, FailuresPay
    <2> QED
      BY <2>2, <2>3
  <1> QED
    BY <1>1, InitInv, InvNext, PTL DEF Spec

-----------------------------------------------------------------------------
(* Reading slice by slice.                                                 *)

LEMMA ParsedIsALoop ==
    ASSUME NEW text
    PROVE  Parsed(text) = Parsing!Fold({}, <<>>, text)
PROOF
  BY DEF Parsed, ParseNext, Parsing!Fold, Parsing!FoldLeft, Parsing!MapThenFoldSet,
         FoldLeft, MapThenFoldSet, Max, Parsing!Max

LEMMA ParsedEmpty == Parsed(<<>>) = <<>>
PROOF
  BY ParsedIsALoop, Parsing!FoldEmpty

LEMMA ParsedAppend ==
    ASSUME NEW s \in Seq(Line), NEW l \in Line
    PROVE  Parsed(Append(s, l)) = ParseLine(Parsed(s), l)
PROOF
  <1>1. Parsing!Fold({}, <<>>, Append(s, l)) = ParseNext({}, Parsing!Fold({}, <<>>, s), l)
    BY Parsing!FoldAppend
  <1> QED
    BY <1>1, ParsedIsALoop DEF ParseNext

LEMMA ParsedType ==
    ASSUME NEW s \in Seq(Line)
    PROVE  Parsed(s) \in Seq(LogEntry)
PROOF
  <1> DEFINE P == {t \in Seq(Line) : Parsed(t) \in Seq(LogEntry)}
  <1>1. <<>> \in P
    <2>1. <<>> \in Seq(Line) /\ <<>> \in Seq(LogEntry)
      OBVIOUS
    <2> QED
      BY <2>1, ParsedEmpty
  <1>2. ASSUME NEW t \in Seq(Line), NEW l \in Line, t \in P PROVE Append(t, l) \in P
    <2>1. Append(t, l) \in Seq(Line) /\ Parsed(Append(t, l)) = ParseLine(Parsed(t), l)
      BY ParsedAppend
    <2>2. ParseLine(Parsed(t), l) \in Seq(LogEntry)
      BY <1>2 DEF ParseLine, Line
    <2> QED
      BY <2>1, <2>2
  <1> HIDE DEF P
  <1>3. Seq(Line) \subseteq P
    BY <1>1, <1>2, Parsing!Appends
  <1> QED
    BY <1>3 DEF P

\* Two texts behind one another are parsed one after the other.
LEMMA ParsedConcat ==
    ASSUME NEW s \in Seq(Line), NEW t \in Seq(Line)
    PROVE  Parsed(s \o t) = Parsed(s) \o Parsed(t)
PROOF
  <1> DEFINE P == {u \in Seq(Line) : Parsed(s \o u) = Parsed(s) \o Parsed(u)}
  <1>1. Parsed(s) \in Seq(LogEntry)
    BY ParsedType
  <1>2. <<>> \in P
    <2>1. s \o <<>> = s /\ <<>> \in Seq(Line) /\ Parsed(s) \o <<>> = Parsed(s)
      BY <1>1
    <2> QED
      BY <2>1, ParsedEmpty
  <1>3. ASSUME NEW u \in Seq(Line), NEW l \in Line, u \in P PROVE Append(u, l) \in P
    <2>1. s \o Append(u, l) = Append(s \o u, l) /\ s \o u \in Seq(Line)
      OBVIOUS
    <2>2. Parsed(s \o Append(u, l)) = ParseLine(Parsed(s) \o Parsed(u), l)
      BY <1>3, <2>1, ParsedAppend
    <2>3. Parsed(u) \in Seq(LogEntry) /\ Parsed(Append(u, l)) = ParseLine(Parsed(u), l)
      BY ParsedType, ParsedAppend
    <2>4. ParseLine(Parsed(s) \o Parsed(u), l) = Parsed(s) \o ParseLine(Parsed(u), l)
      <3>1. CASE l = Garbage
        BY <3>1 DEF ParseLine
      <3>2. CASE l # Garbage
        <4>1. l \in LogEntry
          BY <3>2 DEF Line
        <4>2. Append(Parsed(s) \o Parsed(u), l) = Parsed(s) \o Append(Parsed(u), l)
          <5>1. ASSUME NEW x \in Seq(LogEntry), NEW y \in Seq(LogEntry), NEW e \in LogEntry
                PROVE  Append(x \o y, e) = x \o Append(y, e)
            <6>1. x \o y \in Seq(LogEntry) /\ <<e>> \in Seq(LogEntry)
              OBVIOUS
            <6>2. Append(x \o y, e) = (x \o y) \o <<e>> /\ Append(y, e) = y \o <<e>>
              BY <6>1, AppendIsConcat
            <6>3. (x \o y) \o <<e>> = x \o (y \o <<e>>)
              BY <6>1, ConcatAssociative
            <6> QED
              BY <6>2, <6>3
          <5> QED
            BY <1>1, <2>3, <4>1, <5>1
        <4> QED
          BY <3>2, <4>2 DEF ParseLine
      <3> QED
        BY <3>1, <3>2
    <2>5. Append(u, l) \in Seq(Line)
      OBVIOUS
    <2> QED
      BY <2>2, <2>3, <2>4, <2>5
  <1> HIDE DEF P
  <1>4. Seq(Line) \subseteq P
    BY <1>2, <1>3, Parsing!Appends
  <1> QED
    BY <1>4 DEF P

LEMMA SlicesConcat ==
    ASSUME NEW s \in Seq(Line), NEW i \in Nat, NEW j \in Nat, i <= j, j <= Len(s)
    PROVE  /\ SubSeq(s, i + 1, j) \in Seq(Line) /\ SubSeq(s, j + 1, Len(s)) \in Seq(Line)
           /\ SubSeq(s, i + 1, j) \o SubSeq(s, j + 1, Len(s)) = SubSeq(s, i + 1, Len(s))
PROOF
  <1>1. Len(s) \in Nat
    OBVIOUS
  <1>2. SubSeq(s, i + 1, j) \in Seq(Line) /\ SubSeq(s, j + 1, Len(s)) \in Seq(Line)
    BY <1>1
  <1>3. /\ i + 1 \in 1..(Len(s) + 1) /\ j \in ((i + 1) - 1)..Len(s)
        /\ Len(s) \in j..Len(s)
    BY <1>1
  <1>4. SubSeq(s, i + 1, j) \o SubSeq(s, j + 1, Len(s)) = SubSeq(s, i + 1, Len(s))
    BY <1>3, ConcatAdjacentSubSeq
  <1> QED
    BY <1>2, <1>4

LEMMA SlicesFollow == TypeOK => SlicesMeet
PROOF
  <1> SUFFICES ASSUME TypeOK, NEW from \in 0..Len(lines), NEW to \in 1..Len(lines), from < to
               PROVE  GetWALEntries(from, to) \o GetWALEntries(to, 0) = GetWALEntries(from, 0)
    BY DEF SlicesMeet
  <1>1. lines \in Seq(Line) /\ Len(lines) \in Nat
    BY DEF TypeOK, Line
  <1>2. /\ GetWALEntries(from, to) = Parsed(SubSeq(lines, from + 1, to))
        /\ GetWALEntries(to, 0) = Parsed(SubSeq(lines, to + 1, Len(lines)))
        /\ GetWALEntries(from, 0) = Parsed(SubSeq(lines, from + 1, Len(lines)))
    BY <1>1 DEF GetWALEntries
  <1>3. /\ SubSeq(lines, from + 1, to) \in Seq(Line)
        /\ SubSeq(lines, to + 1, Len(lines)) \in Seq(Line)
        /\ SubSeq(lines, from + 1, to) \o SubSeq(lines, to + 1, Len(lines))
               = SubSeq(lines, from + 1, Len(lines))
    <2>1. from \in Nat /\ to \in Nat /\ from <= to /\ to <= Len(lines)
      BY <1>1
    <2> QED
      BY <1>1, <2>1, SlicesConcat
  <1> QED
    BY <1>2, <1>3, ParsedConcat

\* WriteAheadLog!LostOnlyToARaceOrACrash: between truncations what the log owes
\* can be read, at once and slice by slice.
THEOREM AcknowledgedEntriesAreRead == Spec => []LostOnlyToARaceOrACrash
PROOF
  <1>1. WalInv => LostOnlyToARaceOrACrash
    BY SlicesFollow DEF WalInv, LostOnlyToARaceOrACrash
  <1> QED
    BY <1>1, InitInv, InvNext, PTL DEF Spec

-----------------------------------------------------------------------------
(* Replaying.                                                              *)

WhatItSays(e) ==
    IF e.value = Missing THEN Missing ELSE [value |-> e.value, mortal |-> FALSE]

\* What m entries of s, replayed onto base, leave in map: the last entry of a
\* key decides, and a key without one is as it was.
LastDecides(base, s, m, map) ==
    /\ DOMAIN map = Key
    /\ \A k \in Key : (\A i \in 1..m : s[i].key # k) => map[k] = base[k]
    /\ \A i \in 1..m :
           (\A j \in (i + 1)..m : s[j].key # s[i].key) => map[s[i].key] = WhatItSays(s[i])

LEMMA Replayed ==
    ASSUME NEW s \in Seq(LogEntry), NEW base, DOMAIN base = Key
    PROVE  LastDecides(base, s, Len(s), FoldLeft(ApplyLogEntry, base, s))
PROOF
  <1> DEFINE n == Len(s)
  <1>1. n \in Nat /\ DOMAIN s = 1..n /\ \A i \in 1..n : s[i] \in LogEntry
    OBVIOUS
  <1>2. FoldLeft(ApplyLogEntry, base, s) = Replaying!Fold({}, base, s)
    BY DEF ReplayNext, Replaying!Fold, Replaying!FoldLeft, Replaying!MapThenFoldSet,
           FoldLeft, MapThenFoldSet, Max, Replaying!Max
  <1>3. PICK turn : Replaying!Turning({}, base, s, n, turn)
    BY <1>1, Replaying!Turns
  <1> HIDE DEF n
  <1> DEFINE P == {m \in Nat : m <= n => LastDecides(base, s, m, turn[m])}
  <1>4. 0 \in P
    <2>1. turn[0] = base /\ 1..0 = {}
      BY <1>3 DEF Replaying!Turning
    <2>2. LastDecides(base, s, 0, base)
      BY <2>1 DEF LastDecides
    <2> QED
      BY <2>1, <2>2
  <1>5. ASSUME NEW m \in 0..(n - 1), m \in P PROVE m + 1 \in P
    <2> DEFINE e == s[m + 1]
               map == turn[m]
               next == turn[m + 1]
    <2>1. m \in Nat /\ m + 1 \in 1..n /\ (m + 1) - 1 = m /\ m <= n
      BY <1>1
    <2>2. LastDecides(base, s, m, map)
      BY <1>5, <2>1
    <2>3. next = ApplyLogEntry(map, e)
      BY <1>3, <2>1 DEF Replaying!Turning, ReplayNext
    <2>4. e.key \in Key
      BY <1>1, <2>1 DEF LogEntry
    <2> HIDE DEF map, next
    <2>5. /\ DOMAIN next = Key /\ next[e.key] = WhatItSays(e)
          /\ \A k \in Key : k # e.key => next[k] = map[k]
      BY <2>2, <2>3, <2>4 DEF ApplyLogEntry, LastDecides, WhatItSays
    <2>6. \A i : i \in 1..(m + 1) <=> i \in 1..m \/ i = m + 1
      BY <2>1
    <2>7. ASSUME NEW k \in Key, \A i \in 1..(m + 1) : s[i].key # k PROVE next[k] = base[k]
      BY <2>2, <2>5, <2>6, <2>7 DEF LastDecides
    <2>8. ASSUME NEW i \in 1..(m + 1), \A j \in (i + 1)..(m + 1) : s[j].key # s[i].key
          PROVE  next[s[i].key] = WhatItSays(s[i])
      <3>1. CASE i = m + 1
        BY <2>5, <3>1
      <3>2. CASE i # m + 1
        <4>1. i \in 1..m /\ m + 1 \in (i + 1)..(m + 1)
          BY <2>1, <3>2
        <4>2. \A j \in (i + 1)..m : j \in (i + 1)..(m + 1)
          BY <2>1
        <4>3. map[s[i].key] = WhatItSays(s[i])
          BY <2>2, <2>8, <4>1, <4>2 DEF LastDecides
        <4>4. s[i].key # e.key
          BY <2>8, <4>1
        <4>5. s[i].key \in Key
          <5>1. i \in 1..n
            BY <1>1, <2>1, <4>1
          <5> QED
            BY <1>1, <5>1 DEF LogEntry
        <4> QED
          BY <2>5, <4>3, <4>4, <4>5
      <3> QED
        BY <3>1, <3>2
    <2>9. LastDecides(base, s, m + 1, next)
      BY <2>5, <2>7, <2>8 DEF LastDecides
    <2> QED
      BY <2>1, <2>9 DEF next
  <1>6. P \in SUBSET Nat
    OBVIOUS
  <1> HIDE DEF P
  <1>7. n \in P
    <2>1. 0..n \subseteq P
      BY <1>1, <1>4, <1>5, <1>6, Replaying!UpTo
    <2> QED
      BY <1>1, <2>1
  <1>8. LastDecides(base, s, n, turn[n])
    BY <1>1, <1>7 DEF P
  <1> QED
    BY <1>2, <1>3, <1>8 DEF Replaying!Turning, n

\* Executing a command touches its own key only.
LEMMA OthersUntouched ==
    ASSUME NEW s \in Seq(LogEntry), NEW base, DOMAIN base = Key
    PROVE  LET map == FoldLeft(Executed, base, s) IN
           /\ DOMAIN map = Key
           /\ \A k \in Key : (\A i \in 1..Len(s) : s[i].key # k) => map[k] = base[k]
PROOF
  <1> DEFINE n == Len(s)
             Same(m, map) == /\ DOMAIN map = Key
                             /\ \A k \in Key : (\A i \in 1..m : s[i].key # k) => map[k] = base[k]
  <1>1. n \in Nat /\ DOMAIN s = 1..n
    OBVIOUS
  <1>2. FoldLeft(Executed, base, s) = Executing!Fold({}, base, s)
    BY DEF ExecuteNext, Executing!Fold, Executing!FoldLeft, Executing!MapThenFoldSet,
           FoldLeft, MapThenFoldSet, Max, Executing!Max
  <1>3. PICK turn : Executing!Turning({}, base, s, n, turn)
    BY <1>1, Executing!Turns
  <1> HIDE DEF n
  <1> DEFINE P == {m \in Nat : m <= n => Same(m, turn[m])}
  <1>4. 0 \in P
    <2>1. turn[0] = base
      BY <1>3 DEF Executing!Turning
    <2> QED
      BY <2>1
  <1>5. ASSUME NEW m \in 0..(n - 1), m \in P PROVE m + 1 \in P
    <2> DEFINE map == turn[m]
               next == turn[m + 1]
    <2>1. m \in Nat /\ m + 1 \in 1..n /\ (m + 1) - 1 = m /\ m <= n
      BY <1>1
    <2>2. Same(m, map)
      BY <1>5, <2>1
    <2>3. next = Executed(map, s[m + 1])
      BY <1>3, <2>1 DEF Executing!Turning, ExecuteNext
    <2> HIDE DEF map, next
    <2>4. DOMAIN next = Key /\ \A k \in Key : k # s[m + 1].key => next[k] = map[k]
      BY <2>2, <2>3 DEF Executed
    <2>5. \A i \in 1..m : i \in 1..(m + 1)
      BY <2>1
    <2>6. m + 1 \in 1..(m + 1)
      BY <2>1
    <2>7. Same(m + 1, next)
      BY <2>2, <2>4, <2>5, <2>6
    <2> QED
      BY <2>1, <2>7 DEF next
  <1>6. P \in SUBSET Nat
    OBVIOUS
  <1> HIDE DEF P
  <1>7. n \in P
    <2>1. 0..n \subseteq P
      BY <1>1, <1>4, <1>5, <1>6, Executing!UpTo
    <2> QED
      BY <1>1, <2>1
  <1>8. Same(n, turn[n])
    BY <1>1, <1>7 DEF P
  <1> QED
    BY <1>2, <1>3, <1>8 DEF Executing!Turning, n

LEMMA ReplayFollows == TypeOK => ReplayIsIndependentOfTheFile
PROOF
  <1> SUFFICES ASSUME TypeOK,
                      NEW map \in [Key -> {Missing} \cup [value : Value, mortal : BOOLEAN]],
                      NEW n \in 0..Len(Parsed(lines)), NEW k \in Key
               PROVE  LET persisted == FoldLeft(Executed, map, SubSeq(Parsed(lines), 1, n))
                      IN  ReplayWAL(persisted)[k] = Restored(map, k)
    BY DEF ReplayIsIndependentOfTheFile
  <1> DEFINE log == Parsed(lines)
             persisted == FoldLeft(Executed, map, SubSeq(log, 1, n))
             of == {i \in 1..Len(log) : log[i].key = k}
  <1>1. log \in Seq(LogEntry)
    BY ParsedType DEF TypeOK, Line
  <1> HIDE DEF log
  <1>2. /\ SubSeq(log, 1, n) \in Seq(LogEntry) /\ Len(log) \in Nat
        /\ Len(SubSeq(log, 1, n)) = n /\ \A i \in 1..n : SubSeq(log, 1, n)[i] = log[i]
    BY <1>1 DEF log
  <1>3. /\ DOMAIN persisted = Key
        /\ (\A i \in 1..n : log[i].key # k) => persisted[k] = map[k]
    <2>1. DOMAIN map = Key
      OBVIOUS
    <2> DEFINE s == SubSeq(log, 1, n)
    <2>2. /\ DOMAIN persisted = Key
          /\ (\A i \in 1..Len(s) : s[i].key # k) => persisted[k] = map[k]
      BY <1>2, <2>1, OthersUntouched
    <2> HIDE DEF s, persisted
    <2>3. Len(s) = n /\ \A i \in 1..n : s[i] = log[i]
      BY <1>2 DEF s
    <2> QED
      BY <2>2, <2>3
  <1> HIDE DEF persisted
  <1>4. LastDecides(persisted, log, Len(log), ReplayWAL(persisted))
    BY <1>1, <1>3, Replayed DEF ReplayWAL, log
  <1>5. CASE of = {}
    <2>1. \A i \in 1..Len(log) : log[i].key # k
      BY <1>5
    <2>2. \A i \in 1..n : i \in 1..Len(log)
      BY <1>2 DEF log
    <2>3. ReplayWAL(persisted)[k] = map[k]
      BY <1>3, <1>4, <2>1, <2>2 DEF LastDecides
    <2>4. Restored(map, k) = map[k]
      BY <1>5 DEF Restored, log
    <2> QED
      BY <2>3, <2>4 DEF persisted, log
  <1>6. CASE of # {}
    <2>1. Parsing!Max(of) \in of /\ \A i \in of : i <= Parsing!Max(of)
      BY <1>2, <1>6, Parsing!GreatestIndex
    <2>2. Max(of) = Parsing!Max(of)
      BY DEF Max, Parsing!Max
    <2> DEFINE m == Max(of)
    <2>3. m \in 1..Len(log) /\ log[m].key = k /\ \A i \in of : i <= m
      BY <2>1, <2>2
    <2> HIDE DEF m
    <2>4. \A j \in (m + 1)..Len(log) : log[j].key # log[m].key
      <3>1. \A j \in (m + 1)..Len(log) : j \in 1..Len(log) /\ ~(j <= m)
        BY <1>2, <2>3
      <3> QED
        BY <2>3, <3>1
    <2>5. ReplayWAL(persisted)[k] = WhatItSays(log[m])
      BY <1>4, <2>3, <2>4 DEF LastDecides
    <2>6. Restored(map, k) = WhatItSays(log[m])
      BY <1>6 DEF Restored, WhatItSays, m, log
    <2> QED
      BY <2>5, <2>6 DEF persisted, log
  <1> QED
    BY <1>5, <1>6

\* WriteAheadLog!ReplayIsIndependentOfTheFile: whatever the data file held and
\* however much of the log it had already seen, replaying ends the same way.
THEOREM ReplayDecides == Spec => []ReplayIsIndependentOfTheFile
PROOF
  BY TypeCorrect, ReplayFollows, PTL
=============================================================================
