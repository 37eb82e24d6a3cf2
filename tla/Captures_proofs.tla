--------------------------- MODULE Captures_proofs ---------------------------
(***************************************************************************)
(* Proofs about Captures for every number of pollers, replayers, games,    *)
(* responses and file names, every tolerance and delay, with every fault,  *)
(* and, at the end, about Slate, which asks of the same two algorithms     *)
(* (Matching) what they are for, for any games, times, gap and horizon.    *)
(***************************************************************************)
EXTENDS Captures, Slate, FiniteSetTheorems, WellFoundedInduction, TLAPS

\* Starts some process was told: games only slip, so none is after the present.
ToldBefore(starts) ==
    \A g \in Games : FirstStarts[g] <= starts[g] /\ starts[g] <= actual[g]

\* What every envelope has right, wherever it is.
EnvelopeSound(e) == /\ e \in Envelope
                    /\ e.at = e.body
                    /\ ToldBefore(e.starts)

\* Every file that can be read is a sound capture.
FilesSound == \A s \in Seconds : disk[s] \in {NoFile, Torn} \/ EnvelopeSound(disk[s])

\* So is the capture a process has in hand, and the files it means to read exist.
HandsSound ==
    \A w \in Workers :
       /\ pc[w] \in {"response", "writing", "read", "parsed"} => EnvelopeSound(capture[w])
       /\ pc[w] \in {"writing", "captured"} => file[w] \in Seconds /\ disk[file[w]] # NoFile
       /\ \A s \in queue[w] : disk[s] # NoFile

\* The games table holds the whole slate or nothing, and starts MLB has announced.
ScheduleSound ==
    /\ ToldBefore(actual)
    /\ fetched # Nothing => ToldBefore(fetched)
    /\ \/ \A g \in Games : games[g] = Unlisted
       \/ (\A g \in Games : games[g] # Unlisted) /\ ToldBefore(games)

\* A row's captured_at is that of its response, and while no game has moved it
\* is matched to the game its price is of.
RowSound(r) == /\ r.at = r.body
               /\ actual = FirstStarts => r.pk = r.event

RowsSound == /\ \A w \in Workers : \A r \in rows[w] : RowSound(r)
             /\ \A r \in snapshots : RowSound(r)

\* A transaction inserts rows it has parsed, under keys nobody else has.
TransactionsSound ==
    /\ IsFiniteSet(snapshots)
    /\ \A w \in Workers :
          /\ IsFiniteSet(rows[w]) /\ inserted[w] \subseteq rows[w]
          /\ pc[w] \notin {"parsed", "stored", "next"} => rows[w] = {}
          /\ pc[w] \notin {"stored", "next"} => inserted[w] = {}
          /\ Keys(inserted[w]) \cap Keys(snapshots) = {}
          /\ pc[w] \in {"stored", "next"} => Keys(rows[w]) \subseteq Keys(snapshots \cup inserted[w])
    /\ \A v, w \in Workers : v # w => Keys(inserted[v]) \cap Keys(inserted[w]) = {}

\* The inductive invariant.  What a commit makes visible was inserted while other
\* transactions were open, from a file other processes may have written.
IInv == /\ TypeOK
        /\ FilesSound
        /\ HandsSound
        /\ ScheduleSound
        /\ RowsSound
        /\ TransactionsSound
        /\ SuccessHasItsRows
        /\ CountsAddUp
-----------------------------------------------------------------------------
\* _match_game files an event under a candidate within MATCH_TOLERANCE of it or
\* under none, and of two candidates that both are it never picks one: an event
\* within the tolerance of its own game is filed there or the match is refused.
THEOREM NeverAnotherGame ==
  ASSUME NEW listed, IsFiniteSet(DOMAIN listed), NEW commence
  PROVE  /\ MatchGame(listed, commence) \in DOMAIN listed \cup {Nobody, Ambiguous}
         /\ \A pk \in DOMAIN listed :
               Apart(listed[pk], commence) <= Tolerance =>
                  MatchGame(listed, commence) \in {pk, Ambiguous}
<1> DEFINE near == Within(listed, commence)
<1>1. near \subseteq DOMAIN listed
  BY DEF Within
<1>2. IsFiniteSet(near) /\ Cardinality(near) \in Nat
  BY <1>1, FS_Subset, FS_CardinalityType
<1>3. CASE near = {}
  BY <1>3 DEF MatchGame, Within
<1>4. CASE Cardinality(near) > 1
  BY <1>2, <1>4, FS_EmptySet DEF MatchGame
<1>5. CASE near # {} /\ ~(Cardinality(near) > 1)
  <2>1. MatchGame(listed, commence) = CHOOSE pk \in near : TRUE
    BY <1>5 DEF MatchGame
  <2>2. Cardinality(near) = 1
    BY <1>2, <1>5, FS_EmptySet
  <2>3. PICK pk : near = {pk}
    BY <1>2, <2>2, FS_Singleton
  <2>4. MatchGame(listed, commence) = pk
    BY <2>1, <2>3
  <2>5. QED BY <1>1, <2>3, <2>4 DEF Within
<1>6. QED BY <1>3, <1>4, <1>5

\* An event that resolves is matched to a game of the slate, and to its own while
\* no game has moved.
LEMMA OutcomeForm ==
  ASSUME TypeOK, ScheduleSound, NEW w \in Workers, EnvelopeSound(capture[w]),
         NEW g \in Games, Outcome(w, g) # Nobody, Outcome(w, g) # Ambiguous
  PROVE  /\ Outcome(w, g) \in Games
         /\ actual = FirstStarts => Outcome(w, g) = g
<1> DEFINE at == capture[w].starts[g]
<1>1. /\ Outcome(w, g) = MatchGame(Schedule, at)
      /\ DOMAIN Schedule = Listed /\ Listed \subseteq Games
  BY DEF Outcome, Schedule, Listed
<1>2. IsFiniteSet(DOMAIN Schedule)
  BY <1>1, FS_Subset, CapturesAssumption
<1>3. Outcome(w, g) \in Listed
  BY <1>1, <1>2, NeverAnotherGame
<1>4. ASSUME actual = FirstStarts PROVE Outcome(w, g) = g
  <2>1. /\ capture[w].starts \in [Games -> 0..MaxStart]
        /\ FirstStarts[g] \in 0..MaxStart /\ MaxStart \in Nat
    BY CapturesAssumption DEF EnvelopeSound, Envelope
  <2>2. at = FirstStarts[g]
    BY <1>4, <2>1 DEF EnvelopeSound, ToldBefore
  <2>3. g \in Listed /\ ToldBefore(games)
    BY <1>3 DEF ScheduleSound, Listed
  <2>4. games[g] \in 0..MaxStart
    BY <2>3 DEF TypeOK, Listed
  <2>5. Schedule[g] = FirstStarts[g]
    BY <1>4, <2>1, <2>3, <2>4 DEF ToldBefore, Schedule
  <2>6. Apart(Schedule[g], at) <= Tolerance
    BY <2>1, <2>2, <2>5, MatchingAssumption DEF Apart
  <2>7. QED BY <1>1, <1>2, <2>3, <2>6, NeverAnotherGame
<1>5. QED BY <1>1, <1>3, <1>4

\* While nobody announces a change, what a process was told stays as good.
LEMMA StillTold ==
  ASSUME UNCHANGED actual
  PROVE  /\ \A e : EnvelopeSound(e)' <=> EnvelopeSound(e)
         /\ \A r : RowSound(r)' <=> RowSound(r)
         /\ \A starts : ToldBefore(starts)' <=> ToldBefore(starts)
  BY DEF EnvelopeSound, RowSound, ToldBefore

\* The schedule is sound as long as nobody changes it.
LEMMA ScheduleKept ==
  ASSUME IInv, UNCHANGED world
  PROVE  ScheduleSound'
  BY DEF IInv, ScheduleSound, ToldBefore, world

\* A process that goes on without touching any row.
LEMMA RowsKept ==
  ASSUME IInv, UNCHANGED <<actual, table, rows, inserted>>,
         NEW w \in Workers, NEW to, pc' = [pc EXCEPT ![w] = to],
         pc[w] \notin {"parsed", "stored", "next"} \/ (pc[w] = "stored" /\ to = "next")
  PROVE  RowsSound' /\ TransactionsSound' /\ SuccessHasItsRows' /\ CountsAddUp'
<1>1. UNCHANGED <<actual, snapshots, reported, claimed, rows, inserted>>
  BY DEF table
<1>2. pc'[w] = to /\ \A v \in Workers \ {w} : pc'[v] = pc[v]
  BY DEF IInv, TypeOK
<1>3. RowsSound'
  BY <1>1, StillTold DEF IInv, RowsSound
<1>4. SuccessHasItsRows' /\ CountsAddUp'
  BY <1>1 DEF IInv, SuccessHasItsRows, CountsAddUp, Keys, Key
<1>5. TransactionsSound'
  <2>1. \A S : Keys(S)' = Keys(S)
    BY DEF Keys, Key
  <2>2. Keys({}) = {}
    BY DEF Keys
  <2>3. ASSUME NEW v \in Workers
        PROVE  /\ pc'[v] \notin {"parsed", "stored", "next"} => rows[v] = {}
               /\ pc'[v] \notin {"stored", "next"} => inserted[v] = {}
               /\ pc'[v] \in {"stored", "next"} =>
                     Keys(rows[v]) \subseteq Keys(snapshots \cup inserted[v])
    BY <1>2, <2>2 DEF IInv, TransactionsSound
  <2>4. QED BY <1>1, <2>1, <2>3 DEF IInv, TransactionsSound, Keys, Key
<1>6. QED BY <1>3, <1>4, <1>5

\* Where Leave puts a process.
LEMMA LeaveForm ==
  ASSUME TypeOK, NEW w \in Workers, Leave(w)
  PROVE  /\ pc' \in [Workers -> {"idle", "response", "writing", "captured", "next",
                                 "read", "parsed", "stored"}]
         /\ file' \in [Workers -> Seconds \cup {Nothing}]
         /\ queue' \in [Workers -> SUBSET Seconds]
         /\ capture' \in [Workers -> Envelope \cup {Nothing}]
         /\ rows' \in [Workers -> SUBSET Snapshot]
         /\ inserted' \in [Workers -> SUBSET Snapshot]
         /\ pc'[w] = "idle" /\ queue'[w] = {} /\ rows'[w] = {} /\ inserted'[w] = {}
         /\ \A v \in Workers \ {w} :
               /\ pc'[v] = pc[v] /\ file'[v] = file[v] /\ queue'[v] = queue[v]
               /\ capture'[v] = capture[v] /\ rows'[v] = rows[v]
               /\ inserted'[v] = inserted[v]
  BY DEF TypeOK, Leave

\* A process that ends leaves the files and the others as they are.
LEMMA HandsLeft ==
  ASSUME IInv, NEW w \in Workers, Leave(w), UNCHANGED <<world, disk>>
  PROVE  FilesSound' /\ HandsSound' /\ ScheduleSound'
<1>1. TypeOK /\ UNCHANGED actual
  BY DEF IInv, world
<1>2. /\ pc'[w] = "idle" /\ queue'[w] = {}
      /\ \A v \in Workers \ {w} :
            /\ pc'[v] = pc[v] /\ file'[v] = file[v] /\ queue'[v] = queue[v]
            /\ capture'[v] = capture[v]
  BY <1>1, LeaveForm
<1>3. FilesSound'
  BY <1>1, StillTold DEF IInv, FilesSound
<1>4. HandsSound'
  BY <1>1, <1>2, StillTold DEF IInv, HandsSound
<1>5. QED BY <1>3, <1>4, ScheduleKept

\* One that ends without committing leaves the table as it is.
LEMMA LeaveStep ==
  ASSUME IInv, NEW w \in Workers, Leave(w), UNCHANGED <<world, made, disk, table>>
  PROVE  IInv'
<1>1. /\ TypeOK
      /\ UNCHANGED <<second, actual, games, fetched, made, disk, snapshots, reported, claimed>>
  BY DEF IInv, world, table
<1>2. /\ pc'[w] = "idle" /\ rows'[w] = {} /\ inserted'[w] = {}
      /\ \A v \in Workers \ {w} : /\ pc'[v] = pc[v] /\ rows'[v] = rows[v]
                                  /\ inserted'[v] = inserted[v]
  BY <1>1, LeaveForm
<1>3. TypeOK'
  BY <1>1, LeaveForm DEF TypeOK
<1>4. RowsSound' /\ SuccessHasItsRows' /\ CountsAddUp'
  BY <1>1, <1>2, StillTold DEF IInv, RowsSound, SuccessHasItsRows, CountsAddUp, Keys, Key
<1>5. TransactionsSound'
  <2>1. Keys({}) = {}
    BY DEF Keys
  <2>2. IsFiniteSet({})
    BY FS_EmptySet
  <2>3. \A S : Keys(S)' = Keys(S)
    BY DEF Keys, Key
  <2>4. ASSUME NEW v \in Workers
        PROVE  /\ IsFiniteSet(rows'[v]) /\ inserted'[v] \subseteq rows'[v]
               /\ pc'[v] \notin {"parsed", "stored", "next"} => rows'[v] = {}
               /\ pc'[v] \notin {"stored", "next"} => inserted'[v] = {}
               /\ Keys(inserted'[v]) \cap Keys(snapshots) = {}
               /\ pc'[v] \in {"stored", "next"} =>
                     Keys(rows'[v]) \subseteq Keys(snapshots \cup inserted'[v])
    <3>1. CASE v = w
      BY <1>2, <2>1, <2>2, <3>1
    <3>2. CASE v # w
      BY <1>2, <3>2 DEF IInv, TransactionsSound
    <3>3. QED BY <3>1, <3>2
  <2>5. ASSUME NEW u \in Workers, NEW v \in Workers, u # v
        PROVE  Keys(inserted'[u]) \cap Keys(inserted'[v]) = {}
    <3>1. CASE u = w \/ v = w
      BY <1>2, <2>1, <3>1
    <3>2. CASE u # w /\ v # w
      BY <1>2, <2>5, <3>2 DEF IInv, TransactionsSound
    <3>3. QED BY <3>1, <3>2
  <2>6. IsFiniteSet(snapshots')
    BY <1>1 DEF IInv, TransactionsSound
  <2>7. QED BY <1>1, <2>3, <2>4, <2>5, <2>6 DEF TransactionsSound, Keys, Key
<1>6. QED BY <1>3, <1>4, <1>5, HandsLeft DEF IInv
-----------------------------------------------------------------------------
\* What is to be shown of the hands of every process, as long as no game moves.
LEMMA HandsForm ==
  ASSUME UNCHANGED actual,
         \A v \in Workers :
            /\ pc'[v] \in {"response", "writing", "read", "parsed"} => EnvelopeSound(capture'[v])
            /\ pc'[v] \in {"writing", "captured"} =>
                  file'[v] \in Seconds /\ disk'[file'[v]] # NoFile
            /\ \A s \in queue'[v] : disk'[s] # NoFile
  PROVE  HandsSound'
  BY DEF HandsSound, EnvelopeSound, ToldBefore

\* The file that is next to be replayed is one that exists.
LEMMA NextFile ==
  ASSUME IInv, NEW w \in Workers, NEW s \in Seconds, IsNext(w, s), disk[s] # Torn
  PROVE  EnvelopeSound(disk[s])
<1>1. disk[s] # NoFile
  BY DEF IInv, HandsSound, IsNext
<1>2. QED BY <1>1 DEF IInv, FilesSound

\* The request is answered: captured_at and the events are of one response.
LEMMA RequestStep ==
  ASSUME IInv, NEW w \in Workers, Request(w)
  PROVE  IInv'
<1>1. PICK renamed \in BOOLEAN : capture' = [capture EXCEPT ![w] =
             [at |-> made', body |-> made', starts |-> actual, renamed |-> renamed]]
  BY DEF Request
<1>2. /\ pc[w] = "idle" /\ pc' = [pc EXCEPT ![w] = "response"]
      /\ made < MaxResponses /\ made' = made + 1
      /\ UNCHANGED <<second, actual, games, fetched, disk, table, snapshots, reported,
                     claimed, file, queue, rows, inserted>>
      /\ UNCHANGED world
  BY DEF Request, Goto, world, table
<1>3. TypeOK
  BY DEF IInv
<1> DEFINE e == [at |-> made', body |-> made', starts |-> actual, renamed |-> renamed]
<1>4. made' \in 1..MaxResponses
  BY <1>2, <1>3, CapturesAssumption DEF TypeOK
<1>5. e \in Envelope /\ e.at = e.body /\ e.starts = actual
  BY <1>3, <1>4 DEF TypeOK, Envelope
<1>6. EnvelopeSound(e)
  BY <1>5 DEF EnvelopeSound, IInv, ScheduleSound
<1> HIDE DEF e
<1>7. capture' = [capture EXCEPT ![w] = e]
  BY <1>1 DEF e
<1>8. TypeOK'
  BY <1>2, <1>3, <1>4, <1>5, <1>7 DEF TypeOK
<1>9. FilesSound'
  BY <1>2, StillTold DEF IInv, FilesSound
<1>10. HandsSound'
  <2>1. /\ pc'[w] = "response" /\ capture'[w] = e
        /\ \A v \in Workers \ {w} : pc'[v] = pc[v] /\ capture'[v] = capture[v]
    BY <1>2, <1>3, <1>7 DEF TypeOK
  <2>2. ASSUME NEW v \in Workers, pc'[v] \in {"response", "writing", "read", "parsed"}
        PROVE  EnvelopeSound(capture'[v])
    BY <1>2, <1>6, <2>1, <2>2 DEF IInv, HandsSound
  <2>3. ASSUME NEW v \in Workers
        PROVE  /\ pc'[v] \in {"writing", "captured"} =>
                     file'[v] \in Seconds /\ disk'[file'[v]] # NoFile
               /\ \A s \in queue'[v] : disk'[s] # NoFile
    BY <1>2, <2>1 DEF IInv, HandsSound
  <2>4. QED BY <1>2, <2>2, <2>3, HandsForm
<1>11. QED BY <1>2, <1>8, <1>9, <1>10, ScheduleKept, RowsKept DEF IInv

\* A file is emptied, ...
LEMMA OpenFileStep ==
  ASSUME IInv, NEW w \in Workers, OpenFile(w)
  PROVE  IInv'
<1>1. /\ pc[w] = "response" /\ pc' = [pc EXCEPT ![w] = "writing"]
      /\ disk' = [disk EXCEPT ![second] = Torn]
      /\ file' = [file EXCEPT ![w] = second]
      /\ UNCHANGED <<actual, table, snapshots, reported, claimed, queue, capture,
                     rows, inserted, made>>
      /\ UNCHANGED world
  BY DEF OpenFile, Goto, world, table
<1>2. TypeOK /\ second \in Seconds
  BY DEF IInv, TypeOK
<1>3. TypeOK'
  BY <1>1, <1>2 DEF TypeOK, world
<1>4. disk'[second] = Torn /\ \A s \in Seconds : s # second => disk'[s] = disk[s]
  BY <1>1, <1>2 DEF TypeOK
<1>5. FilesSound'
  BY <1>1, <1>4, StillTold DEF IInv, FilesSound
<1>6. HandsSound'
  <2>1. /\ pc'[w] = "writing" /\ file'[w] = second
        /\ \A v \in Workers \ {w} : pc'[v] = pc[v] /\ file'[v] = file[v]
    BY <1>1, <1>2 DEF TypeOK
  <2>2. \A s \in Seconds : disk[s] # NoFile => disk'[s] # NoFile
    BY <1>4, FilesAssumption
  <2>3. ASSUME NEW v \in Workers
        PROVE  /\ pc'[v] \in {"response", "writing", "read", "parsed"} =>
                     EnvelopeSound(capture'[v])
               /\ pc'[v] \in {"writing", "captured"} =>
                     file'[v] \in Seconds /\ disk'[file'[v]] # NoFile
               /\ \A s \in queue'[v] : disk'[s] # NoFile
    <3>1. queue[v] \subseteq Seconds
      BY <1>2 DEF TypeOK
    <3>2. pc'[v] \in {"response", "writing", "read", "parsed"} => EnvelopeSound(capture'[v])
      BY <1>1, <2>1 DEF IInv, HandsSound
    <3>3. pc'[v] \in {"writing", "captured"} => file'[v] \in Seconds /\ disk'[file'[v]] # NoFile
      BY <1>2, <1>4, <2>1, <2>2, FilesAssumption DEF IInv, HandsSound
    <3>4. \A s \in queue'[v] : disk'[s] # NoFile
      BY <1>1, <2>2, <3>1 DEF IInv, HandsSound
    <3>5. QED BY <3>2, <3>3, <3>4
  <2>4. QED BY <1>1, <2>3, HandsForm
<1>7. QED BY <1>1, <1>3, <1>5, <1>6, ScheduleKept, RowsKept DEF IInv

\* ... and holds a whole capture, or the remains of two, once it is written.
LEMMA WriteStep ==
  ASSUME IInv, NEW w \in Workers, WriteCapture(w)
  PROVE  IInv'
<1>1. /\ pc[w] = "writing" /\ pc' = [pc EXCEPT ![w] = "captured"]
      /\ UNCHANGED <<actual, table, snapshots, reported, claimed, queue, capture, file,
                     rows, inserted, made>>
      /\ UNCHANGED world
  BY DEF WriteCapture, Goto, world, table
<1>2. PICK content \in {capture[w], Torn} : disk' = [disk EXCEPT ![file[w]] = content]
  BY DEF WriteCapture
<1>3. TypeOK /\ file[w] \in Seconds /\ EnvelopeSound(capture[w])
  BY <1>1 DEF IInv, HandsSound
<1>4. /\ content \in Envelope \cup {Torn} /\ content # NoFile
      /\ content = Torn \/ EnvelopeSound(content)
  BY <1>3, FilesAssumption DEF EnvelopeSound
<1>5. TypeOK'
  BY <1>1, <1>2, <1>3, <1>4 DEF TypeOK, world
<1>6. disk'[file[w]] = content /\ \A s \in Seconds : s # file[w] => disk'[s] = disk[s]
  BY <1>2, <1>3 DEF TypeOK
<1>7. FilesSound'
  BY <1>1, <1>4, <1>6, StillTold DEF IInv, FilesSound
<1>8. HandsSound'
  <2>1. pc'[w] = "captured" /\ \A v \in Workers \ {w} : pc'[v] = pc[v]
    BY <1>1, <1>3 DEF TypeOK
  <2>2. \A s \in Seconds : disk[s] # NoFile => disk'[s] # NoFile
    BY <1>4, <1>6
  <2>3. ASSUME NEW v \in Workers
        PROVE  /\ pc'[v] \in {"response", "writing", "read", "parsed"} =>
                     EnvelopeSound(capture'[v])
               /\ pc'[v] \in {"writing", "captured"} =>
                     file'[v] \in Seconds /\ disk'[file'[v]] # NoFile
               /\ \A s \in queue'[v] : disk'[s] # NoFile
    <3>1. queue[v] \subseteq Seconds
      BY <1>3 DEF TypeOK
    <3>2. pc'[v] \in {"response", "writing", "read", "parsed"} => EnvelopeSound(capture'[v])
      BY <1>1, <2>1 DEF IInv, HandsSound
    <3>3. pc'[v] \in {"writing", "captured"} => file'[v] \in Seconds /\ disk'[file'[v]] # NoFile
      BY <1>1, <1>3, <1>4, <1>6, <2>1, <2>2 DEF IInv, HandsSound
    <3>4. \A s \in queue'[v] : disk'[s] # NoFile
      BY <1>1, <2>2, <3>1 DEF IInv, HandsSound
    <3>5. QED BY <3>2, <3>3, <3>4
  <2>4. QED BY <1>1, <2>3, HandsForm
<1>9. QED BY <1>1, <1>5, <1>7, <1>8, ScheduleKept, RowsKept DEF IInv

\* Reading back, globbing and flushing leave the disk and every row as they are.
LEMMA ReadStep ==
  ASSUME IInv, NEW w \in Workers, ReadBack(w) \/ Glob(w) \/ FlushReplay(w)
  PROVE  IInv'
<1>1. TypeOK
  BY DEF IInv
<1>2. /\ UNCHANGED <<actual, table, snapshots, reported, claimed, disk, file,
                     rows, inserted, made>>
      /\ UNCHANGED world
  BY DEF ReadBack, Glob, FlushReplay, world, table
<1>3. PICK to \in {"read", "next"} :
         /\ pc' = [pc EXCEPT ![w] = to]
         /\ pc[w] \notin {"parsed", "stored", "next"} \/ (pc[w] = "stored" /\ to = "next")
         /\ to = "read" => /\ queue' = queue /\ EnvelopeSound(disk[file[w]])
                           /\ capture' = [capture EXCEPT ![w] = disk[file[w]]]
         /\ to = "next" => /\ \/ queue' = queue
                              \/ queue' = [queue EXCEPT ![w] = {s \in Seconds : disk[s] # NoFile}]
                           /\ \/ capture' = capture
                              \/ capture' = [capture EXCEPT ![w] = Nothing]
  <2>1. CASE ReadBack(w)
    <3>1. EnvelopeSound(disk[file[w]])
      BY <2>1 DEF ReadBack, Goto, IInv, HandsSound, FilesSound
    <3>2. QED BY <2>1, <3>1 DEF ReadBack, Goto
  <2>2. CASE Glob(w)
    BY <2>2 DEF Glob, Goto
  <2>3. CASE FlushReplay(w)
    BY <2>3 DEF FlushReplay, Goto
  <2>4. QED BY <2>1, <2>2, <2>3
<1>4. /\ pc'[w] = to
      /\ \A v \in Workers \ {w} : /\ pc'[v] = pc[v] /\ capture'[v] = capture[v]
                                  /\ queue'[v] = queue[v]
      /\ \A s \in queue'[w] : disk[s] # NoFile
      /\ to = "read" => EnvelopeSound(capture'[w])
  BY <1>1, <1>3 DEF TypeOK, IInv, HandsSound
<1>5. TypeOK'
  <2>1. capture' \in [Workers -> Envelope \cup {Nothing}]
    BY <1>1, <1>3 DEF TypeOK, EnvelopeSound
  <2>2. queue' \in [Workers -> SUBSET Seconds]
    BY <1>1, <1>3 DEF TypeOK
  <2>3. QED BY <1>1, <1>2, <1>3, <2>1, <2>2 DEF TypeOK, world
<1>6. FilesSound'
  BY <1>2, StillTold DEF IInv, FilesSound
<1>7. HandsSound'
  <2>1. ASSUME NEW v \in Workers, pc'[v] \in {"response", "writing", "read", "parsed"}
        PROVE  EnvelopeSound(capture'[v])
    BY <1>2, <1>4, <2>1 DEF IInv, HandsSound
  <2>2. ASSUME NEW v \in Workers
        PROVE  /\ pc'[v] \in {"writing", "captured"} =>
                     file'[v] \in Seconds /\ disk'[file'[v]] # NoFile
               /\ \A s \in queue'[v] : disk'[s] # NoFile
    BY <1>2, <1>4 DEF IInv, HandsSound
  <2>3. QED BY <1>2, <2>1, <2>2, HandsForm
<1>8. QED BY <1>2, <1>3, <1>5, <1>6, <1>7, ScheduleKept, RowsKept DEF IInv
-----------------------------------------------------------------------------
\* What the table holds once a run's transaction has committed: the rows it
\* inserted are new, and every row it parsed is there.
LEMMA CommitForm ==
  ASSUME IInv, NEW w \in Workers, CommitRun(w), UNCHANGED actual,
         pc[w] \in {"stored", "next"}
  PROVE  /\ snapshots' \subseteq Snapshot /\ claimed' \subseteq Snapshot
         /\ reported' \in Nat /\ IsFiniteSet(snapshots')
         /\ Keys(snapshots') = Keys(snapshots) \cup Keys(inserted[w])
         /\ \A r \in snapshots' : RowSound(r)'
         /\ SuccessHasItsRows' /\ CountsAddUp'
<1>1. /\ snapshots' = snapshots \cup inserted[w]
      /\ reported' = reported + Cardinality(inserted[w])
      /\ claimed' = claimed \cup rows[w]
  BY DEF CommitRun
<1>2. /\ TypeOK /\ rows[w] \subseteq Snapshot /\ inserted[w] \subseteq rows[w]
      /\ IsFiniteSet(rows[w]) /\ IsFiniteSet(snapshots)
      /\ Keys(inserted[w]) \cap Keys(snapshots) = {}
      /\ Keys(rows[w]) \subseteq Keys(snapshots \cup inserted[w])
  BY DEF IInv, TypeOK, TransactionsSound
<1>3. IsFiniteSet(inserted[w]) /\ Cardinality(inserted[w]) \in Nat
  BY <1>2, FS_Subset, FS_CardinalityType
<1>4. IsFiniteSet(snapshots') /\ reported' \in Nat
  <2>1. IsFiniteSet(snapshots \cup inserted[w])
    BY <1>2, <1>3, FS_Union
  <2>2. reported \in Nat
    BY <1>2 DEF TypeOK
  <2>3. QED BY <1>1, <1>3, <2>1, <2>2
<1>5. Keys(snapshots') = Keys(snapshots) \cup Keys(inserted[w])
  BY <1>1 DEF Keys
<1>6. \A r \in snapshots' : RowSound(r)'
  <2>1. \A r \in snapshots' : RowSound(r)
    BY <1>1, <1>2 DEF IInv, RowsSound
  <2>2. QED BY <2>1, StillTold
<1>7. SuccessHasItsRows'
  <2>1. \A r \in claimed : Key(r) \in Keys(snapshots')
    BY <1>5 DEF IInv, SuccessHasItsRows
  <2>2. \A r \in rows[w] : Key(r) \in Keys(snapshots')
    BY <1>1, <1>2 DEF Keys
  <2>3. \A r \in claimed' : Key(r) \in Keys(snapshots')
    BY <1>1, <2>1, <2>2
  <2>4. QED BY <2>3 DEF SuccessHasItsRows, Keys, Key
<1>8. CountsAddUp'
  <2>1. snapshots \cap inserted[w] = {}
    BY <1>2 DEF Keys
  <2>2. Cardinality(snapshots') = Cardinality(snapshots) + Cardinality(inserted[w])
    <3>1. Cardinality(snapshots \cup inserted[w]) =
             Cardinality(snapshots) + Cardinality(inserted[w])
                - Cardinality(snapshots \cap inserted[w])
      BY <1>2, <1>3, FS_Union
    <3>2. Cardinality(snapshots \cap inserted[w]) = 0
      BY <2>1, FS_EmptySet
    <3>3. Cardinality(snapshots) \in Nat
      BY <1>2, FS_CardinalityType
    <3>4. QED BY <1>1, <1>3, <3>1, <3>2, <3>3
  <2>3. QED BY <1>1, <2>2 DEF IInv, CountsAddUp
<1>9. QED BY <1>1, <1>2, <1>4, <1>5, <1>6, <1>7, <1>8 DEF TypeOK

\* What remains to be shown of the open transactions when one commits and drops
\* its rows: the keys it had are now the table's, and nobody else's.
LEMMA CommitStep ==
  ASSUME IInv, NEW w \in Workers, CommitRun(w), UNCHANGED actual,
         pc[w] \in {"stored", "next"}, pc'[w] \notin {"parsed", "stored"},
         rows'[w] = {}, inserted'[w] = {},
         \A v \in Workers \ {w} : /\ pc'[v] = pc[v] /\ rows'[v] = rows[v]
                                  /\ inserted'[v] = inserted[v]
  PROVE  RowsSound' /\ TransactionsSound' /\ SuccessHasItsRows' /\ CountsAddUp'
<1>1. /\ IsFiniteSet(snapshots')
      /\ Keys(snapshots') = Keys(snapshots) \cup Keys(inserted[w])
      /\ \A r \in snapshots' : RowSound(r)'
      /\ SuccessHasItsRows' /\ CountsAddUp'
  BY CommitForm
<1>2. Keys({}) = {} /\ \A S, T : Keys(S \cup T) = Keys(S) \cup Keys(T)
  BY DEF Keys
<1>3. RowsSound'
  <2>1. \A v \in Workers : \A r \in rows'[v] : RowSound(r)
    BY DEF IInv, RowsSound
  <2>2. QED BY <1>1, <2>1, StillTold DEF RowsSound
<1>4. ASSUME NEW v \in Workers
      PROVE  /\ IsFiniteSet(rows'[v]) /\ inserted'[v] \subseteq rows'[v]
             /\ pc'[v] \notin {"parsed", "stored", "next"} => rows'[v] = {}
             /\ pc'[v] \notin {"stored", "next"} => inserted'[v] = {}
             /\ Keys(inserted'[v]) \cap Keys(snapshots') = {}
             /\ pc'[v] \in {"stored", "next"} =>
                   Keys(rows'[v]) \subseteq Keys(snapshots' \cup inserted'[v])
  <2>1. CASE v = w
    BY <1>2, <2>1, FS_EmptySet
  <2>2. CASE v # w
    <3>1. Keys(inserted[v]) \cap Keys(inserted[w]) = {}
      BY <2>2 DEF IInv, TransactionsSound
    <3>2. Keys(inserted[v]) \cap Keys(snapshots) = {}
      BY DEF IInv, TransactionsSound
    <3>3. pc[v] \in {"stored", "next"} =>
             Keys(rows[v]) \subseteq Keys(snapshots) \cup Keys(inserted[v])
      <4>1. pc[v] \in {"stored", "next"} =>
               Keys(rows[v]) \subseteq Keys(snapshots \cup inserted[v])
        BY DEF IInv, TransactionsSound
      <4>2. QED BY <1>2, <4>1
    <3>4. Keys(inserted'[v]) \cap Keys(snapshots') = {}
      BY <1>1, <2>2, <3>1, <3>2
    <3>5. pc'[v] \in {"stored", "next"} =>
             Keys(rows'[v]) \subseteq Keys(snapshots' \cup inserted'[v])
      BY <1>1, <1>2, <2>2, <3>3
    <3>6. QED BY <2>2, <3>4, <3>5 DEF IInv, TransactionsSound
  <2>3. QED BY <2>1, <2>2
<1>5. \A u, v \in Workers : u # v => Keys(inserted'[u]) \cap Keys(inserted'[v]) = {}
  BY <1>2 DEF IInv, TransactionsSound
<1>6. TransactionsSound'
  BY <1>1, <1>4, <1>5 DEF TransactionsSound, Keys, Key
<1>7. QED BY <1>1, <1>3, <1>6

\* session_scope commits and the process is done.
LEMMA CommitAndLeave ==
  ASSUME IInv, NEW w \in Workers, CommitRun(w), Leave(w), pc[w] \in {"stored", "next"},
         UNCHANGED <<world, made, disk>>
  PROVE  IInv'
<1>1. TypeOK /\ UNCHANGED <<second, actual, games, fetched, made, disk>>
  BY DEF IInv, world
<1>2. snapshots' \subseteq Snapshot /\ claimed' \subseteq Snapshot /\ reported' \in Nat
  BY <1>1, CommitForm
<1>3. TypeOK'
  BY <1>1, <1>2, LeaveForm DEF TypeOK
<1>4. RowsSound' /\ TransactionsSound' /\ SuccessHasItsRows' /\ CountsAddUp'
  <2>1. /\ pc'[w] = "idle" /\ rows'[w] = {} /\ inserted'[w] = {}
        /\ \A v \in Workers \ {w} : /\ pc'[v] = pc[v] /\ rows'[v] = rows[v]
                                    /\ inserted'[v] = inserted[v]
    BY <1>1, LeaveForm
  <2>2. QED BY <1>1, <2>1, CommitStep
<1>5. QED BY <1>3, <1>4, HandsLeft DEF IInv

\* The next capture's run commits the previous one's rows.
LEMMA OpenCaptureStep ==
  ASSUME IInv, NEW w \in Workers, OpenCapture(w)
  PROVE  IInv'
<1>1. PICK s \in Seconds : /\ IsNext(w, s) /\ disk[s] # Torn
                           /\ capture' = [capture EXCEPT ![w] = disk[s]]
                           /\ queue' = [queue EXCEPT ![w] = @ \ {s}]
  BY DEF OpenCapture
<1>2. /\ pc[w] = "next" /\ pc' = [pc EXCEPT ![w] = "read"]
      /\ CommitRun(w)
      /\ rows' = [rows EXCEPT ![w] = {}]
      /\ inserted' = [inserted EXCEPT ![w] = {}]
      /\ UNCHANGED <<second, actual, games, fetched, made, disk, file>>
      /\ UNCHANGED world
  BY DEF OpenCapture, Goto, world
<1>3. TypeOK
  BY DEF IInv
<1>4. EnvelopeSound(disk[s])
  BY <1>1, NextFile
<1>5. /\ pc'[w] = "read" /\ rows'[w] = {} /\ inserted'[w] = {}
      /\ \A v \in Workers \ {w} : /\ pc'[v] = pc[v] /\ rows'[v] = rows[v]
                                  /\ inserted'[v] = inserted[v]
  BY <1>2, <1>3 DEF TypeOK
<1>6. /\ capture'[w] = disk[s] /\ queue'[w] \subseteq queue[w]
      /\ \A v \in Workers \ {w} : capture'[v] = capture[v] /\ queue'[v] = queue[v]
  BY <1>1, <1>3 DEF TypeOK
<1>7. TypeOK'
  <2>1. snapshots' \subseteq Snapshot /\ claimed' \subseteq Snapshot /\ reported' \in Nat
    BY <1>2, CommitForm
  <2>2. capture' \in [Workers -> Envelope \cup {Nothing}]
    BY <1>1, <1>3, <1>4 DEF TypeOK, EnvelopeSound
  <2>3. queue' \in [Workers -> SUBSET Seconds]
    BY <1>1, <1>3 DEF TypeOK
  <2>4. /\ pc' \in [Workers -> {"idle", "response", "writing", "captured", "next",
                                "read", "parsed", "stored"}]
        /\ rows' \in [Workers -> SUBSET Snapshot]
        /\ inserted' \in [Workers -> SUBSET Snapshot]
    BY <1>2, <1>3 DEF TypeOK
  <2>5. QED BY <1>2, <1>3, <2>1, <2>2, <2>3, <2>4 DEF TypeOK
<1>8. FilesSound'
  BY <1>2, StillTold DEF IInv, FilesSound
<1>9. HandsSound'
  <2>1. ASSUME NEW v \in Workers, pc'[v] \in {"response", "writing", "read", "parsed"}
        PROVE  EnvelopeSound(capture'[v])
    BY <1>4, <1>5, <1>6, <2>1 DEF IInv, HandsSound
  <2>2. ASSUME NEW v \in Workers
        PROVE  /\ pc'[v] \in {"writing", "captured"} =>
                     file'[v] \in Seconds /\ disk'[file'[v]] # NoFile
               /\ \A t \in queue'[v] : disk'[t] # NoFile
    BY <1>2, <1>5, <1>6 DEF IInv, HandsSound
  <2>3. QED BY <1>2, <2>1, <2>2, HandsForm
<1>10. QED BY <1>2, <1>5, <1>7, <1>8, <1>9, CommitStep, ScheduleKept DEF IInv
-----------------------------------------------------------------------------
\* A capture that does not parse leaves its transaction without rows.
LEMMA ParseFailsStep ==
  ASSUME IInv, NEW w \in Workers, ParseFails(w)
  PROVE  IInv'
<1>1. CASE Leave(w)
  BY <1>1, LeaveStep DEF ParseFails
<1>2. CASE /\ pc' = [pc EXCEPT ![w] = "next"]
           /\ capture' = [capture EXCEPT ![w] = Nothing]
           /\ UNCHANGED <<file, queue, rows, inserted>>
  <2>1. /\ TypeOK /\ pc[w] = "read"
        /\ UNCHANGED <<second, actual, games, fetched, made, disk, snapshots, reported, claimed>>
        /\ UNCHANGED <<world, table>>
    BY DEF IInv, ParseFails, world, table
  <2>2. TypeOK'
    BY <1>2, <2>1 DEF TypeOK
  <2>3. FilesSound'
    BY <2>1, StillTold DEF IInv, FilesSound
  <2>4. HandsSound'
    <3>1. /\ pc'[w] = "next"
          /\ \A v \in Workers \ {w} : pc'[v] = pc[v] /\ capture'[v] = capture[v]
      BY <1>2, <2>1 DEF TypeOK
    <3>2. ASSUME NEW v \in Workers
          PROVE  /\ pc'[v] \in {"response", "writing", "read", "parsed"} =>
                       EnvelopeSound(capture'[v])
                 /\ pc'[v] \in {"writing", "captured"} =>
                       file'[v] \in Seconds /\ disk'[file'[v]] # NoFile
                 /\ \A s \in queue'[v] : disk'[s] # NoFile
      BY <1>2, <2>1, <3>1 DEF IInv, HandsSound
    <3>3. QED BY <2>1, <3>2, HandsForm
  <2>5. RowsSound' /\ TransactionsSound' /\ SuccessHasItsRows' /\ CountsAddUp'
    BY <1>2, <2>1, RowsKept
  <2>6. QED BY <2>1, <2>2, <2>3, <2>4, <2>5, ScheduleKept DEF IInv
<1>3. QED BY <1>1, <1>2 DEF ParseFails

\* What is parsed is finitely many rows, each with the timestamp of its response.
LEMMA ParsedRows ==
  ASSUME IInv, NEW w \in Workers, Parse(w)
  PROVE  /\ IsFiniteSet(rows'[w]) /\ rows'[w] \subseteq Snapshot
         /\ \A r \in rows'[w] : RowSound(r)
<1> DEFINE D == {h \in Games : Outcome(w, h) # Nobody}
           row == [g \in D |-> [event |-> g, body |-> capture[w].body,
                                pk |-> Outcome(w, g), at |-> capture[w].at]]
<1>1. TypeOK /\ ScheduleSound /\ pc[w] = "read" /\ EnvelopeSound(capture[w])
  BY DEF Parse, Goto, IInv, HandsSound
<1>2. rows'[w] = {row[g] : g \in D}
  BY <1>1 DEF Parse, TypeOK
<1>3. IsFiniteSet(D)
  BY FS_Subset, CapturesAssumption
<1>4. ASSUME NEW g \in D
      PROVE  row[g] \in Snapshot /\ RowSound(row[g])
  <2>1. Outcome(w, g) # Nobody /\ Outcome(w, g) # Ambiguous
    BY DEF Parse, ParseRaises
  <2>2. Outcome(w, g) \in Games /\ (actual = FirstStarts => Outcome(w, g) = g)
    BY <1>1, <2>1, OutcomeForm
  <2>3. capture[w] \in Envelope /\ capture[w].at = capture[w].body
    BY <1>1 DEF EnvelopeSound
  <2>4. capture[w].at \in 1..MaxResponses
    BY <2>3 DEF Envelope
  <2>5. row[g] = [event |-> g, body |-> capture[w].body,
                  pk |-> Outcome(w, g), at |-> capture[w].at]
    OBVIOUS
  <2>6. row[g] \in Snapshot
    BY <2>2, <2>3, <2>4, <2>5 DEF Snapshot
  <2>7. RowSound(row[g])
    BY <2>2, <2>3, <2>5 DEF RowSound
  <2>8. QED BY <2>6, <2>7
<1> HIDE DEF row, D
<1>5. row \in [D -> rows'[w]] /\ \A r \in rows'[w] : \E g \in D : row[g] = r
  <2>1. row = [g \in D |-> row[g]]
    BY DEF row
  <2>2. QED BY <1>2, <2>1
<1>6. IsFiniteSet(rows'[w])
  BY <1>3, <1>5, FS_Surjection DEF Surjection
<1>7. QED BY <1>2, <1>4, <1>6

\* Parsing changes nothing but the rows in hand.
LEMMA ParseStep ==
  ASSUME IInv, NEW w \in Workers, Parse(w)
  PROVE  IInv'
<1>1. /\ TypeOK /\ pc[w] = "read" /\ pc' = [pc EXCEPT ![w] = "parsed"]
      /\ UNCHANGED <<second, actual, games, fetched, made, disk, snapshots, reported, claimed,
                     file, queue, capture, inserted>>
      /\ UNCHANGED <<world, table>>
  BY DEF IInv, Parse, Goto, world, table
<1>2. /\ pc'[w] = "parsed"
      /\ \A v \in Workers \ {w} : pc'[v] = pc[v] /\ rows'[v] = rows[v]
      /\ \E R : rows' = [rows EXCEPT ![w] = R]
  BY <1>1 DEF Parse, TypeOK
<1>3. /\ IsFiniteSet(rows'[w]) /\ rows'[w] \subseteq Snapshot
      /\ \A r \in rows'[w] : RowSound(r)
  BY ParsedRows
<1>4. TypeOK'
  <2>1. rows' \in [Workers -> SUBSET Snapshot]
    BY <1>1, <1>2, <1>3 DEF TypeOK
  <2>2. QED BY <1>1, <2>1 DEF TypeOK
<1>5. FilesSound'
  BY <1>1, StillTold DEF IInv, FilesSound
<1>6. HandsSound'
  <2>1. ASSUME NEW v \in Workers
        PROVE  /\ pc'[v] \in {"response", "writing", "read", "parsed"} =>
                     EnvelopeSound(capture'[v])
               /\ pc'[v] \in {"writing", "captured"} =>
                     file'[v] \in Seconds /\ disk'[file'[v]] # NoFile
               /\ \A s \in queue'[v] : disk'[s] # NoFile
    BY <1>1, <1>2 DEF IInv, HandsSound
  <2>2. QED BY <1>1, <2>1, HandsForm
<1>7. RowsSound'
  <2>1. \A v \in Workers : \A r \in rows'[v] : RowSound(r)
    BY <1>2, <1>3 DEF IInv, RowsSound
  <2>2. \A r \in snapshots' : RowSound(r)
    BY <1>1 DEF IInv, RowsSound
  <2>3. QED BY <1>1, <2>1, <2>2, StillTold DEF RowsSound
<1>8. TransactionsSound'
  <2>1. ASSUME NEW v \in Workers
        PROVE  /\ IsFiniteSet(rows'[v]) /\ inserted'[v] \subseteq rows'[v]
               /\ pc'[v] \notin {"parsed", "stored", "next"} => rows'[v] = {}
               /\ pc'[v] \notin {"stored", "next"} => inserted'[v] = {}
               /\ Keys(inserted'[v]) \cap Keys(snapshots') = {}
               /\ pc'[v] \in {"stored", "next"} =>
                     Keys(rows'[v]) \subseteq Keys(snapshots' \cup inserted'[v])
    <3>1. CASE v = w
      <4>1. inserted[w] = {}
        BY <1>1 DEF IInv, TransactionsSound
      <4>2. QED BY <1>1, <1>2, <1>3, <3>1, <4>1 DEF Keys
    <3>2. CASE v # w
      BY <1>1, <1>2, <3>2 DEF IInv, TransactionsSound
    <3>3. QED BY <3>1, <3>2
  <2>2. QED BY <1>1, <2>1 DEF IInv, TransactionsSound, Keys, Key
<1>9. SuccessHasItsRows' /\ CountsAddUp'
  BY <1>1 DEF IInv, SuccessHasItsRows, CountsAddUp, Keys, Key
<1>10. QED BY <1>1, <1>4, <1>5, <1>6, <1>7, <1>8, <1>9, ScheduleKept DEF IInv

\* ON CONFLICT DO NOTHING: what is inserted is new to the table and, since the
\* insertion waits, to every open transaction.
LEMMA StoreStep ==
  ASSUME IInv, NEW w \in Workers, Store(w)
  PROVE  IInv'
<1>1. /\ TypeOK /\ pc[w] = "parsed" /\ pc' = [pc EXCEPT ![w] = "stored"]
      /\ UNCHANGED <<second, actual, games, fetched, made, disk, snapshots, reported, claimed,
                     file, queue, capture, rows>>
      /\ UNCHANGED <<world, table>>
      /\ \A v \in Workers \ {w} : Keys(rows[w]) \cap Keys(inserted[v]) = {}
  BY DEF IInv, Store, Goto, world, table
<1> DEFINE fresh == {r \in rows[w] : Key(r) \notin Keys(snapshots)}
<1>2. PICK R \in SUBSET fresh : /\ Keys(R) = Keys(fresh)
                                /\ inserted' = [inserted EXCEPT ![w] = R]
  BY DEF Store
<1>3. /\ R \subseteq rows[w] /\ Keys(R) \subseteq Keys(rows[w])
      /\ Keys(R) \cap Keys(snapshots) = {}
      /\ Keys(rows[w]) \subseteq Keys(snapshots \cup R)
  <2>1. R \subseteq rows[w] /\ Keys(R) \subseteq Keys(rows[w])
    BY <1>2 DEF Keys
  <2>2. Keys(R) \cap Keys(snapshots) = {}
    BY <1>2 DEF Keys
  <2>3. ASSUME NEW r \in rows[w]
        PROVE  Key(r) \in Keys(snapshots \cup R)
    <3>1. CASE Key(r) \in Keys(snapshots)
      BY <3>1 DEF Keys
    <3>2. CASE r \in fresh
      <4>1. Key(r) \in Keys(R)
        BY <1>2, <3>2 DEF Keys
      <4>2. QED BY <4>1 DEF Keys
    <3>3. QED BY <3>1, <3>2
  <2>4. QED BY <2>1, <2>2, <2>3 DEF Keys
<1> HIDE DEF fresh
<1>4. /\ pc'[w] = "stored" /\ inserted'[w] = R
      /\ \A v \in Workers \ {w} : pc'[v] = pc[v] /\ inserted'[v] = inserted[v]
  BY <1>1, <1>2 DEF TypeOK
<1>5. TypeOK'
  <2>1. inserted' \in [Workers -> SUBSET Snapshot]
    BY <1>1, <1>2, <1>3 DEF TypeOK
  <2>2. QED BY <1>1, <2>1 DEF TypeOK
<1>6. FilesSound'
  BY <1>1, StillTold DEF IInv, FilesSound
<1>7. HandsSound'
  <2>1. ASSUME NEW v \in Workers
        PROVE  /\ pc'[v] \in {"response", "writing", "read", "parsed"} =>
                     EnvelopeSound(capture'[v])
               /\ pc'[v] \in {"writing", "captured"} =>
                     file'[v] \in Seconds /\ disk'[file'[v]] # NoFile
               /\ \A s \in queue'[v] : disk'[s] # NoFile
    BY <1>1, <1>4 DEF IInv, HandsSound
  <2>2. QED BY <1>1, <2>1, HandsForm
<1>8. RowsSound'
  BY <1>1, StillTold DEF IInv, RowsSound
<1>9. TransactionsSound'
  <2>1. ASSUME NEW v \in Workers
        PROVE  /\ IsFiniteSet(rows[v]) /\ inserted'[v] \subseteq rows[v]
               /\ pc'[v] \notin {"parsed", "stored", "next"} => rows[v] = {}
               /\ pc'[v] \notin {"stored", "next"} => inserted'[v] = {}
               /\ Keys(inserted'[v]) \cap Keys(snapshots) = {}
               /\ pc'[v] \in {"stored", "next"} =>
                     Keys(rows[v]) \subseteq Keys(snapshots \cup inserted'[v])
    <3>1. CASE v = w
      BY <1>3, <1>4, <3>1 DEF IInv, TransactionsSound
    <3>2. CASE v # w
      BY <1>4, <3>2 DEF IInv, TransactionsSound
    <3>3. QED BY <3>1, <3>2
  <2>2. \A u, v \in Workers : u # v => Keys(inserted'[u]) \cap Keys(inserted'[v]) = {}
    <3>1. \A v \in Workers \ {w} : Keys(inserted'[w]) \cap Keys(inserted'[v]) = {}
      BY <1>1, <1>3, <1>4
    <3>2. \A u, v \in Workers \ {w} : u # v => Keys(inserted'[u]) \cap Keys(inserted'[v]) = {}
      BY <1>4 DEF IInv, TransactionsSound
    <3>3. QED BY <3>1, <3>2
  <2>3. IsFiniteSet(snapshots)
    BY DEF IInv, TransactionsSound
  <2>4. QED BY <1>1, <2>1, <2>2, <2>3 DEF TransactionsSound, Keys, Key
<1>10. SuccessHasItsRows' /\ CountsAddUp'
  BY <1>1 DEF IInv, SuccessHasItsRows, CountsAddUp, Keys, Key
<1>11. QED BY <1>1, <1>5, <1>6, <1>7, <1>8, <1>9, <1>10, ScheduleKept DEF IInv
-----------------------------------------------------------------------------
\* A step of the schedule ingest, or of the clock, touches no poll or replay: it
\* keeps the invariant if it keeps what was said of starts.
LEMMA WorldForm ==
  ASSUME IInv, UNCHANGED <<made, disk, table, locals>>,
         second' \in Seconds, actual' \in [Games -> 0..MaxStart],
         games' \in [Games -> 0..MaxStart \cup {Unlisted}],
         fetched' \in [Games -> 0..MaxStart] \cup {Nothing},
         ScheduleSound',
         \A e : EnvelopeSound(e) => EnvelopeSound(e)',
         \A r : RowSound(r) => RowSound(r)'
  PROVE  IInv'
<1>1. /\ TypeOK
      /\ UNCHANGED <<made, disk, snapshots, reported, claimed, pc, file, queue, capture,
                     rows, inserted>>
  BY DEF IInv, table, locals
<1>2. TypeOK'
  BY <1>1 DEF TypeOK
<1>3. FilesSound'
  BY <1>1 DEF IInv, FilesSound
<1>4. HandsSound'
  BY <1>1 DEF IInv, HandsSound
<1>5. RowsSound'
  BY <1>1 DEF IInv, RowsSound
<1>6. TransactionsSound' /\ SuccessHasItsRows' /\ CountsAddUp'
  BY <1>1 DEF IInv, TransactionsSound, SuccessHasItsRows, CountsAddUp, Keys, Key
<1>7. QED BY <1>2, <1>3, <1>4, <1>5, <1>6 DEF IInv

\* A start that slips is after every start announced before.
LEMMA DelayStep ==
  ASSUME IInv, Delay
  PROVE  IInv'
<1>1. /\ TypeOK /\ ScheduleSound
      /\ UNCHANGED <<second, games, fetched, made, disk, table, locals>>
  BY DEF IInv, Delay
<1>2. PICK h \in Games, d \in Delays : /\ actual[h] + d <= MaxStart
                                      /\ actual' = [actual EXCEPT ![h] = @ + d]
  BY DEF Delay
<1>3. d \in Nat /\ MaxStart \in Nat /\ FirstStarts \in [Games -> 0..MaxStart]
  BY CapturesAssumption
<1>4. actual \in [Games -> 0..MaxStart]
  BY <1>1 DEF TypeOK
<1>5. /\ actual' \in [Games -> 0..MaxStart]
      /\ \A g \in Games : actual[g] <= actual'[g]
  BY <1>2, <1>3, <1>4
<1>6. ASSUME NEW starts \in [Games -> 0..MaxStart], ToldBefore(starts)
      PROVE  ToldBefore(starts)'
  BY <1>4, <1>5, <1>6 DEF ToldBefore
<1>7. actual' = FirstStarts => actual = FirstStarts
  <2>1. \A g \in Games : FirstStarts[g] <= actual[g]
    BY <1>1 DEF ScheduleSound, ToldBefore
  <2>2. ASSUME actual' = FirstStarts, NEW g \in Games
        PROVE  actual[g] = FirstStarts[g]
    <3>1. /\ actual[g] \in 0..MaxStart /\ FirstStarts[g] \in 0..MaxStart
          /\ actual[g] <= FirstStarts[g] /\ FirstStarts[g] <= actual[g]
      BY <1>3, <1>4, <1>5, <2>1, <2>2
    <3>2. QED BY <1>3, <3>1
  <2>3. QED BY <1>3, <1>4, <2>2
<1>8. \A e : EnvelopeSound(e) => EnvelopeSound(e)'
  BY <1>6 DEF EnvelopeSound, Envelope
<1>9. \A r : RowSound(r) => RowSound(r)'
  BY <1>7 DEF RowSound
<1>10. ScheduleSound'
  <2>1. \A g \in Games : FirstStarts[g] <= actual'[g] /\ actual'[g] <= actual'[g]
    <3>1. ASSUME NEW g \in Games
          PROVE  FirstStarts[g] <= actual'[g] /\ actual'[g] <= actual'[g]
      <4>1. /\ FirstStarts[g] <= actual[g] /\ actual[g] <= actual'[g]
            /\ FirstStarts[g] \in 0..MaxStart /\ actual[g] \in 0..MaxStart
            /\ actual'[g] \in 0..MaxStart
        BY <1>1, <1>3, <1>4, <1>5 DEF ScheduleSound, ToldBefore
      <4>2. QED BY <1>3, <4>1
    <3>2. QED BY <3>1
  <2>2. ToldBefore(actual)'
    BY <2>1 DEF ToldBefore
  <2>3. fetched # Nothing => ToldBefore(fetched)'
    BY <1>1, <1>6 DEF ScheduleSound, TypeOK
  <2>4. \/ \A g \in Games : games'[g] = Unlisted
        \/ (\A g \in Games : games'[g] # Unlisted) /\ ToldBefore(games)'
    <3>1. CASE (\A g \in Games : games[g] # Unlisted) /\ ToldBefore(games)
      <4>1. games \in [Games -> 0..MaxStart]
        BY <1>1, <3>1 DEF TypeOK
      <4>2. ToldBefore(games)'
        BY <1>1, <1>6, <3>1, <4>1 DEF ToldBefore
      <4>3. QED BY <1>1, <3>1, <4>2
    <3>2. QED BY <1>1, <3>1 DEF ScheduleSound
  <2>5. QED BY <1>1, <2>2, <2>3, <2>4 DEF ScheduleSound, ToldBefore
<1>11. second' \in Seconds /\ games' \in [Games -> 0..MaxStart \cup {Unlisted}]
       /\ fetched' \in [Games -> 0..MaxStart] \cup {Nothing}
  BY <1>1 DEF TypeOK
<1>12. QED BY <1>1, <1>5, <1>8, <1>9, <1>10, <1>11, WorldForm

\* The schedule ingest writes what it fetched, all of it or nothing.
LEMMA IngestStep ==
  ASSUME IInv, FetchSchedule \/ UpsertSchedule \/ ScheduleFails
  PROVE  IInv'
<1>1. /\ TypeOK /\ ScheduleSound
      /\ UNCHANGED <<second, actual, made, disk, table, locals>>
  BY DEF IInv, FetchSchedule, UpsertSchedule, ScheduleFails
<1>2. /\ actual \in [Games -> 0..MaxStart]
      /\ games \in [Games -> 0..MaxStart \cup {Unlisted}]
      /\ fetched \in [Games -> 0..MaxStart] \cup {Nothing}
      /\ second \in Seconds
  BY <1>1 DEF TypeOK
<1>3. /\ games' \in [Games -> 0..MaxStart \cup {Unlisted}]
      /\ fetched' \in [Games -> 0..MaxStart] \cup {Nothing}
      /\ fetched' # Nothing => ToldBefore(fetched')
      /\ \/ \A g \in Games : games'[g] = Unlisted
         \/ (\A g \in Games : games'[g] # Unlisted) /\ ToldBefore(games')
  <2>1. CASE FetchSchedule
    BY <1>1, <1>2, <2>1 DEF FetchSchedule, ScheduleSound
  <2>2. CASE UpsertSchedule
    <3>1. games' = fetched /\ fetched' = Nothing /\ fetched \in [Games -> 0..MaxStart]
          /\ ToldBefore(fetched)
      BY <1>1, <1>2, <2>2 DEF UpsertSchedule, ScheduleSound
    <3>2. \A g \in Games : fetched[g] \in 0..MaxStart /\ fetched[g] # Unlisted
      BY <3>1, CapturesAssumption
    <3>3. games' \in [Games -> 0..MaxStart \cup {Unlisted}]
      BY <3>1, <3>2
    <3>4. QED BY <3>1, <3>2, <3>3
  <2>3. CASE ScheduleFails
    BY <1>1, <1>2, <2>3 DEF ScheduleFails, ScheduleSound
  <2>4. QED BY <2>1, <2>2, <2>3
<1>4. ScheduleSound'
  BY <1>1, <1>3 DEF ScheduleSound, ToldBefore
<1>5. QED BY <1>1, <1>2, <1>3, <1>4, StillTold, WorldForm

\* The clock goes on.
LEMMA TickStep ==
  ASSUME IInv, Tick
  PROVE  IInv'
<1>1. /\ TypeOK /\ second \in Seconds /\ second < MaxSecond /\ second' = second + 1
      /\ UNCHANGED <<actual, games, fetched, made, disk, table, locals>>
  BY DEF IInv, Tick, TypeOK
<1>2. second' \in Seconds
  BY <1>1, CapturesAssumption DEF Seconds
<1>3. ScheduleSound'
  BY <1>1 DEF IInv, ScheduleSound, ToldBefore
<1>4. QED BY <1>1, <1>2, <1>3, StillTold, WorldForm DEF TypeOK
-----------------------------------------------------------------------------
\* Nothing has been paid for, and the games table holds the slate or nothing.
LEMMA InvInit == Init => IInv
<1> SUFFICES ASSUME Init PROVE IInv
  OBVIOUS
<1>1. /\ FirstStarts \in [Games -> 0..MaxStart] /\ MaxStart \in Nat /\ Unlisted \notin Nat
      /\ MaxResponses \in Nat /\ MaxSecond \in Nat \ {0}
  BY CapturesAssumption
<1>2. IsFiniteSet({}) /\ Cardinality({}) = 0 /\ Keys({}) = {}
  BY FS_EmptySet DEF Keys
<1>3. games \in [Games -> 0..MaxStart \cup {Unlisted}]
  BY <1>1 DEF Init
<1>4. ToldBefore(FirstStarts)
  BY <1>1 DEF Init, ToldBefore
<1>5. TypeOK
  BY <1>1, <1>3 DEF Init, TypeOK, Seconds
<1>6. FilesSound /\ HandsSound
  BY DEF Init, FilesSound, HandsSound
<1>7. ScheduleSound
  <2>1. ToldBefore(actual) /\ fetched = Nothing
    BY <1>4 DEF Init
  <2>2. CASE games = FirstStarts
    <3>1. \A g \in Games : games[g] # Unlisted
      BY <1>1, <2>2
    <3>2. QED BY <1>4, <2>1, <2>2, <3>1 DEF ScheduleSound
  <2>3. CASE games = [g \in Games |-> Unlisted]
    BY <2>1, <2>3 DEF ScheduleSound
  <2>4. QED BY <2>2, <2>3 DEF Init
<1>8. RowsSound /\ TransactionsSound
  BY <1>2 DEF Init, RowsSound, TransactionsSound
<1>9. SuccessHasItsRows /\ CountsAddUp
  BY <1>2 DEF Init, SuccessHasItsRows, CountsAddUp
<1>10. QED BY <1>5, <1>6, <1>7, <1>8, <1>9 DEF IInv

\* Every step of a poll, a replay, the schedule ingest and the clock preserves it.
LEMMA InvStep == IInv /\ [Next]_vars => IInv'
<1> SUFFICES ASSUME IInv, [Next]_vars PROVE IInv'
  OBVIOUS
<1>1. ASSUME NEW w \in Workers, Poll(w)
      PROVE  IInv'
  <2>1. CASE Request(w)
    BY <2>1, RequestStep
  <2>2. CASE BodyRaises(w)
    BY <2>2, LeaveStep DEF BodyRaises
  <2>3. CASE OpenFile(w)
    BY <2>3, OpenFileStep
  <2>4. CASE WriteCapture(w)
    BY <2>4, WriteStep
  <2>5. CASE ReadBack(w)
    BY <2>5, ReadStep
  <2>6. CASE ReadBackRaises(w)
    BY <2>6, LeaveStep DEF ReadBackRaises
  <2>7. CASE CommitPoll(w)
    BY <2>7, CommitAndLeave DEF CommitPoll
  <2>8. QED BY <1>1, <2>1, <2>2, <2>3, <2>4, <2>5, <2>6, <2>7 DEF Poll
<1>2. ASSUME NEW w \in Workers, Replay(w)
      PROVE  IInv'
  <2>1. CASE Glob(w)
    BY <2>1, ReadStep
  <2>2. CASE OpenCapture(w)
    BY <2>2, OpenCaptureStep
  <2>3. CASE OpenRaises(w)
    BY <2>3, LeaveStep DEF OpenRaises
  <2>4. CASE FlushReplay(w)
    BY <2>4, ReadStep
  <2>5. CASE Finish(w)
    BY <2>5, CommitAndLeave DEF Finish
  <2>6. QED BY <1>2, <2>1, <2>2, <2>3, <2>4, <2>5 DEF Replay
<1>3. ASSUME NEW w \in Workers, Crash(w)
      PROVE  IInv'
  BY <1>3, LeaveStep DEF Crash
<1>4. ASSUME UNCHANGED vars
      PROVE  IInv'
  <2>1. UNCHANGED <<second, actual, games, fetched, made, disk, table, locals>>
    BY <1>4 DEF vars, world
  <2>2. ScheduleSound'
    BY <1>4, ScheduleKept DEF vars
  <2>3. QED BY <2>1, <2>2, StillTold, WorldForm DEF IInv, TypeOK
<1>5. QED BY <1>1, <1>2, <1>3, <1>4, ParseStep, ParseFailsStep, StoreStep, DelayStep,
             IngestStep, TickStep DEF Next

\* Captures, parses, commits, replays, crashes and a schedule that moves keep the
\* invariant in every run of the system.
THEOREM Inductive == Spec => []IInv
<1>1. Init => IInv
  BY InvInit
<1>2. IInv /\ [Next]_vars => IInv'
  BY InvStep
<1>3. QED BY <1>1, <1>2, PTL DEF Spec

\* Every variable keeps its type.
THEOREM TypeCorrect == Spec => []TypeOK
<1>1. IInv => TypeOK
  BY DEF IInv
<1>2. QED BY <1>1, Inductive, PTL

\* A row's captured_at is the instant of the response its price came in, whichever
\* process wrote the file it was parsed from and whoever else was writing it
\* (capture_slate, poll_odds and replay_capture).
THEOREM TimestampsHonest == Spec => []HonestTimestamps
<1>1. IInv => HonestTimestamps
  BY DEF IInv, RowsSound, RowSound, HonestTimestamps
<1>2. QED BY <1>1, Inductive, PTL

\* A run that ends as success has every price it parsed in the table, though a
\* conflicting key may have been another session's (store_snapshots).
THEOREM SuccessHasRows == Spec => []SuccessHasItsRows
<1>1. IInv => SuccessHasItsRows
  BY DEF IInv
<1>2. QED BY <1>1, Inductive, PTL

\* rows_written of the successful runs adds up to the table: no row is counted by
\* two of the polls and replays that parse the same file, and none by nobody.
THEOREM CountsAreRight == Spec => []CountsAddUp
<1>1. IInv => CountsAddUp
  BY DEF IInv
<1>2. QED BY <1>1, Inductive, PTL

\* While no game has moved, one observed price is one row: the match of its event
\* is a function of the file, and the table's key of the match (replay.py's
\* "idempotent by construction").
THEOREM ObservedOnce == Spec => []OncePerObservation
<1>1. IInv => OncePerObservation
  <2> SUFFICES ASSUME IInv, actual = FirstStarts, NEW s \in snapshots, NEW t \in snapshots,
                      s.event = t.event, s.body = t.body
               PROVE  s = t
    BY DEF OncePerObservation
  <2>1. s \in Snapshot /\ t \in Snapshot
    BY DEF IInv, TypeOK
  <2>2. /\ s.at = s.body /\ s.pk = s.event
        /\ t.at = t.body /\ t.pk = t.event
    BY DEF IInv, RowsSound, RowSound
  <2>3. QED BY <2>1, <2>2 DEF Snapshot
<1>2. QED BY <1>1, Inductive, PTL
-----------------------------------------------------------------------------
\* Of two rows of one payload with one key, ON CONFLICT DO NOTHING inserts one.
OneRowPerKey == \A w \in Workers : \A r, s \in inserted[w] : Key(r) = Key(s) => r = s

\* As many rows as keys: no two rows share one.
LEMMA StoredKeysDiffer ==
  ASSUME IInv, NEW w \in Workers, Store(w)
  PROVE  \A r, s \in inserted'[w] : Key(r) = Key(s) => r = s
<1>1. PICK R \in SUBSET rows[w] : /\ Cardinality(R) = Cardinality(Keys(R))
                                  /\ inserted' = [inserted EXCEPT ![w] = R]
  BY DEF Store
<1>2. IsFiniteSet(R) /\ inserted'[w] = R
  BY <1>1, FS_Subset DEF IInv, TypeOK, TransactionsSound
<1> DEFINE key == [r \in R |-> Key(r)]
<1>3. key \in Surjection(R, Keys(R))
  BY DEF Surjection, Keys
<1>4. key \in Injection(R, Keys(R))
  BY <1>1, <1>2, <1>3, FS_Surjection
<1>5. \A r, s \in R : key[r] = key[s] => r = s
  BY <1>4 DEF Injection, IsInjective
<1>6. QED BY <1>2, <1>5

\* A transaction's insertions are made by its INSERT and end with it.
LEMMA InsertedStep ==
  ASSUME IInv, [Next]_vars, NEW v \in Workers
  PROVE  inserted'[v] \in {inserted[v], {}} \/ Store(v)
<1>1. TypeOK
  BY DEF IInv
<1>2. ASSUME NEW w \in Workers, Leave(w)
      PROVE  inserted'[v] \in {inserted[v], {}}
  BY <1>1, <1>2, LeaveForm
<1>3. ASSUME NEW w \in Workers, Poll(w) \/ Replay(w) \/ Parse(w) \/ ParseFails(w) \/ Crash(w)
      PROVE  inserted'[v] \in {inserted[v], {}}
  <2>1. \/ UNCHANGED inserted \/ Leave(w) \/ inserted' = [inserted EXCEPT ![w] = {}]
    BY <1>3 DEF Poll, Request, BodyRaises, OpenFile, WriteCapture, ReadBack, ReadBackRaises,
                CommitPoll, Replay, Glob, OpenCapture, OpenRaises, FlushReplay, Finish,
                Parse, ParseFails, Crash
  <2>2. QED BY <1>1, <1>2, <2>1 DEF TypeOK
<1>4. ASSUME NEW w \in Workers, Store(w)
      PROVE  inserted'[v] = inserted[v] \/ Store(v)
  <2>1. CASE v # w
    BY <1>1, <1>4, <2>1 DEF Store, TypeOK
  <2>2. QED BY <1>4, <2>1
<1>5. CASE Delay \/ FetchSchedule \/ UpsertSchedule \/ ScheduleFails \/ Tick
  BY <1>5 DEF Delay, FetchSchedule, UpsertSchedule, ScheduleFails, Tick, locals
<1>6. CASE UNCHANGED vars
  BY <1>6 DEF vars, locals
<1>7. QED BY <1>3, <1>4, <1>5, <1>6 DEF Next

\* So no open transaction ever holds two rows with one key.
LEMMA OneRowPerKeyHolds == Spec => []OneRowPerKey
<1>1. Init => OneRowPerKey
  BY DEF Init, OneRowPerKey
<1>2. ASSUME IInv, OneRowPerKey, [Next]_vars
      PROVE  OneRowPerKey'
  <2>1. ASSUME NEW w \in Workers
        PROVE  \A r, s \in inserted'[w] : Key(r) = Key(s) => r = s
    <3>1. CASE Store(w)
      BY <1>2, <3>1, StoredKeysDiffer
    <3>2. CASE inserted'[w] \in {inserted[w], {}}
      BY <1>2, <3>2 DEF OneRowPerKey
    <3>3. QED BY <1>2, <3>1, <3>2, InsertedStep
  <2>2. QED BY <2>1 DEF OneRowPerKey, Key
<1>3. QED BY <1>1, <1>2, Inductive, PTL DEF Spec

\* Nothing but the commit of a run touches what readers see.
LEMMA TableSteps ==
  ASSUME [Next]_vars
  PROVE  \/ UNCHANGED <<snapshots, reported, claimed>>
         \/ \E w \in Workers : CommitRun(w) /\ pc[w] \in {"stored", "next"}
<1>1. ASSUME NEW w \in Workers, Poll(w) \/ Replay(w) \/ Parse(w) \/ ParseFails(w)
                                \/ Store(w) \/ Crash(w)
      PROVE  UNCHANGED table \/ (CommitRun(w) /\ pc[w] \in {"stored", "next"})
  BY <1>1 DEF Poll, Request, BodyRaises, OpenFile, WriteCapture, ReadBack, ReadBackRaises,
              CommitPoll, Replay, Glob, OpenCapture, OpenRaises, FlushReplay, Finish,
              Parse, ParseFails, Store, Crash, Goto
<1>2. CASE Delay \/ FetchSchedule \/ UpsertSchedule \/ ScheduleFails \/ Tick
  BY <1>2 DEF Delay, FetchSchedule, UpsertSchedule, ScheduleFails, Tick, table
<1>3. CASE UNCHANGED vars
  BY <1>3 DEF vars, table
<1>4. QED BY <1>1, <1>2, <1>3 DEF Next, table

\* Polls and replays that write one another's files, wait for one another's keys and
\* crash implement the table their readers rely on: it grows by whole runs, a row per
\* key, and each run counts exactly the rows it added (store_snapshots, ingest_run).
THEOREM ImplementsSnapshotLog == Spec => TableSpec
<1>1. Init => TableLog!Init
  BY DEF Init, TableLog!Init
<1>2. ASSUME IInv, OneRowPerKey, [Next]_vars
      PROVE  [TableLog!Next]_(TableLog!historyVars)
  <2>1. CASE UNCHANGED <<snapshots, reported, claimed>>
    BY <2>1 DEF TableLog!historyVars
  <2>2. ASSUME NEW w \in Workers, CommitRun(w), pc[w] \in {"stored", "next"}
        PROVE  TableLog!Next
    <3> DEFINE fresh == snapshots' \ snapshots
               parsed == claimed' \ claimed
    <3>1. /\ snapshots' = snapshots \cup inserted[w]
          /\ reported' = reported + Cardinality(inserted[w])
          /\ claimed' = claimed \cup rows[w]
      BY <2>2 DEF CommitRun
    <3>2. /\ inserted[w] \subseteq rows[w]
          /\ Keys(inserted[w]) \cap Keys(snapshots) = {}
          /\ Keys(rows[w]) \subseteq Keys(snapshots \cup inserted[w])
      BY <1>2, <2>2 DEF IInv, TransactionsSound
    <3>3. \A r \in inserted[w] : Key(r) \notin Keys(snapshots)
      BY <3>2 DEF Keys
    <3>4. fresh = inserted[w]
      BY <3>1, <3>3 DEF Keys
    <3>5. fresh \subseteq parsed
      BY <1>2, <3>1, <3>2, <3>3, <3>4 DEF IInv, SuccessHasItsRows
    <3>6. Keys(parsed) \subseteq Keys(snapshots \cup fresh)
      BY <3>1, <3>2, <3>4 DEF Keys
    <3>7. \A r, s \in fresh : Key(r) = Key(s) => r = s
      BY <1>2, <3>4 DEF OneRowPerKey
    <3>8. /\ snapshots' = snapshots \cup fresh
          /\ reported' = reported + Cardinality(fresh)
          /\ claimed' = claimed \cup parsed
      BY <3>1, <3>4
    <3>9. TableLog!Publish(fresh, parsed)
      <4> HIDE DEF fresh, parsed
      <4>1. \A r : TableLog!Key(r) = Key(r)
        BY DEF TableLog!Key, Key
      <4>2. \A S : TableLog!Keys(S) = Keys(S)
        BY DEF TableLog!Keys, Keys, TableLog!Key, Key
      <4>3. \A r \in fresh : Key(r) \notin Keys(snapshots)
        BY <3>3, <3>4
      <4>4. TableLog!Cardinality(fresh) = Cardinality(fresh)
        BY Zenon DEF TableLog!Cardinality, Cardinality
      <4>5. QED BY <3>5, <3>6, <3>7, <3>8, <4>1, <4>2, <4>3, <4>4 DEF TableLog!Publish
    <3>10. QED BY <3>9 DEF TableLog!Next
  <2>3. QED BY <1>2, <2>1, <2>2, TableSteps
<1>3. QED BY <1>1, <1>2, Inductive, OneRowPerKeyHolds, PTL DEF Spec, TableSpec, TableLog!Spec
-----------------------------------------------------------------------------
\* Less-than on the naturals is well-founded, as a set of pairs.
LEMMA NatPairs == IsWellFoundedOn({ss \in Nat \X Nat : ss[1] < ss[2]}, Nat)
<1>1. OpToRel(<, Nat) = {ss \in Nat \X Nat : ss[1] < ss[2]}
  BY DEF OpToRel
<1>2. QED BY <1>1, NatLessThanWellFounded

\* A set of natural numbers has a least element.
LEMMA Least ==
  ASSUME NEW S, S \subseteq Nat, S # {}
  PROVE  \E m \in S : \A n \in S : m <= n
<1> DEFINE R == {ss \in Nat \X Nat : ss[1] < ss[2]}
<1>1. IsWellFoundedOn(R, Nat)
  BY NatPairs
<1> HIDE DEF R
<1>2. PICK m \in S : \A y \in S : ~(<<y, m>> \in R)
  BY <1>1, WFMin
<1>3. ASSUME NEW n \in S PROVE m <= n
  <2>1. m \in Nat /\ n \in Nat
    OBVIOUS
  <2>2. <<n, m>> \notin R /\ <<n, m>> \in Nat \X Nat
    BY <1>2, <2>1
  <2>3. ~(n < m)
    BY <2>2, SMT DEF R
  <2>4. QED BY <2>1, <2>3
<1>4. QED BY <1>3

\* A set of times within bounds has a first and a last one, and Max is the last.
LEMMA FirstAndLast ==
  ASSUME NEW a \in Int, NEW b \in Int, NEW S, S \subseteq a..b, S # {}
  PROVE  /\ \E m \in S : \A n \in S : m <= n
         /\ Max(S) \in S /\ \A n \in S : n <= Max(S)
<1>1. ASSUME NEW n \in S PROVE n \in Int /\ n - a \in Nat /\ b - n \in Nat
  OBVIOUS
<1>2. \E m \in S : \A n \in S : m <= n
  <2> DEFINE T == {n - a : n \in S}
  <2>1. T \subseteq Nat /\ T # {}
    BY <1>1
  <2>2. PICK t \in T : \A u \in T : t <= u
    BY <2>1, Least
  <2>3. PICK m \in S : t = m - a
    OBVIOUS
  <2>4. \A n \in S : m - a <= n - a
    BY <2>2, <2>3
  <2>5. QED BY <2>4, <1>1
<1>3. \E m \in S : \A n \in S : m >= n
  <2> DEFINE T == {b - n : n \in S}
  <2>1. T \subseteq Nat /\ T # {}
    BY <1>1
  <2>2. PICK t \in T : \A u \in T : t <= u
    BY <2>1, Least
  <2>3. PICK m \in S : t = b - m
    OBVIOUS
  <2>4. \A n \in S : b - m <= b - n
    BY <2>2, <2>3
  <2>5. QED BY <2>4, <1>1
<1>4. Max(S) \in S /\ \A n \in S : Max(S) >= n
  BY <1>3 DEF Max
<1>5. QED BY <1>1, <1>2, <1>4

\* The starts of S that no other start of S precedes by at most the gap.
Heads(S) == {t \in S : ~\E s \in S : s < t /\ t - s <= Gap}

\* One round of the loop of remaining_start_clusters over the starts S.
OneMoreStart(S, pass) ==
    [s \in SUBSET S |->
        IF s = {} THEN NoClusters
        ELSE LET t == Max(s)
                 acc == pass[s \ {t}]
             IN [clusters |-> IF acc.clusters = 0 \/ t - acc.previous > Gap
                              THEN acc.clusters + 1 ELSE acc.clusters,
                 previous |-> t]]

PassOver(S) == (CHOOSE pass : pass = OneMoreStart(S, pass))[S]

\* The pass over the starts ahead is that loop.
LEMMA ClustersForm ==
  ASSUME NEW starts, NEW at
  PROVE  RemainingStartClusters(starts, at) = PassOver(Ahead(starts, at)).clusters
  BY DEF RemainingStartClusters, MapThenFoldSet, PassOver, OneMoreStart

\* The last of a set of starts opens a cluster unless the one before it is within
\* the gap; the others are what they were.
LEMMA HeadsStep ==
  ASSUME NEW a \in Int, NEW b \in Int, NEW S, S \subseteq a..b, S # {}
  PROVE  LET t == Max(S)
             R == S \ {t}
         IN Heads(S) = IF R = {} \/ t - Max(R) > Gap THEN Heads(R) \cup {t} ELSE Heads(R)
<1> DEFINE t == Max(S)
           R == S \ {t}
<1>1. t \in S /\ \A n \in S : n <= t
  BY FirstAndLast
<1>2. \A n \in S : n \in Int
  OBVIOUS
<1>3. Gap \in Nat
  BY MatchingAssumption
<1> HIDE DEF t
<1>4. \A n \in R : n \in S /\ n < t
  BY <1>1, <1>2
<1>5. \A n \in R : n \in Heads(S) <=> n \in Heads(R)
  BY <1>2, <1>4 DEF Heads
<1>6. t \notin Heads(R)
  BY DEF Heads
<1>7. CASE R = {}
  <2>1. S = {t}
    BY <1>1, <1>7
  <2>2. QED BY <2>1, <1>2, <1>7 DEF Heads, t
<1>8. CASE R # {}
  <2> DEFINE u == Max(R)
  <2>1. R \subseteq a..b
    OBVIOUS
  <2>2. u \in R /\ \A n \in R : n <= u
    BY <2>1, <1>8, FirstAndLast
  <2> HIDE DEF u
  <2>3. t \in Heads(S) <=> t - u > Gap
    <3>1. ASSUME t - u > Gap, NEW n \in S, n < t PROVE ~(t - n <= Gap)
      <4>1. n <= u /\ n \in Int /\ u \in Int /\ t \in Int
        BY <3>1, <2>2, <1>1, <1>2
      <4>2. QED BY <3>1, <4>1, <1>3
    <3>2. u \in S /\ u < t /\ u \in Int /\ t \in Int
      BY <2>2, <1>1, <1>2, <1>4
    <3>3. ~(t - u > Gap) => t - u <= Gap
      BY <3>2, <1>3
    <3>4. t - u > Gap => t \in Heads(S)
      BY <3>1, <1>1 DEF Heads
    <3>5. t - u <= Gap => t \notin Heads(S)
      BY <3>2 DEF Heads
    <3>6. QED BY <3>3, <3>4, <3>5
  <2>4. \A n \in Heads(S) : n \in S
    BY DEF Heads
  <2>5. \A n \in Heads(R) : n \in R
    BY DEF Heads
  <2>6. QED
    <3>1. Heads(S) = IF t - u > Gap THEN Heads(R) \cup {t} ELSE Heads(R)
      <4>1. \A n : n \in Heads(S) => n \in S /\ (n = t \/ n \in R)
        BY <2>4
      <4>2. \A n : n \in Heads(R) => n \in R /\ n # t
        BY <2>5
      <4>3. CASE t - u > Gap
        BY <4>1, <4>2, <4>3, <2>3, <1>5
      <4>4. CASE ~(t - u > Gap)
        <5>1. \A n : n \in Heads(S) <=> n \in Heads(R)
          BY <4>1, <4>2, <4>4, <2>3, <1>5
        <5>2. Heads(S) = Heads(R)
          BY <5>1
        <5>3. QED BY <5>2, <4>4
      <4>5. QED BY <4>3, <4>4
    <3>2. QED BY <3>1, <1>8 DEF u, t
<1>9. QED BY <1>7, <1>8

\* A set of starts has a head: its first.
LEMMA SomeHead ==
  ASSUME NEW a \in Int, NEW b \in Int, NEW S, S \subseteq a..b, S # {}
  PROVE  Heads(S) # {}
<1>1. PICK m \in S : \A n \in S : m <= n
  BY FirstAndLast
<1>2. \A n \in S : n \in Int
  OBVIOUS
<1>3. m \in Heads(S)
  BY <1>1, <1>2 DEF Heads
<1>4. QED BY <1>3

\* The pass counts the heads, and has last seen the last start.
LEMMA PassCountsHeads ==
  ASSUME NEW a \in Int, NEW b \in Int, NEW S, S \subseteq a..b
  PROVE  PassOver(S).clusters = Cardinality(Heads(S))
<1> DEFINE g == [s \in SUBSET S |->
                   [clusters |-> Cardinality(Heads(s)),
                    previous |-> IF s = {} THEN 0 ELSE Max(s)]]
<1>1. \A s \in SUBSET S : /\ IsFiniteSet(s) /\ Cardinality(s) \in Nat
                          /\ IsFiniteSet(Heads(s)) /\ Cardinality(Heads(s)) \in Nat
  <2>1. IsFiniteSet(a..b)
    BY FS_Interval
  <2>2. ASSUME NEW s \in SUBSET S PROVE IsFiniteSet(s) /\ IsFiniteSet(Heads(s))
    <3>1. s \subseteq a..b /\ Heads(s) \subseteq s
      BY DEF Heads
    <3>2. QED BY <2>1, <3>1, FS_Subset
  <2>3. QED BY <2>2, FS_CardinalityType
<1>2. g = OneMoreStart(S, g)
  <2>1. ASSUME NEW s \in SUBSET S, s # {}
        PROVE  LET t == Max(s)
                   acc == g[s \ {t}]
               IN g[s] = [clusters |-> IF acc.clusters = 0 \/ t - acc.previous > Gap
                                       THEN acc.clusters + 1 ELSE acc.clusters,
                          previous |-> t]
    <3> DEFINE t == Max(s)
               r == s \ {t}
    <3>1. s \subseteq a..b /\ r \in SUBSET S /\ r \subseteq a..b
      OBVIOUS
    <3>2. t \in s
      BY <2>1, <3>1, FirstAndLast
    <3>3. Heads(s) = IF r = {} \/ t - Max(r) > Gap THEN Heads(r) \cup {t} ELSE Heads(r)
      BY <2>1, <3>1, HeadsStep
    <3>4. /\ g[r] = [clusters |-> Cardinality(Heads(r)),
                     previous |-> IF r = {} THEN 0 ELSE Max(r)]
          /\ g[s] = [clusters |-> Cardinality(Heads(s)), previous |-> t]
      BY <3>1, <2>1
    <3> HIDE DEF g, t
    <3>5. Cardinality(Heads(s)) = IF r = {} \/ t - Max(r) > Gap
                                  THEN Cardinality(Heads(r)) + 1
                                  ELSE Cardinality(Heads(r))
      <4>1. t \notin Heads(r) /\ IsFiniteSet(Heads(r))
        BY <3>1, <1>1 DEF Heads
      <4>2. Cardinality(Heads(r) \cup {t}) = Cardinality(Heads(r)) + 1
        BY <4>1, FS_AddElement
      <4>3. QED BY <3>3, <4>2
    <3>6. Cardinality(Heads(r)) = 0 <=> r = {}
      <4>1. CASE r = {}
        <5>1. Heads(r) = {}
          BY <4>1 DEF Heads
        <5>2. QED BY <5>1, <4>1, FS_EmptySet
      <4>2. CASE r # {}
        <5>1. Heads(r) # {} /\ IsFiniteSet(Heads(r))
          BY <3>1, <4>2, <1>1, SomeHead
        <5>2. QED BY <5>1, <4>2, FS_EmptySet
      <4>3. QED BY <4>1, <4>2
    <3>7. g[s] = [clusters |-> IF g[r].clusters = 0 \/ t - g[r].previous > Gap
                               THEN g[r].clusters + 1 ELSE g[r].clusters,
                  previous |-> t]
      BY <3>4, <3>5, <3>6
    <3>8. QED BY <3>7 DEF t
  <2>2. g[{}] = NoClusters
    <3>1. Heads({}) = {} /\ Cardinality(Heads({})) = 0
      BY FS_EmptySet DEF Heads
    <3>2. QED BY <3>1 DEF NoClusters
  <2>3. QED BY <2>1, <2>2 DEF OneMoreStart
<1> DEFINE h == CHOOSE pass : pass = OneMoreStart(S, pass)
<1> HIDE DEF g
<1>3. h = OneMoreStart(S, h)
  BY <1>2
<1> HIDE DEF h
<1>4. \A s \in SUBSET S : h[s] = g[s]
  <2> DEFINE Bad == {Cardinality(s) : s \in {r \in SUBSET S : h[r] # g[r]}}
  <2>1. SUFFICES ASSUME Bad # {} PROVE FALSE
    OBVIOUS
  <2>2. Bad \subseteq Nat
    BY <1>1
  <2>3. PICK m \in Bad : \A n \in Bad : m <= n
    BY <2>1, <2>2, Least
  <2>4. PICK s \in SUBSET S : h[s] # g[s] /\ m = Cardinality(s)
    BY <2>3
  <2> DEFINE t == Max(s)
  <2>5. s # {} /\ s \subseteq a..b
    BY <2>4, <1>2, <1>3 DEF OneMoreStart
  <2>6. t \in s
    BY <2>5, FirstAndLast
  <2>7. h[s \ {t}] = g[s \ {t}]
    <3> HIDE DEF t
    <3>1. s \ {t} \in SUBSET S
      OBVIOUS
    <3>2. Cardinality(s \ {t}) = Cardinality(s) - 1
      BY <2>6, <1>1, FS_RemoveElement
    <3>3. ~(m <= Cardinality(s \ {t}))
      BY <3>2, <2>4, <1>1
    <3>4. QED BY <3>1, <3>3, <2>3
  <2>8. h[s] = g[s]
    <3> DEFINE round(acc) == [clusters |-> IF acc.clusters = 0 \/ t - acc.previous > Gap
                                           THEN acc.clusters + 1 ELSE acc.clusters,
                              previous |-> t]
    <3>1. OneMoreStart(S, h)[s] = round(h[s \ {t}])
      BY <2>5 DEF OneMoreStart
    <3>2. OneMoreStart(S, g)[s] = round(g[s \ {t}])
      BY <2>5 DEF OneMoreStart
    <3> HIDE DEF round, t
    <3>3. QED BY <3>1, <3>2, <2>7, <1>2, <1>3
  <2>9. QED BY <2>4, <2>8
<1>5. PassOver(S) = g[S]
  BY <1>4 DEF PassOver, h
<1>6. QED BY <1>5 DEF g

\* odds.py:312: whatever starts are in the games table, the single pass counts those
\* still ahead that no other start ahead precedes by at most CLUSTER_GAP.
THEOREM PassCountsChains ==
  ASSUME NEW starts, starts \subseteq Int, NEW at \in Int
  PROVE  RemainingStartClusters(starts, at) = Cardinality(Heads(Ahead(starts, at)))
<1>1. Horizon \in Nat
  BY MatchingAssumption
<1>2. Ahead(starts, at) \subseteq at .. at + Horizon
  <2>1. ASSUME NEW t \in Ahead(starts, at) PROVE t \in at .. at + Horizon
    <3>1. t \in Int /\ at < t /\ t <= at + Horizon
      BY DEF Ahead
    <3>2. QED BY <3>1, <1>1
  <2>2. QED BY <2>1
<1>3. QED BY <1>1, <1>2, ClustersForm, PassCountsHeads

\* The schedule maps finitely many games to times.
SlateSound == /\ IsFiniteSet(DOMAIN schedule)
              /\ \A pk \in DOMAIN schedule : schedule[pk] \in Times
              /\ now \in Times

\* Upserts and the clock keep the schedule sound.
LEMMA SlateInductive == SlateSpec => []SlateSound
<1>1. SlateInit => SlateSound
  BY FS_EmptySet, SlateAssumption DEF SlateInit, SlateSound, Times
<1>2. SlateSound /\ [SlateNext]_slateVars => SlateSound'
  <2>1. SUFFICES ASSUME SlateSound, [SlateNext]_slateVars PROVE SlateSound'
    OBVIOUS
  <2>2. CASE TimePasses \/ UNCHANGED slateVars
    BY <2>1, <2>2, SlateAssumption DEF TimePasses, slateVars, SlateSound, Times
  <2>3. ASSUME NEW pk \in Pks, NEW start \in Times, Upsert(pk, start)
        PROVE  SlateSound'
    <3>1. DOMAIN schedule' = DOMAIN schedule \cup {pk} /\ now' = now
      BY <2>3 DEF Upsert
    <3>2. IsFiniteSet(DOMAIN schedule')
      BY <3>1, <2>1, FS_AddElement DEF SlateSound
    <3>3. \A g \in DOMAIN schedule' : schedule'[g] \in Times
      BY <2>1, <2>3 DEF Upsert, SlateSound
    <3>4. QED BY <3>1, <3>2, <3>3, <2>1 DEF SlateSound
  <2>4. QED BY <2>1, <2>2, <2>3 DEF SlateNext
<1>3. QED BY <1>1, <1>2, PTL DEF SlateSpec

\* However upserts list and move the games and whatever time it is, the reserve counts
\* each chain of starts ahead once.
THEOREM ClustersCountChains == SlateSpec => []ClustersAreChains
<1>1. SlateSound => ClustersAreChains
  <2>1. SUFFICES ASSUME SlateSound PROVE ClustersAreChains
    OBVIOUS
  <2>2. Range(schedule) \subseteq Int /\ now \in Int
    BY <2>1, SlateAssumption DEF SlateSound, Times, Range
  <2>3. QED BY <2>2, PassCountsChains DEF ClustersAreChains, Ahead, Heads
<1>2. QED BY <1>1, SlateInductive, PTL

\* odds.py:277: no upsert leads the matcher to file an event under another game while
\* it is within MATCH_TOLERANCE of its own.
THEOREM OwnGameOrNone == SlateSpec => []NeverTheOtherGame
<1>1. SlateSound => NeverTheOtherGame
  BY NeverAnotherGame DEF SlateSound, NeverTheOtherGame
<1>2. QED BY <1>1, SlateInductive, PTL
=============================================================================
