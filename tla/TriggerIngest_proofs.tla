-------------------------- MODULE TriggerIngest_proofs --------------------------
(* Proofs about TriggerIngest for every set of callers, number of items, cap and *)
(* bound on failures.                                                            *)
EXTENDS TriggerIngest, FiniteSetTheorems, TLAPS

Covered(n) == \A i \in 1 .. n : i \in rows
InItem(c) == call[c].pc \in {"lookup", "create", "enqueue"}

\* What a tick has behind it: the rows of all items before the one in hand.
TickInv(c) ==
    /\ call[c].base \in 0 .. Items /\ call[c].limit \in 0 .. Items /\ Key(c) \in Int
    /\ At(c, "poll") => Covered(call[c].base)
    /\ InItem(c) /\ Polls(c) => /\ Key(c) \in 1 .. call[c].limit
                                /\ Covered(Key(c) - 1)
    /\ At(c, "enqueue") => Key(c) \in rows \ jobs
    /\ At(c, "advance") => Covered(call[c].limit)
    /\ call[c].pc \in {"read", "poll", "advance"} => Polls(c)
    /\ At(c, "commit") => ~Polls(c) /\ IsFiniteSet(call[c].snap)

Ranges ==
    /\ published \in 0 .. Items /\ cursor \in 0 .. Items /\ failures \in Nat
    /\ call \in [Calls -> [pc : Points, base : Int, at : Int, limit : Int, snap : SUBSET Int]]
    /\ rows \subseteq Int /\ IsFiniteSet(rows) /\ jobs \subseteq rows
    /\ serial \subseteq rows

IngestInv ==
    /\ Ranges
    /\ \A c \in Calls : TickInv(c)
    /\ CursorCoversRows /\ StrandedOnlyByFailure /\ OneEnqueuer /\ SerialisedWithinCap

LEMMA IngestInit == Init => IngestInv
<1> SUFFICES ASSUME Init PROVE IngestInv
  OBVIOUS
<1>1. Ranges
  BY IngestAssumption, FS_EmptySet DEF Init, Ranges, Points, Idle
<1>2. \A c \in Calls : TickInv(c)
  BY IngestAssumption DEF Init, TickInv, Idle, At, Key, InItem
<1>3. CursorCoversRows /\ StrandedOnlyByFailure /\ OneEnqueuer
  BY DEF Init, CursorCoversRows, StrandedOnlyByFailure, OneEnqueuer, Idle, At
<1>4. SerialisedWithinCap
  BY IngestAssumption, FS_EmptySet DEF Init, SerialisedWithinCap
<1> QED BY <1>1, <1>2, <1>3, <1>4 DEF IngestInv

Place == [pc : Points, base : Int, at : Int, limit : Int, snap : SUBSET Int]

\* A call keeps what it relies on while another call works: rows only grow, and nobody
\* else adds the job it is about to add.
LEMMA OthersKept ==
    ASSUME IngestInv, NEW c \in Calls, NEW d \in Calls \ {c}, call'[d] = call[d],
           rows \subseteq rows',
           \A k \in jobs' : k \in jobs \/ (At(c, "enqueue") /\ k = Key(c))
    PROVE  TickInv(d)'
<1>1. TickInv(d)
  BY DEF IngestInv
<1>2. At(d, "enqueue") => Key(d) \notin jobs'
  BY <1>1 DEF IngestInv, OneEnqueuer, TickInv
<1> QED BY <1>1, <1>2 DEF TickInv, Covered, At, Key, InItem

\* Where a call goes to and what it carries, and what the table gains by it.
LEMMA Effects ==
    ASSUME IngestInv, NEW c \in Calls, NEW x \in Place, call' = [call EXCEPT ![c] = x],
           published' \in 0 .. Items,
           cursor' = cursor \/ (cursor' \in 0 .. Items /\ CursorCoversRows'),
           \/ UNCHANGED <<rows, serial, jobs>>
           \/ /\ jobs' = jobs \union {Key(c)} /\ At(c, "enqueue") /\ UNCHANGED <<rows, serial>>
           \/ /\ Key(c) \notin rows /\ rows' = rows \union {Key(c)} /\ UNCHANGED jobs
              /\ x.pc = "enqueue" /\ x.at = Key(c)
              /\ serial' = serial
                 \/ (serial' = serial \union {Key(c)} /\ Cardinality(serial') <= Cap),
           rows' = rows => x.pc # "enqueue",
           \/ failures' = failures /\ (At(c, "enqueue") => Key(c) \in jobs')
           \/ failures' = failures + 1,
           TickInv(c)'
    PROVE  IngestInv'
<1>1. /\ call' \in [Calls -> Place] /\ call'[c] = x
      /\ \A d \in Calls \ {c} : call'[d] = call[d]
  BY DEF IngestInv, Ranges, Place
<1>2. Ranges'
  <2>1. Key(c) \in Int /\ (At(c, "enqueue") => Key(c) \in rows)
    BY DEF IngestInv, TickInv
  <2>2. IsFiniteSet(rows')
    BY FS_AddElement DEF IngestInv, Ranges
  <2>3. rows' \subseteq Int /\ jobs' \subseteq rows' /\ serial' \subseteq rows'
    BY <2>1 DEF IngestInv, Ranges
  <2>4. cursor' \in 0 .. Items /\ failures' \in Nat
    BY DEF IngestInv, Ranges
  <2> QED BY <1>1, <2>2, <2>3, <2>4 DEF Ranges, Place
<1>3. rows \subseteq rows' /\ jobs \subseteq jobs'
  OBVIOUS
<1>4. \A d \in Calls : TickInv(d)'
  BY <1>1, <1>3, OthersKept
<1>5. CursorCoversRows'
  BY <1>3 DEF IngestInv, CursorCoversRows
<1>6. OneEnqueuer'
  <2> SUFFICES ASSUME NEW d \in Calls, NEW e \in Calls, d # e,
                      At(d, "enqueue")', At(e, "enqueue")', Key(d)' = Key(e)'
               PROVE  FALSE
    BY <1>4 DEF OneEnqueuer, TickInv
  <2>1. CASE d # c /\ e # c
    BY <1>1, <2>1 DEF IngestInv, OneEnqueuer, At, Key
  <2>2. CASE d = c \/ e = c
    <3>1. x.pc = "enqueue" /\ Key(c) \notin rows /\ x.at = Key(c)
      BY <1>1, <2>2 DEF At
    <3>2. PICK f \in Calls \ {c} : At(f, "enqueue") /\ Key(f) = Key(c)
      BY <1>1, <2>2, <3>1 DEF At, Key
    <3> QED BY <3>1, <3>2 DEF IngestInv, TickInv
  <2> QED BY <2>1, <2>2
<1>7. StrandedOnlyByFailure'
  <2> SUFFICES ASSUME failures' = 0, NEW k \in rows' \ jobs' PROVE InHand(k)'
    BY DEF StrandedOnlyByFailure
  <2>1. failures = 0 /\ (At(c, "enqueue") => Key(c) \in jobs')
    BY DEF IngestInv, Ranges
  <2>2. CASE k \in rows
    <3>1. PICK d \in Calls : At(d, "enqueue") /\ Key(d) = k
      BY <2>1, <2>2 DEF IngestInv, StrandedOnlyByFailure, InHand
    <3>2. d # c
      BY <2>1, <3>1
    <3> QED BY <1>1, <3>1, <3>2 DEF InHand, At, Key
  <2>3. CASE k \notin rows
    BY <1>1, <2>3 DEF InHand, At, Key
  <2> QED BY <2>2, <2>3
<1>8. SerialisedWithinCap'
  BY DEF IngestInv, SerialisedWithinCap
<1> QED BY <1>2, <1>4, <1>5, <1>6, <1>7, <1>8 DEF IngestInv

\* The ways a call goes on, as records.
LEMMA DoneForm ==
    ASSUME IngestInv, NEW c \in Calls, Done(c)
    PROVE  /\ Idle(c) \in Place /\ call' = [call EXCEPT ![c] = Idle(c)]
           /\ Idle(c).pc = "idle" /\ TickInv(c)'
<1>1. Idle(c) \in Place
  BY IngestAssumption DEF Idle, Place, Points
<1>2. call'[c] = Idle(c)
  BY DEF Done, IngestInv, Ranges
<1>3. /\ Idle(c).pc = "idle" /\ Idle(c).base = 0 /\ Idle(c).limit = 0 /\ Idle(c).at \in Int
  BY IngestAssumption DEF Idle
<1>4. TickInv(c)'
  <2>1. /\ call'[c].pc = "idle" /\ call'[c].base = 0 /\ call'[c].limit = 0 /\ call'[c].at \in Int
    BY <1>2, <1>3
  <2>2. 0 \in 0 .. Items
    BY IngestAssumption
  <2> QED BY <2>1, <2>2 DEF TickInv, At, Key, InItem
<1> QED BY <1>1, <1>3, <1>4 DEF Done

LEMMA GotoForm ==
    ASSUME IngestInv, NEW c \in Calls, NEW point \in Points, Goto(c, point)
    PROVE  \E x \in Place : /\ call' = [call EXCEPT ![c] = x] /\ call'[c] = x
                            /\ x = [call[c] EXCEPT !.pc = point] /\ x.pc = point
                            /\ x.at = Key(c) /\ x.base = call[c].base /\ x.limit = call[c].limit
                            /\ x.snap = call[c].snap
<1> DEFINE x == [call[c] EXCEPT !.pc = point]
<1>1. call[c] \in Place
  BY DEF IngestInv, Ranges, Place
<1>2. call' = [call EXCEPT ![c] = x]
  BY DEF Goto
<1>3. /\ x \in Place /\ x.pc = point /\ x.at = call[c].at /\ x.base = call[c].base
      /\ x.limit = call[c].limit /\ x.snap = call[c].snap
  BY <1>1 DEF Place
<1>4. call'[c] = x
  BY <1>2 DEF IngestInv, Ranges
<1>5. x = [call[c] EXCEPT !.pc = point]
  OBVIOUS
<1> HIDE DEF x
<1> QED BY <1>2, <1>3, <1>4, <1>5 DEF Key

LEMMA NextItemForm ==
    ASSUME IngestInv, NEW c \in Calls, NextItem(c), InItem(c), Key(c) \in rows', rows \subseteq rows'
    PROVE  \E x \in Place : /\ call' = [call EXCEPT ![c] = x] /\ x.pc # "enqueue" /\ TickInv(c)'
<1>0. TickInv(c) /\ call[c] \in Place
  BY DEF IngestInv, Ranges, Place
<1>1. CASE ~Polls(c)
  BY <1>1, DoneForm DEF NextItem
<1>2. CASE Polls(c) /\ Key(c) < call[c].limit
  <2> DEFINE x == [call[c] EXCEPT !.pc = "lookup", !.at = Key(c) + 1]
  <2>1. call' = [call EXCEPT ![c] = x]
    BY <1>2 DEF NextItem
  <2>0. Key(c) \in Int /\ Key(c) + 1 \in Int
    BY <1>0 DEF TickInv
  <2>2. x \in Place /\ x.pc = "lookup" /\ x.at = Key(c) + 1 /\ x.limit = call[c].limit
        /\ x.base = call[c].base
    BY <1>0, <2>0 DEF Place, Points
  <2> HIDE DEF x
  <2>3. call'[c] = x
    BY <2>1 DEF IngestInv, Ranges
  <2>5. Key(c) \in 1 .. call[c].limit /\ (\A i \in 1 .. Key(c) : i \in rows')
    BY <1>0, <1>2 DEF TickInv, Covered
  <2>6. TickInv(c)'
    BY <1>0, <1>2, <2>2, <2>3, <2>5, IngestAssumption DEF TickInv, Covered, At, Key, InItem
  <2> QED BY <2>1, <2>2, <2>6
<1>3. CASE Polls(c) /\ ~(Key(c) < call[c].limit)
  <2> DEFINE x == [call[c] EXCEPT !.pc = "advance"]
  <2>1. call' = [call EXCEPT ![c] = x]
    BY <1>3 DEF NextItem
  <2>2. x \in Place /\ x.pc = "advance" /\ x.at = Key(c) /\ x.limit = call[c].limit
        /\ x.base = call[c].base
    BY <1>0 DEF Place, Points, Key
  <2> HIDE DEF x
  <2>3. call'[c] = x
    BY <2>1 DEF IngestInv, Ranges
  <2>5. Key(c) = call[c].limit /\ (\A i \in 1 .. Key(c) : i \in rows')
    BY <1>0, <1>3, IngestAssumption DEF TickInv, Covered
  <2>6. TickInv(c)'
    BY <1>0, <1>3, <2>2, <2>3, <2>5 DEF TickInv, Covered, At, Key, InItem
  <2> QED BY <2>1, <2>2, <2>6
<1> QED BY <1>1, <1>2, <1>3

\* A step that only moves a call to another place, with its cursor or snapshot read.
LEMMA Moves ==
    ASSUME IngestInv, NEW c \in Calls, NEW x \in Place, call' = [call EXCEPT ![c] = x],
           UNCHANGED <<published, cursor, rows, serial, jobs, failures>>,
           x.pc # "enqueue", ~At(c, "enqueue"), TickInv(c)'
    PROVE  IngestInv'
<1>1. published' \in 0 .. Items
  BY DEF IngestInv, Ranges
<1> QED BY <1>1, Effects

LEMMA ReadCursorStep ==
    ASSUME IngestInv, NEW c \in Calls, ReadCursor(c) PROVE IngestInv'
<1> DEFINE x == [call[c] EXCEPT !.pc = "poll", !.base = cursor]
<1>0. TickInv(c) /\ call[c] \in Place /\ cursor \in 0 .. Items /\ cursor \in Int
  BY IngestAssumption DEF IngestInv, Ranges, Place
<1>1. call' = [call EXCEPT ![c] = x]
  BY DEF ReadCursor
<1>2. /\ x \in Place /\ x.pc = "poll" /\ x.base = cursor /\ x.limit = call[c].limit /\ x.at = call[c].at
  BY <1>0 DEF Place, Points
<1> HIDE DEF x
<1>3. call'[c] = x
  BY <1>1 DEF IngestInv, Ranges
<1>4. Covered(cursor)'  /\ UNCHANGED <<published, cursor, rows, serial, jobs, failures>>
  BY DEF IngestInv, CursorCoversRows, Covered, ReadCursor
<1>5. At(c, "read")
  BY DEF ReadCursor
<1>6. TickInv(c)'
  BY <1>0, <1>2, <1>3, <1>4, <1>5 DEF TickInv, Covered, At, Key, InItem
<1> QED BY <1>1, <1>2, <1>4, <1>5, <1>6, Moves DEF At

LEMMA PollStep ==
    ASSUME IngestInv, NEW c \in Calls, Poll(c) PROVE IngestInv'
<1>0. /\ TickInv(c) /\ call[c] \in Place /\ published \in 0 .. Items
      /\ At(c, "poll") /\ UNCHANGED <<published, cursor, rows, serial, jobs, failures>>
  BY DEF IngestInv, Ranges, Place, Poll
<1>1. /\ call[c].base \in 0 .. Items /\ Covered(call[c].base) /\ Polls(c)
      /\ published \in Int /\ call[c].base + 1 \in Int
  BY <1>0, IngestAssumption DEF TickInv, At
<1>2. CASE call[c].base < published
  <2> DEFINE x == [call[c] EXCEPT !.pc = "lookup", !.at = call[c].base + 1, !.limit = published]
  <2>1. call' = [call EXCEPT ![c] = x]
    BY <1>2 DEF Poll
  <2>2. /\ x \in Place /\ x.pc = "lookup" /\ x.at = call[c].base + 1 /\ x.limit = published
        /\ x.base = call[c].base
    BY <1>0, <1>1 DEF Place, Points
  <2> HIDE DEF x
  <2>3. call'[c] = x
    BY <2>1 DEF IngestInv, Ranges
  <2>4. (call[c].base + 1) \in 1 .. published /\ (\A i \in 1 .. ((call[c].base + 1) - 1) : i \in rows')
    BY <1>0, <1>1, <1>2, IngestAssumption DEF Covered
  <2>5. TickInv(c)'
    BY <1>0, <1>1, <2>2, <2>3, <2>4, IngestAssumption DEF TickInv, Covered, At, Key, InItem
  <2> QED BY <1>0, <2>1, <2>2, <2>5, Moves DEF At
<1>3. CASE ~(call[c].base < published)
  <2> DEFINE x == [call[c] EXCEPT !.pc = "advance", !.limit = call[c].base]
  <2>1. call' = [call EXCEPT ![c] = x]
    BY <1>3 DEF Poll
  <2>2. /\ x \in Place /\ x.pc = "advance" /\ x.at = call[c].at /\ x.limit = call[c].base
        /\ x.base = call[c].base
    BY <1>0, <1>1 DEF Place, Points
  <2> HIDE DEF x
  <2>3. call'[c] = x
    BY <2>1 DEF IngestInv, Ranges
  <2>5. TickInv(c)'
    BY <1>0, <1>1, <2>2, <2>3 DEF TickInv, Covered, At, Key, InItem
  <2> QED BY <1>0, <2>1, <2>2, <2>5, Moves DEF At
<1> QED BY <1>2, <1>3

\* A step that ends the call or takes it to another place without adding a row or a job.
LEMMA GotoStep ==
    ASSUME IngestInv, NEW c \in Calls, NEW point \in {"quota", "lookup", "create", "read"},
           Goto(c, point), UNCHANGED <<published, cursor, rows, serial, jobs, failures>>,
           ~At(c, "enqueue"),
           InItem(c)' /\ Polls(c) => InItem(c),
           point = "read" => Polls(c)
    PROVE  IngestInv'
<1>0. TickInv(c) /\ point \in Points
  BY DEF IngestInv, Points
<1>1. PICK x \in Place : /\ call' = [call EXCEPT ![c] = x] /\ call'[c] = x
                         /\ x.pc = point /\ x.at = Key(c) /\ x.base = call[c].base
                         /\ x.limit = call[c].limit
  BY <1>0, GotoForm
<1>2. TickInv(c)'
  BY <1>0, <1>1 DEF TickInv, Covered, At, Key, InItem
<1> QED BY <1>1, <1>2, Moves

LEMMA DoneStep ==
    ASSUME IngestInv, NEW c \in Calls, Done(c), ~At(c, "enqueue"),
           UNCHANGED <<published, cursor, rows, serial, jobs, failures>>
    PROVE  IngestInv'
  BY DoneForm, Moves

LEMMA BeginStep ==
    ASSUME IngestInv, NEW c \in Calls, Begin(c) PROVE IngestInv'
<1> DEFINE point == IF Door[c] \in {"poll", "manual"} THEN "quota" ELSE "lookup"
<1>1. /\ Goto(c, point) /\ point \in {"quota", "lookup"} /\ (Polls(c) => point = "quota")
      /\ At(c, "idle") /\ UNCHANGED <<published, cursor, rows, serial, jobs, failures>>
  BY DEF Begin, Polls
<1> HIDE DEF point
<1>2. call'[c].pc = point
  BY <1>1 DEF Goto, IngestInv, Ranges
<1> QED BY <1>1, <1>2, GotoStep DEF At, InItem

LEMMA CheckQuotaStep ==
    ASSUME IngestInv, NEW c \in Calls, CheckQuota(c) PROVE IngestInv'
<1> DEFINE point == CASE Door[c] = "poll" -> "read"
                      [] Door[c] = "manual" -> "lookup"
                      [] OTHER -> "create"
<1>1. /\ point \in {"read", "lookup", "create"} /\ (Polls(c) <=> point = "read")
      /\ At(c, "quota") /\ UNCHANGED <<published, cursor, rows, serial, jobs, failures>>
  BY DEF CheckQuota, Polls
<1>2. CASE ~UnderCap
  BY <1>1, <1>2, DoneStep DEF CheckQuota, At
<1>3. CASE UnderCap
  <2>1. Goto(c, point)
    BY <1>3 DEF CheckQuota
  <2> HIDE DEF point
  <2>2. call'[c].pc = point
    BY <2>1 DEF Goto, IngestInv, Ranges
  <2> QED BY <1>1, <2>1, <2>2, GotoStep DEF At, InItem
<1> QED BY <1>2, <1>3

LEMMA LookupStep ==
    ASSUME IngestInv, NEW c \in Calls, Lookup(c) PROVE IngestInv'
<1>1. At(c, "lookup") /\ InItem(c) /\ UNCHANGED <<published, cursor, rows, serial, jobs, failures>>
  BY DEF Lookup, At, InItem
<1>2. CASE Key(c) \in rows
  <2>1. PICK x \in Place : call' = [call EXCEPT ![c] = x] /\ x.pc # "enqueue" /\ TickInv(c)'
    BY <1>1, <1>2, NextItemForm DEF Lookup
  <2> QED BY <1>1, <2>1, Moves DEF At
<1>3. CASE Key(c) \notin rows
  <2> DEFINE point == IF Door[c] \in {"poll", "manual"} THEN "create" ELSE "quota"
  <2>1. Goto(c, point) /\ point \in {"create", "quota"}
    BY <1>3 DEF Lookup
  <2> HIDE DEF point
  <2> QED BY <1>1, <2>1, GotoStep DEF At
<1> QED BY <1>2, <1>3

LEMMA CreateStep ==
    ASSUME IngestInv, NEW c \in Calls, Create(c) PROVE IngestInv'
<1>0. /\ At(c, "create") /\ InItem(c) /\ UNCHANGED <<published, cursor, serial, jobs, failures>>
      /\ TickInv(c) /\ published \in 0 .. Items
  BY DEF Create, At, InItem, IngestInv, Ranges
<1>1. CASE Key(c) \in rows
  <2>1. UNCHANGED rows /\ NextItem(c)
    BY <1>1 DEF Create
  <2>2. PICK x \in Place : call' = [call EXCEPT ![c] = x] /\ x.pc # "enqueue" /\ TickInv(c)'
    BY <1>0, <1>1, <2>1, NextItemForm
  <2> QED BY <1>0, <2>1, <2>2, Moves DEF At
<1>2. CASE Key(c) \notin rows
  <2>1. rows' = rows \union {Key(c)} /\ Goto(c, "enqueue") /\ "enqueue" \in Points
    BY <1>2 DEF Create, Points
  <2>2. PICK x \in Place : /\ call' = [call EXCEPT ![c] = x] /\ call'[c] = x
                           /\ x.pc = "enqueue" /\ x.at = Key(c) /\ x.base = call[c].base
                           /\ x.limit = call[c].limit
    BY <2>1, GotoForm
  <2>3. Key(c) \notin jobs
    BY <1>2 DEF IngestInv, Ranges
  <2>4. TickInv(c)'
    BY <1>0, <2>1, <2>2, <2>3 DEF TickInv, Covered, At, Key, InItem
  <2> QED BY <1>0, <1>2, <2>1, <2>2, <2>4, Effects DEF At
<1> QED BY <1>1, <1>2

LEMMA BeginTransactionStep ==
    ASSUME IngestInv, NEW c \in Calls, BeginTransaction(c) PROVE IngestInv'
<1> DEFINE x == [call[c] EXCEPT !.pc = "commit", !.snap = rows]
<1>0. /\ TickInv(c) /\ call[c] \in Place /\ rows \in SUBSET Int /\ IsFiniteSet(rows)
      /\ At(c, "create") /\ ~Polls(c)
      /\ UNCHANGED <<published, cursor, rows, serial, jobs, failures>>
  BY DEF IngestInv, Ranges, Place, BeginTransaction, Polls
<1>1. call' = [call EXCEPT ![c] = x]
  BY DEF BeginTransaction
<1>2. /\ x \in Place /\ x.pc = "commit" /\ x.snap = rows /\ x.base = call[c].base
      /\ x.limit = call[c].limit /\ x.at = call[c].at
  BY <1>0 DEF Place, Points
<1> HIDE DEF x
<1>3. call'[c] = x
  BY <1>1 DEF IngestInv, Ranges
<1>4. TickInv(c)'
  BY <1>0, <1>2, <1>3 DEF TickInv, At, Key, InItem
<1> QED BY <1>0, <1>1, <1>2, <1>4, Moves DEF At

LEMMA EndTransactionStep ==
    ASSUME IngestInv, NEW c \in Calls, EndTransaction(c) PROVE IngestInv'
<1>0. /\ TickInv(c) /\ call[c] \in Place /\ At(c, "commit") /\ ~Polls(c) /\ IsFiniteSet(call[c].snap)
      /\ UNCHANGED <<published, cursor, jobs, failures>> /\ published \in 0 .. Items
  BY DEF IngestInv, Ranges, Place, EndTransaction, TickInv
<1>1. CASE ~Commits(c)
  BY <1>0, <1>1, DoneStep DEF EndTransaction, At
<1>2. CASE Commits(c)
  <2> DEFINE x == [call[c] EXCEPT !.pc = "enqueue", !.snap = {}]
  <2>1. /\ rows' = rows \union {Key(c)} /\ serial' = serial \union {Key(c)}
        /\ call' = [call EXCEPT ![c] = x]
    BY <1>2 DEF EndTransaction
  <2>2. /\ x \in Place /\ x.pc = "enqueue" /\ x.at = call[c].at /\ x.base = call[c].base
        /\ x.limit = call[c].limit
    BY <1>0 DEF Place, Points
  <2> HIDE DEF x
  <2>3. call'[c] = x
    BY <2>1 DEF IngestInv, Ranges
  <2>4. Key(c) \notin rows /\ Key(c) \notin jobs
    BY <1>2 DEF Commits, IngestInv, Ranges
  <2>5. TickInv(c)'
    BY <1>0, <2>1, <2>2, <2>3, <2>4 DEF TickInv, At, Key, InItem
  <2>6. Cardinality(serial') <= Cap
    <3> DEFINE visible == call[c].snap \union {Key(c)}
    <3>1. serial' \subseteq visible /\ Cardinality(visible) <= Cap
      BY <1>2, <2>1 DEF Commits, WithinCap
    <3>2. IsFiniteSet(visible)
      BY <1>0, FS_AddElement
    <3> HIDE DEF visible
    <3>3. Cardinality(serial') <= Cardinality(visible) /\ IsFiniteSet(serial')
      BY <3>1, <3>2, FS_Subset
    <3>4. Cardinality(serial') \in Nat /\ Cardinality(visible) \in Nat
      BY <3>2, <3>3, FS_CardinalityType
    <3> QED BY <3>1, <3>3, <3>4, IngestAssumption
  <2>7. x.at = Key(c) /\ ~At(c, "enqueue") /\ rows' # rows
    BY <1>0, <2>1, <2>2, <2>4 DEF At, Key
  <2> QED BY <1>0, <2>1, <2>2, <2>4, <2>5, <2>6, <2>7, Effects
<1> QED BY <1>1, <1>2

LEMMA EnqueueStep ==
    ASSUME IngestInv, NEW c \in Calls, Enqueue(c) PROVE IngestInv'
<1>1. /\ At(c, "enqueue") /\ InItem(c) /\ Key(c) \in rows /\ NextItem(c)
      /\ jobs' = jobs \union {Key(c)}
      /\ UNCHANGED <<published, cursor, rows, serial, failures>> /\ published \in 0 .. Items
  BY DEF Enqueue, At, InItem, IngestInv, TickInv, Ranges
<1>2. PICK x \in Place : call' = [call EXCEPT ![c] = x] /\ x.pc # "enqueue" /\ TickInv(c)'
  BY <1>1, NextItemForm
<1> QED BY <1>1, <1>2, Effects

LEMMA AdvanceStep ==
    ASSUME IngestInv, NEW c \in Calls, Advance(c) PROVE IngestInv'
<1>1. /\ At(c, "advance") /\ cursor' \in {cursor, call[c].limit} /\ Done(c)
      /\ UNCHANGED <<published, rows, serial, jobs, failures>> /\ published \in 0 .. Items
  BY DEF Advance, AdvanceCursorTo, IngestInv, Ranges
<1>2. cursor' = cursor \/ (cursor' \in 0 .. Items /\ CursorCoversRows')
  BY <1>1 DEF IngestInv, TickInv, Covered, CursorCoversRows, At
<1>3. ~At(c, "enqueue")
  BY <1>1 DEF At
<1> QED BY <1>1, <1>2, <1>3, DoneForm, Effects

LEMMA FailStep ==
    ASSUME IngestInv, NEW c \in Calls, Fail(c) PROVE IngestInv'
<1>1. /\ Done(c) /\ failures' = failures + 1
      /\ UNCHANGED <<published, cursor, rows, serial, jobs>> /\ published \in 0 .. Items
  BY DEF Fail, IngestInv, Ranges
<1> QED BY <1>1, DoneForm, Effects

\* What only the provider or nobody does.
LEMMA PublishStep ==
    ASSUME IngestInv, \/ Publish
                      \/ UNCHANGED vars
    PROVE  IngestInv'
<1>1. /\ published' \in 0 .. Items
      /\ cursor' = cursor /\ rows' = rows /\ serial' = serial /\ jobs' = jobs
      /\ call' = call /\ failures' = failures
  BY IngestAssumption DEF IngestInv, Ranges, Publish, vars
<1>2. Ranges'
  BY <1>1 DEF IngestInv, Ranges
<1>3. ASSUME NEW c \in Calls PROVE TickInv(c)'
  <2>1. TickInv(c)
    BY DEF IngestInv
  <2> QED BY <1>1, <2>1 DEF TickInv, Covered, At, Key, InItem
<1>4. CursorCoversRows' /\ OneEnqueuer' /\ SerialisedWithinCap'
  BY <1>1 DEF IngestInv, CursorCoversRows, OneEnqueuer, SerialisedWithinCap, At, Key
<1>5. StrandedOnlyByFailure'
  BY <1>1 DEF IngestInv, StrandedOnlyByFailure, InHand, At, Key
<1> QED BY <1>2, <1>3, <1>4, <1>5 DEF IngestInv

LEMMA IngestStep == IngestInv /\ [Next]_vars => IngestInv'
<1> SUFFICES ASSUME IngestInv, [Next]_vars PROVE IngestInv'
  OBVIOUS
<1>1. CASE Publish \/ UNCHANGED vars
  BY <1>1, PublishStep
<1>2. ASSUME NEW c \in Calls, Fail(c) PROVE IngestInv'
  BY <1>2, FailStep
<1>3. ASSUME NEW c \in Calls, Step(c) PROVE IngestInv'
  BY <1>3, BeginStep, CheckQuotaStep, ReadCursorStep, PollStep, LookupStep, CreateStep,
     BeginTransactionStep, EndTransactionStep, EnqueueStep, AdvanceStep DEF Step
<1> QED BY <1>1, <1>2, <1>3 DEF Next

LEMMA IngestAlways == Spec => []IngestInv
  BY IngestInit, IngestStep, PTL DEF Spec

\* However ticks overlap and wherever they break off, the cursor stands behind no item
\* that has no execution row.
THEOREM CursorNeverSkips == Spec => []CursorCoversRows
<1>1. IngestInv => CursorCoversRows
  BY DEF IngestInv
<1> QED BY <1>1, IngestAlways, PTL

\* A run is created and never enqueued only where a call broke off in between.
THEOREM LostOnlyByFailure == Spec => []StrandedOnlyByFailure
<1>1. IngestInv => StrandedOnlyByFailure
  BY DEF IngestInv
<1> QED BY <1>1, IngestAlways, PTL

\* Callers racing for one idempotency key never enqueue one execution twice.
THEOREM NobodyElseEnqueues == Spec => []OneEnqueuer
<1>1. IngestInv => OneEnqueuer
  BY DEF IngestInv
<1> QED BY <1>1, IngestAlways, PTL

\* The serialisable transactions keep the manual runs within any cap.
THEOREM CapHolds == Spec => []SerialisedWithinCap
<1>1. IngestInv => SerialisedWithinCap
  BY DEF IngestInv
<1> QED BY <1>1, IngestAlways, PTL

\* The record a call becomes is one again.
LEMMA CallTyped ==
    ASSUME TypeOK, NEW c \in Calls, NEW x \in CallState, call' = [call EXCEPT ![c] = x]
    PROVE  call' \in [Calls -> CallState]
  BY DEF TypeOK

\* What a call turns into when it is over, goes on, or takes its next item.
LEMMA DoneTyped ==
    ASSUME TypeOK, NEW c \in Calls, Done(c) PROVE call' \in [Calls -> CallState]
<1>1. Idle(c) \in CallState
  BY IngestAssumption DEF Idle, CallState, Points, Keys
<1> QED BY <1>1, CallTyped DEF Done

LEMMA GotoTyped ==
    ASSUME TypeOK, NEW c \in Calls, NEW point \in Points, Goto(c, point)
    PROVE  call' \in [Calls -> CallState]
<1>1. [call[c] EXCEPT !.pc = point] \in CallState
  BY DEF TypeOK, CallState
<1>2. call' = [call EXCEPT ![c] = [call[c] EXCEPT !.pc = point]]
  BY DEF Goto
<1> QED BY <1>1, <1>2, CallTyped

LEMMA NextItemTyped ==
    ASSUME TypeOK, IngestInv, NEW c \in Calls, InItem(c), NextItem(c)
    PROVE  call' \in [Calls -> CallState]
<1>0. call[c] \in CallState
  BY DEF TypeOK
<1>1. CASE ~Polls(c)
  BY <1>1, DoneTyped DEF NextItem
<1>2. CASE Polls(c) /\ Key(c) < call[c].limit
  <2>1. Key(c) \in 1 .. call[c].limit /\ call[c].limit \in 0 .. Items
    BY <1>2 DEF IngestInv, TickInv
  <2>2. Key(c) + 1 \in Keys
    BY <1>2, <2>1, IngestAssumption DEF Keys
  <2>3. [call[c] EXCEPT !.pc = "lookup", !.at = Key(c) + 1] \in CallState
    BY <1>0, <2>2 DEF CallState, Points
  <2> QED BY <1>2, <2>3, CallTyped DEF NextItem
<1>3. CASE Polls(c) /\ ~(Key(c) < call[c].limit)
  <2>1. [call[c] EXCEPT !.pc = "advance"] \in CallState
    BY <1>0 DEF CallState, Points
  <2> QED BY <1>3, <2>1, CallTyped DEF NextItem
<1> QED BY <1>1, <1>2, <1>3

LEMMA TypeInit == Init => TypeOK
<1> SUFFICES ASSUME Init PROVE TypeOK
  OBVIOUS
<1>1. \A c \in Calls : Idle(c) \in CallState
  BY IngestAssumption DEF Idle, CallState, Points, Keys
<1> QED BY <1>1, IngestAssumption DEF Init, TypeOK

\* The place a call moves to; what it does to the table is typed once its key is.
LEMMA CallMoves ==
    ASSUME TypeOK, IngestInv, NEW c \in Calls, Step(c) \/ Fail(c)
    PROVE  call' \in [Calls -> CallState]
<1>0. call[c] \in CallState /\ cursor \in 0 .. Items /\ published \in 0 .. Items
      /\ rows \in SUBSET Keys
  BY DEF TypeOK
<1>1. CASE Begin(c)
  BY <1>1, GotoTyped DEF Begin, Points
<1>2. CASE CheckQuota(c)
  <2>1. CASE ~UnderCap
    BY <1>2, <2>1, DoneTyped DEF CheckQuota
  <2>2. CASE UnderCap
    <3>1. PICK point \in Points : Goto(c, point)
      BY <1>2, <2>2 DEF CheckQuota, Points
    <3> QED BY <3>1, GotoTyped
  <2> QED BY <2>1, <2>2
<1>3. CASE ReadCursor(c)
  <2>1. [call[c] EXCEPT !.pc = "poll", !.base = cursor] \in CallState
    BY <1>0 DEF CallState, Points
  <2> QED BY <1>3, <2>1, CallTyped DEF ReadCursor
<1>4. CASE Poll(c)
  <2>1. CASE call[c].base < published
    <3>1. call[c].base + 1 \in Keys
      BY <1>0, <2>1, IngestAssumption DEF Keys, CallState
    <3>2. [call[c] EXCEPT !.pc = "lookup", !.at = call[c].base + 1, !.limit = published]
            \in CallState
      BY <1>0, <3>1 DEF CallState, Points
    <3> QED BY <1>4, <2>1, <3>2, CallTyped DEF Poll
  <2>2. CASE ~(call[c].base < published)
    <3>1. [call[c] EXCEPT !.pc = "advance", !.limit = call[c].base] \in CallState
      BY <1>0 DEF CallState, Points
    <3> QED BY <1>4, <2>2, <3>1, CallTyped DEF Poll
  <2> QED BY <2>1, <2>2
<1>5. CASE Lookup(c)
  <2>1. InItem(c)
    BY <1>5 DEF Lookup, At, InItem
  <2>2. CASE Key(c) \in rows
    BY <1>5, <2>1, <2>2, NextItemTyped DEF Lookup
  <2>3. CASE Key(c) \notin rows
    BY <1>5, <2>3, GotoTyped DEF Lookup, Points
  <2> QED BY <2>2, <2>3
<1>6. CASE Create(c)
  <2>1. InItem(c)
    BY <1>6 DEF Create, At, InItem
  <2>2. CASE Key(c) \in rows
    BY <1>6, <2>1, <2>2, NextItemTyped DEF Create
  <2>3. CASE Key(c) \notin rows
    BY <1>6, <2>3, GotoTyped DEF Create, Points
  <2> QED BY <2>2, <2>3
<1>7. CASE BeginTransaction(c)
  <2>1. [call[c] EXCEPT !.pc = "commit", !.snap = rows] \in CallState
    BY <1>0 DEF CallState, Points
  <2> QED BY <1>7, <2>1, CallTyped DEF BeginTransaction
<1>8. CASE EndTransaction(c)
  <2>1. CASE Commits(c)
    <3>1. [call[c] EXCEPT !.pc = "enqueue", !.snap = {}] \in CallState
      BY <1>0 DEF CallState, Points
    <3> QED BY <1>8, <2>1, <3>1, CallTyped DEF EndTransaction
  <2>2. CASE ~Commits(c)
    BY <1>8, <2>2, DoneTyped DEF EndTransaction
  <2> QED BY <2>1, <2>2
<1>9. CASE Enqueue(c)
  BY <1>9, NextItemTyped DEF Enqueue, At, InItem
<1>10. CASE Advance(c)
  BY <1>10, DoneTyped DEF Advance
<1>11. CASE Fail(c)
  BY <1>11, DoneTyped DEF Fail
<1> QED BY <1>1, <1>2, <1>3, <1>4, <1>5, <1>6, <1>7, <1>8, <1>9, <1>10, <1>11 DEF Step

LEMMA TypeStep == TypeOK /\ IngestInv /\ [Next]_vars => TypeOK'
<1> SUFFICES ASSUME TypeOK, IngestInv, [Next]_vars PROVE TypeOK'
  OBVIOUS
<1>1. CASE Publish \/ UNCHANGED vars
  BY <1>1, IngestAssumption DEF TypeOK, Publish, vars
<1>2. ASSUME NEW c \in Calls, Step(c) \/ Fail(c) PROVE TypeOK'
  <2>1. Key(c) \in Keys /\ call[c].limit \in 0 .. Items /\ (At(c, "enqueue") => Key(c) \in rows)
    BY DEF TypeOK, CallState, Key, IngestInv, TickInv
  <2>2. /\ published' = published
        /\ cursor' \in {cursor, call[c].limit}
        /\ failures' = failures \/ (failures < MaxFailures /\ failures' = failures + 1)
    BY <1>2 DEF Step, Fail, Begin, CheckQuota, ReadCursor, Poll, Lookup, Create,
       BeginTransaction, EndTransaction, Enqueue, Advance, AdvanceCursorTo
  <2>3. /\ rows' \in {rows, rows \union {Key(c)}}
        /\ serial' = serial \/ (serial' = serial \union {Key(c)} /\ rows' = rows \union {Key(c)})
        /\ jobs' = jobs \/ (jobs' = jobs \union {Key(c)} /\ At(c, "enqueue"))
    BY <1>2 DEF Step, Fail, Begin, CheckQuota, ReadCursor, Poll, Lookup, Create,
       BeginTransaction, EndTransaction, Enqueue, Advance
  <2>4. rows' \subseteq Keys /\ serial' \subseteq rows' /\ jobs' \subseteq rows'
    BY <2>1, <2>3 DEF TypeOK
  <2>5. published' \in 0 .. Items /\ cursor' \in 0 .. Items /\ failures' \in 0 .. MaxFailures
    BY <2>1, <2>2, IngestAssumption DEF TypeOK
  <2>6. call' \in [Calls -> CallState]
    BY <1>2, CallMoves
  <2> QED BY <2>4, <2>5, <2>6 DEF TypeOK
<1> QED BY <1>1, <1>2 DEF Next

\* What every tick, request and row holds keeps its type, whoever interleaves: the key in
\* hand is an item's or the request's own, and no tick steps over the end of its window.
THEOREM TypeCorrect == Spec => []TypeOK
<1>1. Spec => [](TypeOK /\ IngestInv)
  BY TypeInit, TypeStep, IngestInit, IngestStep, PTL DEF Spec
<1> QED BY <1>1, PTL
=================================================================================
