--------------------------- MODULE EditorSession_proofs ---------------------------
(* Theorems about EditorSession, for any workflows, places for saves, length of the *)
(* history and number of edits.  What undo reaches depends on the length of the     *)
(* history.  What a clean page shows depends on what a save that nothing has outrun *)
(* holds, and on the answer a loading page waits for.                               *)
EXTENDS EditorSession, SequenceTheorems, TLAPS

Saves == [pc : {"idle", "sent", "landed"}, to : Workflows \union {None}, def : Definition,
          outrun : BOOLEAN]
Fetches == [pc : {"idle", "asked", "answered"}, def : Definition, outrun : BOOLEAN]

\* What the assumption says of the constants.
LEMMA Bounds ==
    HISTORY_LIMIT \in Nat /\ HISTORY_LIMIT >= 1 /\ MaxEdits \in Nat
  BY EditorAssumption

\* There is no workflow without a name.
LEMMA NoneIsNone == None \notin Workflows
  BY EditorAssumption

\* An empty canvas, and one that an edit has changed.
LEMMA Definitions ==
    /\ Fresh(None) \in Definition
    /\ \A w \in Workflows : Fresh(w) \in Definition
    /\ Idle \in Saves /\ NoFetch \in Fetches
    /\ \A d \in Definition, n \in 0 .. MaxEdits :
          [d EXCEPT !.shape = n] \in Definition /\ [d EXCEPT !.place = n] \in Definition
  BY Bounds DEF Definition, Fresh, Idle, NoFetch, Saves, Fetches

-----------------------------------------------------------------------------------
(* Snapshots                                                                      *)

\* The bottom of the history with the canvas on top: what undoing everything reaches.
Bottom(snapshots, top) == IF snapshots = <<>> THEN top ELSE snapshots[1]

\* It is the head of the two.
LEMMA BottomIsHead ==
    ASSUME NEW s \in Seq(Definition), NEW d \in Definition
    PROVE  Head(Append(s, d)) = Bottom(s, d)
  <1>1. Append(s, d) \in Seq(Definition) /\ Append(s, d) # <<>>
    BY AppendProperties
  <1>2. Head(Append(s, d)) = Append(s, d)[1]
    BY <1>1
  <1>3. CASE s = <<>>
    BY <1>2, <1>3, AppendProperties DEF Bottom
  <1>4. CASE s # <<>>
    <2>1. 1 \in 1 .. Len(s)
      BY <1>4
    <2> QED
      BY <1>2, <1>4, <2>1, AppendProperties DEF Bottom
  <1> QED
    BY <1>3, <1>4

\* A pushed snapshot lies on top, and the bottom stays unless the limit is reached.
LEMMA PushedProperties ==
    ASSUME NEW s \in Seq(Definition), Len(s) <= HISTORY_LIMIT, NEW d \in Definition
    PROVE  /\ Pushed(s, d) \in Seq(Definition)
           /\ Len(Pushed(s, d)) <= HISTORY_LIMIT
           /\ Len(s) # HISTORY_LIMIT => \A e \in Definition : Bottom(Pushed(s, d), e) = Bottom(s, d)
  <1> DEFINE n == Append(s, d)
  <1>1. /\ n \in Seq(Definition) /\ n # <<>> /\ Len(n) = Len(s) + 1
        /\ \A i \in 1 .. Len(s) : n[i] = s[i]
        /\ n[Len(s) + 1] = d /\ Len(s) \in Nat
    BY AppendProperties
  <1>2. CASE Len(n) > HISTORY_LIMIT
    <2>1. Pushed(s, d) = SubSeq(n, 2, Len(n))
      BY <1>2 DEF Pushed
    <2>2. /\ SubSeq(n, 2, Len(n)) \in Seq(Definition)
          /\ Len(SubSeq(n, 2, Len(n))) = IF 2 <= Len(n) THEN Len(n) - 2 + 1 ELSE 0
      <3>1. \A i \in 2 .. Len(n) : n[i] \in Definition
        BY <1>1
      <3> QED
        BY <1>1, <3>1, SubSeqProperties
    <2>3. Len(s) = HISTORY_LIMIT
      BY <1>1, <1>2, Bounds
    <2> QED
      BY <1>1, <2>1, <2>2, <2>3, Bounds
  <1>3. CASE ~(Len(n) > HISTORY_LIMIT)
    <2>1. Pushed(s, d) = n
      BY <1>3 DEF Pushed
    <2>2. ASSUME NEW e \in Definition PROVE Bottom(n, e) = Bottom(s, d)
      BY <1>1 DEF Bottom
    <2> HIDE DEF n
    <2> QED
      BY <1>1, <1>3, <2>1, <2>2, Bounds
  <1> QED
    BY <1>2, <1>3

\* The last snapshot comes off, and the bottom stays.
LEMMA PoppedProperties ==
    ASSUME NEW s \in Seq(Definition), s # <<>>
    PROVE  /\ Last(s) \in Definition
           /\ Front(s) \in Seq(Definition)
           /\ Len(Front(s)) = Len(s) - 1
           /\ \A e \in Definition : Bottom(Front(s), Last(s)) = Bottom(s, e)
  <1>1. Len(s) \in Nat /\ Len(s) >= 1 /\ \A i \in 1 .. Len(s) : s[i] \in Definition
    BY EmptySeq
  <1>2. Last(s) \in Definition
    BY <1>1 DEF Last
  <1>3. /\ Front(s) \in Seq(Definition)
        /\ Len(Front(s)) = IF 1 <= Len(s) - 1 THEN Len(s) - 1 - 1 + 1 ELSE 0
        /\ \A i \in 1 .. Len(s) - 1 - 1 + 1 : Front(s)[i] = s[1 + i - 1]
    <2>1. \A i \in 1 .. Len(s) - 1 : s[i] \in Definition
      BY <1>1
    <2> QED
      BY <1>1, <2>1, SubSeqProperties DEF Front
  <1>4. Len(Front(s)) = Len(s) - 1
    <2> DEFINE m == Len(s)
               l == Len(Front(s))
    <2>1. l = IF 1 <= m - 1 THEN m - 1 - 1 + 1 ELSE 0
      BY <1>3
    <2>2. m \in Nat /\ m >= 1
      BY <1>1
    <2> HIDE DEF m, l
    <2>3. l = m - 1
      BY <2>1, <2>2
    <2> QED
      BY <2>3 DEF m, l
  <1>5. ASSUME NEW e \in Definition PROVE Bottom(Front(s), Last(s)) = Bottom(s, e)
    <2>1. CASE Len(s) = 1
      <3>1. Front(s) = <<>>
        BY <1>3, <1>4, <2>1
      <3> QED
        BY <2>1, <3>1 DEF Bottom, Last
    <2>2. CASE Len(s) # 1
      <3>1. Front(s) # <<>> /\ Front(s)[1] = s[1]
        BY <1>1, <1>3, <1>4, <2>2
      <3> QED
        BY <3>1 DEF Bottom
    <2> QED
      BY <2>1, <2>2
  <1> QED
    BY <1>2, <1>3, <1>4, <1>5

-----------------------------------------------------------------------------------
(* The inductive invariant                                                        *)

\* A save that nothing has outrun holds the canvas, and the server has it once it landed.
Tracked ==
    \A s \in Savers : saves[s].pc # "idle" /\ ~saves[s].outrun =>
        /\ Ready /\ saves[s].to = page /\ saves[s].def = canvas
        /\ saves[s].pc = "landed" => server[page] = canvas

\* An answer that no save has outrun is what the server has.
Fetched ==
    /\ fetch.pc # "idle" => page # None
    /\ fetch.pc = "answered" /\ ~fetch.outrun => fetch.def = server[page]

Undoable == open # None /\ ~trimmed => Bottom(past, canvas).shape = loaded.shape
Inv == TypeOK /\ Tracked /\ Fetched /\ CleanIsSaved /\ Undoable

\* The editor is empty and the server has what it was set up with.
LEMMA InitInv ==
    ASSUME Init
    PROVE  Inv
  <1>1. <<>> \in Seq(Definition) /\ Len(<<>>) = 0
    OBVIOUS
  <1>2. TypeOK
    <2>1. past \in Seq(Definition) /\ future \in Seq(Definition)
      BY <1>1 DEF Init
    <2>2. Len(past) + Len(future) <= HISTORY_LIMIT
      BY <1>1, Bounds DEF Init
    <2>3. /\ saves \in [Savers -> Saves] /\ server \in [Workflows -> Definition]
          /\ \A s \in Savers : saves[s].pc = "idle"
          /\ edits \in 0 .. MaxEdits /\ fetch \in Fetches
      BY Definitions, Bounds DEF Init, Idle
    <2> QED
      BY <2>1, <2>2, <2>3, Definitions DEF Init, TypeOK, Saves, Fetches
  <1>3. Tracked /\ Fetched /\ CleanIsSaved /\ Undoable
    BY DEF Init, Tracked, Fetched, Idle, NoFetch, CleanIsSaved, Ready, Undoable
  <1> QED
    BY <1>2, <1>3 DEF Inv

\* Once everything is outrun, no save holds anything in particular.
LEMMA OutrunProperties ==
    ASSUME saves \in [Savers -> Saves],
           \A s \in Savers : saves[s].pc # "idle" => saves[s].to \in Workflows
    PROVE  /\ Outrun \in [Savers -> Saves]
           /\ \A s \in Savers : Outrun[s].pc # "idle" => Outrun[s].to \in Workflows
           /\ \A s \in Savers : Outrun[s].pc # "idle" => Outrun[s].outrun
  BY DEF Outrun, Saves

\* A change of the canvas that pushes it on the history.
LEMMA CommitStep ==
    ASSUME Inv, Ready, NEW d \in Definition, Commit(d),
           UNCHANGED <<page, fetch, open, restoring, server, loaded>>, dragMoved' \in BOOLEAN,
           edits' \in 0 .. MaxEdits
    PROVE  Inv'
  <1>1. /\ past \in Seq(Definition) /\ future \in Seq(Definition) /\ canvas \in Definition
        /\ Len(past) + Len(future) <= HISTORY_LIMIT
    BY DEF Inv, TypeOK
  <1>2. Len(past) \in Nat /\ Len(future) \in Nat /\ Len(past) <= HISTORY_LIMIT
    BY <1>1, Bounds
  <1>3. /\ past' \in Seq(Definition) /\ Len(past') <= HISTORY_LIMIT
        /\ Len(past) # HISTORY_LIMIT => Bottom(past', d) = Bottom(past, canvas)
    BY <1>1, <1>2, PushedProperties DEF Commit
  <1>4. future' \in Seq(Definition) /\ Len(future') = 0
    BY DEF Commit
  <1>5. Len(past') + Len(future') <= HISTORY_LIMIT
    BY <1>3, <1>4, Bounds
  <1>6. /\ saves' \in [Savers -> Saves]
        /\ \A s \in Savers : saves'[s].pc # "idle" => saves'[s].to \in Workflows /\ saves'[s].outrun
    BY OutrunProperties DEF Commit, Inv, TypeOK, Saves
  <1>7. TypeOK'
    BY <1>3, <1>4, <1>5, <1>6 DEF Inv, TypeOK, Commit, Saves
  <1>8. Tracked' /\ Fetched' /\ CleanIsSaved'
    BY <1>6 DEF Commit, Inv, Tracked, Fetched, CleanIsSaved
  <1>9. Undoable'
    BY <1>3 DEF Commit, Inv, Undoable, TypeOK
  <1> QED
    BY <1>7, <1>8, <1>9 DEF Inv

\* A step through the history, to a canvas below which its bottom stays.
LEMMA HistoryStep ==
    ASSUME Inv, NEW d \in Definition, canvas' = d, isDirty' = TRUE, saves' = Outrun, blurred' = FALSE,
           past' \in Seq(Definition), future' \in Seq(Definition),
           Len(past') + Len(future') <= HISTORY_LIMIT, Bottom(past', d) = Bottom(past, canvas),
           UNCHANGED <<page, fetch, open, dragMoved, restoring, server, edits, loaded, trimmed>>
    PROVE  Inv'
  <1>1. /\ saves' \in [Savers -> Saves]
        /\ \A s \in Savers : saves'[s].pc # "idle" => saves'[s].to \in Workflows /\ saves'[s].outrun
    BY OutrunProperties DEF Inv, TypeOK, Saves
  <1>2. TypeOK'
    BY <1>1 DEF Inv, TypeOK, Saves
  <1>3. Tracked' /\ Fetched' /\ CleanIsSaved' /\ Undoable'
    BY <1>1 DEF Inv, Tracked, Fetched, CleanIsSaved, Undoable
  <1> QED
    BY <1>2, <1>3 DEF Inv

\* What a workflow is loaded with is clean if it is what the server has.
LEMMA LoadStep ==
    ASSUME Inv, NEW w \in Workflows, NEW d \in Definition, LoadWorkflow(w, d),
           UNCHANGED <<page, server, edits>>, blurred' \in BOOLEAN,
           restoring' \subseteq restoring, fetch' \in {fetch, NoFetch},
           ~blurred' => page # None /\ d = server[page]
    PROVE  Inv'
  <1>1. <<>> \in Seq(Definition) /\ Len(<<>>) = 0
    OBVIOUS
  <1>2. /\ saves' \in [Savers -> Saves]
        /\ \A s \in Savers : saves'[s].pc # "idle" => saves'[s].to \in Workflows /\ saves'[s].outrun
    BY OutrunProperties DEF LoadWorkflow, Inv, TypeOK, Saves
  <1>3. TypeOK'
    <2>1. past' \in Seq(Definition) /\ future' \in Seq(Definition)
      BY <1>1 DEF LoadWorkflow
    <2>2. Len(past') + Len(future') <= HISTORY_LIMIT
      BY <1>1, Bounds DEF LoadWorkflow
    <2>3. fetch' \in Fetches /\ restoring' \subseteq Workflows \X Definition
      BY Definitions DEF Inv, TypeOK, Fetches
    <2> QED
      BY <1>2, <2>1, <2>2, <2>3 DEF Inv, TypeOK, LoadWorkflow, Saves, Fetches
  <1>4. Tracked' /\ Fetched'
    BY <1>2 DEF Inv, Tracked, Fetched, NoFetch
  <1>5. CleanIsSaved'
    BY DEF LoadWorkflow, CleanIsSaved
  <1>6. Undoable'
    BY DEF LoadWorkflow, Undoable, Bottom
  <1> QED
    BY <1>3, <1>4, <1>5, <1>6 DEF Inv

\* The empty store of a page that is left.
LEMMA ResetStep ==
    ASSUME Inv, Reset, saves' \in [Savers -> Saves], UNCHANGED <<restoring, server, edits>>,
           \A s \in Savers : saves'[s].pc # "idle" => saves'[s].to \in Workflows /\ saves'[s].outrun
    PROVE  Inv'
  <1>1. <<>> \in Seq(Definition) /\ Len(<<>>) = 0
    OBVIOUS
  <1>2. TypeOK'
    <2>1. past' \in Seq(Definition) /\ future' \in Seq(Definition)
      BY <1>1 DEF Reset
    <2>2. Len(past') + Len(future') <= HISTORY_LIMIT
      BY <1>1, Bounds DEF Reset
    <2> QED
      BY <2>1, <2>2, Definitions DEF Inv, TypeOK, Reset, Saves, Fetches
  <1>3. Tracked' /\ Fetched' /\ CleanIsSaved' /\ Undoable'
    BY DEF Reset, NoFetch, Tracked, Fetched, CleanIsSaved, Ready, Undoable
  <1> QED
    BY <1>2, <1>3 DEF Inv

\* Requests and answers come and go while the store stays as it is.
LEMMA RequestStep ==
    ASSUME Inv, UNCHANGED <<open, canvas, dragMoved, history, edits, loaded>>,
           page' \in Workflows \union {None}, fetch' \in Fetches, isDirty' \in BOOLEAN,
           blurred' \in BOOLEAN, saves' \in [Savers -> Saves],
           \A s \in Savers : saves'[s].pc # "idle" => saves'[s].to \in Workflows,
           restoring' \subseteq Workflows \X Definition, server' \in [Workflows -> Definition],
           Tracked', Fetched', CleanIsSaved'
    PROVE  Inv'
  <1>1. TypeOK'
    BY DEF Inv, TypeOK, Saves, Fetches, history
  <1>2. Undoable'
    BY DEF Inv, Undoable, history
  <1> QED
    BY <1>1, <1>2 DEF Inv

\* Every action keeps the invariant.
LEMMA InvStep ==
    ASSUME Inv, [Next]_vars
    PROVE  Inv'
  <1>0. /\ past \in Seq(Definition) /\ future \in Seq(Definition) /\ canvas \in Definition
        /\ Len(past) + Len(future) <= HISTORY_LIMIT
        /\ saves \in [Savers -> Saves] /\ server \in [Workflows -> Definition]
        /\ \A s \in Savers : saves[s].pc # "idle" => saves[s].to \in Workflows
        /\ fetch \in Fetches /\ page \in Workflows \union {None} /\ isDirty \in BOOLEAN
        /\ restoring \subseteq Workflows \X Definition /\ blurred \in BOOLEAN
        /\ edits \in 0 .. MaxEdits /\ MaxEdits \in Nat
    BY Bounds DEF Inv, TypeOK, Saves, Fetches
  <1>1. CASE UNCHANGED vars
    BY <1>1 DEF vars, Inv, TypeOK, Tracked, Fetched, CleanIsSaved, Undoable, Ready
  <1>2. CASE Edit
    <2>1. edits + 1 \in 0 .. MaxEdits
      BY <1>0, <1>2 DEF Edit
    <2>2. [canvas EXCEPT !.shape = edits + 1] \in Definition
      BY <1>0, <2>1, Definitions
    <2> QED
      BY <1>2, <2>1, <2>2, CommitStep DEF Edit, Inv, TypeOK
  <1>3. CASE Drag
    <2>1. edits' \in 0 .. MaxEdits
      BY <1>0, <1>3 DEF Drag
    <2>2. canvas' \in Definition /\ canvas'.shape = canvas.shape
      BY <1>0, <1>3, <2>1, Definitions DEF Drag, Definition
    <2>3. /\ saves' \in [Savers -> Saves]
          /\ \A s \in Savers :
                saves'[s].pc # "idle" => saves'[s].to \in Workflows /\ saves'[s].outrun
      BY <1>0, <1>3, OutrunProperties DEF Drag
    <2>4. TypeOK'
      BY <1>3, <2>1, <2>2, <2>3 DEF Drag, Inv, TypeOK, Saves, history
    <2>5. Tracked' /\ Fetched' /\ CleanIsSaved'
      BY <1>3, <2>3 DEF Drag, Inv, Tracked, Fetched, CleanIsSaved
    <2>6. Undoable'
      BY <1>3, <2>2 DEF Drag, Inv, Undoable, Bottom, history
    <2> QED
      BY <2>4, <2>5, <2>6 DEF Inv
  <1>4. CASE Drop
    <2>1. CASE edits < MaxEdits /\ edits' = edits + 1 /\ Commit([canvas EXCEPT !.place = edits + 1])
      <3>1. edits + 1 \in 0 .. MaxEdits
        BY <1>0, <2>1
      <3>2. [canvas EXCEPT !.place = edits + 1] \in Definition
        BY <1>0, <3>1, Definitions
      <3> QED
        BY <1>4, <2>1, <3>1, <3>2, CommitStep DEF Drop
    <2>2. CASE UNCHANGED edits /\ Commit(canvas)
      BY <1>0, <1>4, <2>2, CommitStep DEF Drop
    <2> QED
      BY <1>4, <2>1, <2>2 DEF Drop
  <1>5. CASE Undo
    <2>1. /\ canvas' \in Definition /\ past' \in Seq(Definition)
          /\ Len(past') = Len(past) - 1 /\ Bottom(past', canvas') = Bottom(past, canvas)
      BY <1>0, <1>5, PoppedProperties DEF Undo
    <2>2. future' \in Seq(Definition) /\ Len(future') = Len(future) + 1
      BY <1>0, <1>5, AppendProperties DEF Undo
    <2>3. Len(past') + Len(future') <= HISTORY_LIMIT
      <3>1. Len(past) \in Nat /\ Len(future) \in Nat
        BY <1>0
      <3> QED
        BY <1>0, <2>1, <2>2, <3>1, Bounds
    <2> QED
      BY <1>5, <2>1, <2>2, <2>3, HistoryStep DEF Undo
  <1>6. CASE Redo
    <2>1. /\ canvas' \in Definition /\ future' \in Seq(Definition)
          /\ Len(future') = Len(future) - 1
      BY <1>0, <1>6, PoppedProperties DEF Redo
    <2>2. past' \in Seq(Definition) /\ Len(past') = Len(past) + 1
      BY <1>0, <1>6, AppendProperties DEF Redo
    <2>3. Bottom(past', canvas') = Bottom(past, canvas)
      <3>1. past' # <<>> /\ past'[1] = Head(past')
        BY <1>0, <1>6, <2>2, AppendProperties DEF Redo
      <3>2. Head(past') = Bottom(past, canvas)
        BY <1>0, <1>6, BottomIsHead DEF Redo
      <3> QED
        BY <3>1, <3>2 DEF Bottom
    <2>4. Len(past') + Len(future') <= HISTORY_LIMIT
      <3>1. Len(past) \in Nat /\ Len(future) \in Nat
        BY <1>0
      <3> QED
        BY <1>0, <2>1, <2>2, <3>1, Bounds
    <2> QED
      BY <1>6, <2>1, <2>2, <2>3, <2>4, HistoryStep DEF Redo
  <1>7. CASE Leave
    <2>1. /\ saves' \in [Savers -> Saves]
          /\ \A s \in Savers :
                saves'[s].pc # "idle" => saves'[s].to \in Workflows /\ saves'[s].outrun
      BY <1>0, <1>7, OutrunProperties DEF Leave
    <2> QED
      BY <1>7, <2>1, ResetStep DEF Leave
  <1>8. ASSUME NEW w \in Workflows, Open(w) PROVE Inv'
    <2>1. fetch' \in Fetches /\ fetch'.pc = "asked"
      BY <1>8, Definitions DEF Open, NoFetch, Fetches
    <2>2. Tracked' /\ Fetched' /\ CleanIsSaved'
      BY <1>8, <2>1, NoneIsNone DEF Open, Inv, Tracked, Fetched, CleanIsSaved, Ready
    <2> QED
      BY <1>0, <1>8, <2>1, <2>2, RequestStep DEF Open
  <1>9. CASE Answer
    <2>1. page \in Workflows
      BY <1>0, <1>9 DEF Answer, Inv, Fetched
    <2>2. fetch' \in Fetches /\ fetch'.pc = "answered" /\ fetch'.def = server[page]
      BY <1>0, <1>9, <2>1 DEF Answer, Fetches
    <2>3. Tracked' /\ Fetched' /\ CleanIsSaved'
      BY <1>9, <2>1, <2>2, NoneIsNone DEF Answer, Inv, Tracked, Fetched, CleanIsSaved, Ready
    <2> QED
      BY <1>0, <1>9, <2>2, <2>3, RequestStep DEF Answer
  <1>10. CASE Load
    <2>1. page \in Workflows /\ fetch.def \in Definition /\ fetch.outrun \in BOOLEAN
      BY <1>0, <1>10 DEF Load, Inv, Fetched, Fetches
    <2>2. ~fetch.outrun => fetch.def = server[page]
      BY <1>10 DEF Load, Inv, Fetched
    <2> QED
      BY <1>10, <2>1, <2>2, NoneIsNone, LoadStep DEF Load
  <1>11. ASSUME NEW w \in Workflows, NEW d \in Versions(w), RestoreAsk(w, d) PROVE Inv'
    <2>1. d \in Definition
      BY <1>0, Definitions DEF Versions
    <2>2. restoring' \subseteq Workflows \X Definition
      BY <1>0, <1>11, <2>1 DEF RestoreAsk
    <2>3. Tracked' /\ Fetched' /\ CleanIsSaved'
      BY <1>11 DEF RestoreAsk, Inv, Tracked, Fetched, CleanIsSaved, Ready
    <2> QED
      BY <1>0, <1>11, <2>2, <2>3, RequestStep DEF RestoreAsk
  <1>12. ASSUME NEW r \in restoring, RestoreLoad(r[1], r[2]) PROVE Inv'
    <2>1. r[1] \in Workflows /\ r[2] \in Definition
      BY <1>0
    <2> QED
      BY <1>12, <2>1, LoadStep DEF RestoreLoad
  <1>13. ASSUME NEW s \in Savers, SaveSend(s) PROVE Inv'
    <2>1. /\ saves' \in [Savers -> Saves] /\ page \in Workflows
          /\ \A t \in Savers : saves'[t].pc # "idle" => saves'[t].to \in Workflows
      BY <1>0, <1>13 DEF SaveSend, Ready, Saves
    <2>2. Tracked' /\ Fetched' /\ CleanIsSaved'
      BY <1>0, <1>13 DEF SaveSend, Inv, Tracked, Fetched, CleanIsSaved, Ready, Saves
    <2> QED
      BY <1>0, <1>13, <2>1, <2>2, RequestStep DEF SaveSend
  <1>14. ASSUME NEW s \in Savers, SaveLand(s) PROVE Inv'
    <2> DEFINE d == saves[s]
    <2>1. d \in Saves /\ d.to \in Workflows /\ d.pc = "sent" /\ d.outrun \in BOOLEAN
      BY <1>0, <1>14 DEF SaveLand, Saves
    <2>2. /\ server' \in [Workflows -> Definition] /\ server'[d.to] = d.def
          /\ \A w \in Workflows : w # d.to => server'[w] = server[w]
      BY <1>0, <1>14, <2>1 DEF SaveLand, Saves
    <2>3. /\ fetch' \in Fetches /\ fetch'.pc = fetch.pc /\ fetch'.def = fetch.def
          /\ fetch'.outrun = (fetch.outrun \/ (fetch.pc = "answered" /\ page = d.to))
      BY <1>0, <1>14 DEF SaveLand, Fetches
    <2>4. /\ saves' \in [Savers -> Saves]
          /\ \A t \in Savers : /\ saves'[t].to = saves[t].to /\ saves'[t].def = saves[t].def
                               /\ saves'[t].pc = IF t = s THEN "landed" ELSE saves[t].pc
                               /\ saves[t].outrun => saves'[t].outrun
          /\ \A t \in Savers \ {s} :
                d.outrun /\ saves[t].pc = "landed" /\ saves[t].to = d.to => saves'[t].outrun
      <3>1. saves' = [t \in Savers |->
                IF t = s THEN [d EXCEPT !.pc = "landed"]
                ELSE [saves[t] EXCEPT !.outrun =
                          @ \/ (d.outrun /\ saves[t].pc = "landed" /\ saves[t].to = d.to)]]
        BY <1>14 DEF SaveLand
      <3>2. ASSUME NEW t \in Savers
            PROVE  /\ saves'[t] \in Saves
                   /\ saves'[t].to = saves[t].to /\ saves'[t].def = saves[t].def
                   /\ saves'[t].pc = IF t = s THEN "landed" ELSE saves[t].pc
                   /\ saves[t].outrun => saves'[t].outrun
                   /\ t # s /\ d.outrun /\ saves[t].pc = "landed" /\ saves[t].to = d.to
                      => saves'[t].outrun
        <4>1. saves[t] \in Saves
          BY <1>0
        <4>2. CASE t = s
          BY <3>1, <4>1, <4>2 DEF Saves
        <4>3. CASE t # s
          <5>1. saves'[t] = [saves[t] EXCEPT !.outrun =
                    saves[t].outrun \/ (d.outrun /\ saves[t].pc = "landed" /\ saves[t].to = d.to)]
            BY <3>1, <4>3
          <5> HIDE DEF d
          <5> QED
            BY <4>1, <4>3, <5>1 DEF Saves
        <4> QED
          BY <4>2, <4>3
      <3> QED
        BY <3>1, <3>2
    <2>5. /\ blurred' = (blurred \/ (d.outrun /\ Ready /\ page = d.to /\ ~isDirty))
          /\ UNCHANGED <<page, open, canvas, isDirty, dragMoved, history, restoring, edits, loaded>>
      BY <1>14 DEF SaveLand
    <2>6. ~d.outrun => Ready /\ d.to = page /\ d.def = canvas
      BY <2>1 DEF Inv, Tracked
    <2>7. Ready' = Ready
      BY <2>3, <2>5 DEF Ready
    <2> HIDE DEF d
    <2>8. Tracked'
      <3> SUFFICES ASSUME NEW t \in Savers, saves'[t].pc # "idle", ~saves'[t].outrun
                   PROVE  /\ Ready /\ saves'[t].to = page /\ saves'[t].def = canvas
                          /\ saves'[t].pc = "landed" => server'[page] = canvas
        BY <2>5, <2>7 DEF Tracked
      <3>1. /\ saves[t].pc # "idle" /\ ~saves[t].outrun
        BY <2>1, <2>4 DEF d
      <3>2. /\ Ready /\ saves[t].to = page /\ saves[t].def = canvas /\ page \in Workflows
            /\ saves[t].pc = "landed" => server[page] = canvas
        BY <1>0, <3>1 DEF Inv, Tracked
      <3>3. CASE t = s
        BY <2>2, <2>4, <3>2, <3>3 DEF d
      <3>4. CASE t # s
        <4>1. CASE d.to = page
          BY <2>2, <2>4, <2>6, <3>2, <3>4, <4>1
        <4>2. CASE d.to # page
          BY <2>2, <2>4, <3>2, <3>4, <4>2
        <4> QED
          BY <4>1, <4>2
      <3> QED
        BY <3>3, <3>4
    <2>9. Fetched'
      BY <1>0, <2>2, <2>3, <2>5 DEF Inv, Fetched
    <2>10. CleanIsSaved'
      <3> SUFFICES ASSUME Ready, ~isDirty, ~dragMoved, ~blurred'
                   PROVE  canvas = server'[page]
        BY <2>5, <2>7 DEF CleanIsSaved
      <3>1. page \in Workflows /\ canvas = server[page]
        BY <1>0, <2>5 DEF Ready, Inv, CleanIsSaved
      <3>2. d.to = page => d.def = canvas
        BY <2>5, <2>6
      <3> QED
        BY <2>2, <3>1, <3>2
    <2>11. /\ blurred' \in BOOLEAN
           /\ \A t \in Savers : saves'[t].pc # "idle" => saves'[t].to \in Workflows
      BY <1>0, <2>1, <2>4, <2>5 DEF d
    <2> QED
      BY <1>0, <2>2, <2>3, <2>4, <2>5, <2>8, <2>9, <2>10, <2>11, RequestStep
  <1>15. ASSUME NEW s \in Savers, SaveDone(s) PROVE Inv'
    <2>1. CASE s \in Dialogs
      <3>1. saves' = [Outrun EXCEPT ![s] = Idle]
        BY <1>15, <2>1 DEF SaveDone
      <3>2. /\ saves' \in [Savers -> Saves]
            /\ \A t \in Savers :
                  saves'[t].pc # "idle" => saves'[t].to \in Workflows /\ saves'[t].outrun
        BY <1>0, <3>1, Definitions, OutrunProperties DEF Idle
      <3> QED
        BY <1>15, <2>1, <3>2, ResetStep DEF SaveDone
    <2>2. CASE s \notin Dialogs
      <3>1. MarkSaved(s) /\ saves' = [saves EXCEPT ![s] = Idle] /\ saves[s].pc = "landed"
            /\ UNCHANGED <<restoring, server, edits>>
        BY <1>15, <2>2 DEF SaveDone
      <3>2. /\ saves' \in [Savers -> Saves] /\ saves'[s].pc = "idle"
            /\ \A t \in Savers \ {s} : saves'[t] = saves[t]
        BY <1>0, <3>1, Definitions DEF Idle
      <3>3. Tracked' /\ Fetched'
        BY <3>1, <3>2 DEF MarkSaved, Inv, Tracked, Fetched, Ready
      <3>4. CleanIsSaved'
        <4>1. CASE saves[s].outrun
          BY <3>1, <4>1 DEF MarkSaved, Inv, CleanIsSaved, Ready
        <4>2. CASE ~saves[s].outrun
          BY <3>1, <4>2 DEF MarkSaved, Inv, Tracked, CleanIsSaved, Ready
        <4> QED
          BY <4>1, <4>2
      <3>5. blurred' \in BOOLEAN
        BY <3>1 DEF MarkSaved
      <3>6. \A t \in Savers : saves'[t].pc # "idle" => saves'[t].to \in Workflows
        BY <1>0, <3>2
      <3> QED
        BY <1>0, <3>1, <3>2, <3>3, <3>4, <3>5, <3>6, RequestStep DEF MarkSaved
    <2> QED
      BY <2>1, <2>2
  <1>16. ASSUME NEW s \in Savers, SaveFail(s) PROVE Inv'
    <2>1. /\ saves' \in [Savers -> Saves] /\ saves'[s].pc = "idle"
          /\ \A t \in Savers \ {s} : saves'[t] = saves[t]
      BY <1>0, <1>16, Definitions DEF SaveFail, Idle
    <2>2. Tracked' /\ Fetched' /\ CleanIsSaved'
      BY <1>16, <2>1 DEF SaveFail, Inv, Tracked, Fetched, CleanIsSaved, Ready
    <2>3. \A t \in Savers : saves'[t].pc # "idle" => saves'[t].to \in Workflows
      BY <1>0, <2>1
    <2> QED
      BY <1>0, <1>16, <2>1, <2>2, <2>3, RequestStep DEF SaveFail
  <1> QED
    BY <1>1, <1>2, <1>3, <1>4, <1>5, <1>6, <1>7, <1>8, <1>9, <1>10, <1>11, <1>12, <1>13, <1>14,
       <1>15, <1>16 DEF Next

\* So the invariant holds in every behaviour.
LEMMA InvAlways == Spec => []Inv
  BY InitInv, InvStep, PTL DEF Spec

\* Every reachable state is well typed, and past and future together never hold more
\* snapshots than the limit.
THEOREM TypeCorrect == Spec => []TypeOK
  <1>1. Inv => TypeOK
    BY DEF Inv
  <1> QED BY <1>1, InvAlways, PTL

\* A page that shows no unsaved changes has what the server has, whatever edits, undos,
\* saves, restores and visits went before, but for the named races of an answer with what
\* came between it and its request.
THEOREM CleanPageIsSaved == Spec => []CleanIsSaved
  <1>1. Inv => CleanIsSaved
    BY DEF Inv
  <1> QED BY <1>1, InvAlways, PTL

\* As long as nothing has fallen off the history, undoing everything leads back to the
\* workflow as it was loaded.
THEOREM UndoLeadsBack == Spec => []UndoReachesLoaded
  <1>1. ASSUME Inv PROVE UndoReachesLoaded
    <2>1. Head(Append(past, canvas)) = Bottom(past, canvas)
      BY <1>1, BottomIsHead DEF Inv, TypeOK
    <2> QED
      BY <1>1, <2>1 DEF Inv, Undoable, UndoReachesLoaded
  <1> QED BY <1>1, InvAlways, PTL
===================================================================================
