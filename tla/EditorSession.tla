------------------------------ MODULE EditorSession ------------------------------
(* One browser tab of the SPA on the workflow editor: the page with its request   *)
(* for the workflow, the editor store with its undo history, the saves under way  *)
(* from the toolbar, the hotkeys and the dialog that guards unsaved changes, the  *)
(* versions being restored, and the workflows on the server.  A definition is     *)
(* told apart by the edit that made it and by where its nodes lie; nobody else    *)
(* edits the workflows meanwhile, and a page is left before another one opens.    *)
EXTENDS Integers, Sequences, SequencesExt, FiniteSets

CONSTANTS
    Workflows,
    Savers,         \* places for saves under way
    Dialogs,        \* those of them the dialog uses: it leaves the page afterwards
    HISTORY_LIMIT,
    MaxEdits,       \* bound: changes in all
    MaxRestores     \* bound: restores under way at a time

None == "none"
ASSUME EditorAssumption ==
    /\ None \notin Workflows /\ Dialogs \subseteq Savers
    /\ HISTORY_LIMIT \in Nat \ {0} /\ {MaxEdits, MaxRestores} \subseteq Nat

VARIABLES
    page,       \* the workflow in the address
    fetch,      \* the request for it
    open,       \* workflowId of the store
    canvas,     \* nodes and edges
    isDirty,
    dragMoved,  \* the drag under way has moved a node
    past, future,
    saves,      \* each knows whether something else has outrun it
    restoring,  \* versions on their way back
    server,     \* the definition of each workflow
    edits,      \* changes made; each makes a shape or a place that was not there
    loaded,     \* the canvas as loadWorkflow left it
    trimmed,    \* a snapshot has fallen off the history since then
    blurred     \* the page is clean because of one of the races named below

vars == <<page, fetch, open, canvas, isDirty, dragMoved, past, future, saves, restoring,
          server, edits, loaded, trimmed, blurred>>
history == <<past, future, trimmed>>

Definition == [flow : Workflows \union {None}, shape : 0 .. MaxEdits, place : 0 .. MaxEdits]
Fresh(w) == [flow |-> w, shape |-> 0, place |-> 0]

NoFetch == [pc |-> "idle", def |-> Fresh(None), outrun |-> FALSE]
Idle == [pc |-> "idle", to |-> None, def |-> Fresh(None), outrun |-> FALSE]

TypeOK ==
    /\ {page, open} \subseteq Workflows \union {None}
    /\ fetch \in [pc : {"idle", "asked", "answered"}, def : Definition, outrun : BOOLEAN]
    /\ canvas \in Definition /\ loaded \in Definition
    /\ {isDirty, dragMoved, trimmed, blurred} \subseteq BOOLEAN
    /\ past \in Seq(Definition) /\ future \in Seq(Definition)
    /\ Len(past) + Len(future) <= HISTORY_LIMIT
    /\ saves \in [Savers -> [pc : {"idle", "sent", "landed"}, to : Workflows \union {None},
                             def : Definition, outrun : BOOLEAN]]
    /\ \A s \in Savers : saves[s].pc # "idle" => saves[s].to \in Workflows
    /\ restoring \subseteq Workflows \X Definition
    /\ server \in [Workflows -> Definition]
    /\ edits \in 0 .. MaxEdits

(* The page shows the editor *)
Ready == page # None /\ fetch.pc = "idle"

Init ==
    /\ page = None /\ fetch = NoFetch
    /\ open = None /\ canvas = Fresh(None) /\ loaded = Fresh(None)
    /\ isDirty = FALSE /\ dragMoved = FALSE
    /\ past = <<>> /\ future = <<>>
    /\ saves = [s \in Savers |-> Idle]
    /\ restoring = {}
    /\ server = [w \in Workflows |-> Fresh(w)]
    /\ edits = 0
    /\ trimmed = FALSE /\ blurred = FALSE

(* Every save under way is outrun: the canvas it took is no longer the one shown *)
Outrun == [s \in Savers |-> [saves[s] EXCEPT !.outrun = saves[s].pc # "idle"]]

-----------------------------------------------------------------------------------
(* pushSnapshot keeps the last HISTORY_LIMIT snapshots *)
PushedPastLimit(snapshots, snapshot) == Append(snapshots, snapshot)
Pushed(snapshots, snapshot) ==
    LET next == Append(snapshots, snapshot)
    IN IF Len(next) > HISTORY_LIMIT THEN SubSeq(next, 2, Len(next)) ELSE next

(* commit, and the same assignments in onNodesChange, onEdgesChange,              *)
(* deleteSelected and pasteFromClipboardPayload                                   *)
CommitWithoutSnapshot(definition) ==
    /\ canvas' = definition
    /\ UNCHANGED past /\ future' = <<>>
    /\ isDirty' = TRUE
    /\ UNCHANGED trimmed
    /\ saves' = Outrun /\ blurred' = FALSE
Commit(definition) ==
    /\ canvas' = definition
    /\ past' = Pushed(past, canvas) /\ future' = <<>>
    /\ isDirty' = TRUE
    /\ trimmed' = (trimmed \/ Len(past) = HISTORY_LIMIT)
    /\ saves' = Outrun /\ blurred' = FALSE

(* Nodes or edges are added, changed, pasted or deleted *)
Edit ==
    /\ Ready /\ edits < MaxEdits
    /\ edits' = edits + 1
    /\ Commit([canvas EXCEPT !.shape = edits + 1])
    /\ UNCHANGED <<page, fetch, open, dragMoved, restoring, server, loaded>>

(* onNodesChange while a node is dragged: no edit yet *)
Drag ==
    /\ Ready /\ edits < MaxEdits
    /\ edits' = edits + 1
    /\ canvas' = [canvas EXCEPT !.place = edits + 1]
    /\ dragMoved' = TRUE
    /\ saves' = Outrun
    /\ UNCHANGED <<page, fetch, open, isDirty, history, restoring, server, loaded, blurred>>

(* onNodesChange when it is released: somewhere else, or where the drag has moved *)
(* it (a click, which moves nothing, changes nothing)                             *)
Drop ==
    /\ Ready
    /\ \/ /\ edits < MaxEdits /\ edits' = edits + 1
          /\ Commit([canvas EXCEPT !.place = edits + 1])
       \/ /\ dragMoved /\ UNCHANGED edits
          /\ Commit(canvas)
    /\ dragMoved' = FALSE
    /\ UNCHANGED <<page, fetch, open, restoring, server, loaded>>

Undo ==
    /\ past # <<>>
    /\ canvas' = Last(past) /\ past' = Front(past)
    /\ future' = Append(future, canvas)
    /\ isDirty' = TRUE
    /\ saves' = Outrun /\ blurred' = FALSE
    /\ UNCHANGED <<page, fetch, open, dragMoved, restoring, server, edits, loaded, trimmed>>

Redo ==
    /\ future # <<>>
    /\ canvas' = Last(future) /\ future' = Front(future)
    /\ past' = Append(past, canvas)
    /\ isDirty' = TRUE
    /\ saves' = Outrun /\ blurred' = FALSE
    /\ UNCHANGED <<page, fetch, open, dragMoved, restoring, server, edits, loaded, trimmed>>

-----------------------------------------------------------------------------------
LoadWorkflow(w, definition) ==
    /\ open' = w /\ canvas' = definition /\ loaded' = definition
    /\ isDirty' = FALSE /\ dragMoved' = FALSE
    /\ past' = <<>> /\ future' = <<>> /\ trimmed' = FALSE
    /\ saves' = Outrun

(* WorkflowEditorPage mounts and asks for the workflow; it asks again if that fails *)
Open(w) ==
    /\ page = None
    /\ page' = w /\ fetch' = [NoFetch EXCEPT !.pc = "asked"]
    /\ UNCHANGED <<open, canvas, isDirty, dragMoved, history, saves, restoring, server,
                   edits, loaded, blurred>>

(* The server answers with what it has *)
Answer ==
    /\ fetch.pc = "asked"
    /\ fetch' = [pc |-> "answered", def |-> server[page], outrun |-> FALSE]
    /\ UNCHANGED <<page, open, canvas, isDirty, dragMoved, history, saves, restoring, server,
                   edits, loaded, blurred>>

(* The answer arrives.  Race: a save of an earlier visit landed in between.       *)
Load ==
    /\ fetch.pc = "answered"
    /\ LoadWorkflow(page, fetch.def)
    /\ fetch' = NoFetch
    /\ blurred' = fetch.outrun
    /\ UNCHANGED <<page, restoring, server, edits>>

(* The page is left: freely when clean or still loading, else because the user    *)
(* discards the edits, which the dialog does not offer while it saves             *)
Reset ==
    /\ page' = None /\ fetch' = NoFetch
    /\ open' = None /\ canvas' = Fresh(None) /\ loaded' = Fresh(None)
    /\ isDirty' = FALSE /\ dragMoved' = FALSE
    /\ past' = <<>> /\ future' = <<>> /\ trimmed' = FALSE
    /\ blurred' = FALSE

Leave ==
    /\ page # None
    /\ \A s \in Dialogs : saves[s].pc = "idle"
    /\ Reset
    /\ saves' = Outrun
    /\ UNCHANGED <<restoring, server, edits>>

(* handleRestore of VersionHistoryPanel: the API only returns the definition.  Of *)
(* the versions the first and the latest stand for all.  One that fails never     *)
(* comes back.                                                                    *)
Versions(w) == {Fresh(w), server[w]}
RestoreAsk(w, d) ==
    /\ Ready /\ open = w
    /\ Cardinality(restoring) < MaxRestores
    /\ restoring' = restoring \union {<<w, d>>}
    /\ UNCHANGED <<page, fetch, open, canvas, isDirty, dragMoved, history, saves, server,
                   edits, loaded, blurred>>

(* It comes back, and goes into the store whatever page shows it by then.  Race:  *)
(* it is meant to be looked at first, yet the page counts as clean.               *)
RestoreLoad(w, d) ==
    /\ <<w, d>> \in restoring
    /\ restoring' = restoring \ {<<w, d>>}
    /\ LoadWorkflow(w, d)
    /\ blurred' = TRUE
    /\ UNCHANGED <<page, fetch, server, edits>>

-----------------------------------------------------------------------------------
(* saveWorkflow: the PATCH goes out with the canvas of the moment, to the page's  *)
(* workflow.  The toolbar's button, the hotkey and the dialog all ask for         *)
(* isDirty; only the button waits for its own last save.                          *)
SaveSend(s) ==
    /\ Ready /\ isDirty
    /\ saves[s].pc = "idle"
    /\ saves' = [saves EXCEPT ![s] = [pc |-> "sent", to |-> page, def |-> canvas,
                                      outrun |-> FALSE]]
    /\ UNCHANGED <<page, fetch, open, canvas, isDirty, dragMoved, history, restoring, server,
                   edits, loaded, blurred>>

(* The server takes it, in any order.  Races, when it has been outrun: it lands   *)
(* over a save that has landed but not been answered, between the answer and the  *)
(* load of a page, or under a page that is clean already.                         *)
SaveLand(s) == LET d == saves[s] IN
    /\ d.pc = "sent"
    /\ server' = [server EXCEPT ![d.to] = d.def]
    /\ saves' = [t \in Savers |->
            IF t = s THEN [d EXCEPT !.pc = "landed"]
            ELSE [saves[t] EXCEPT !.outrun =
                      @ \/ (d.outrun /\ saves[t].pc = "landed" /\ saves[t].to = d.to)]]
    /\ fetch' = [fetch EXCEPT !.outrun = @ \/ (fetch.pc = "answered" /\ page = d.to)]
    /\ blurred' = (blurred \/ (d.outrun /\ Ready /\ page = d.to /\ ~isDirty))
    /\ UNCHANGED <<page, open, canvas, isDirty, dragMoved, history, restoring, edits, loaded>>

(* The answer: markSaved, whatever the store holds by now.  Race: what makes it   *)
(* dirty is not what was saved.                                                   *)
MarkSaved(s) ==
    /\ isDirty' = FALSE
    /\ blurred' = (saves[s].outrun /\ (blurred \/ isDirty))
    /\ UNCHANGED <<page, fetch, open, canvas, dragMoved, history, loaded>>

(* The dialog goes on to leave the page *)
SaveDone(s) ==
    /\ saves[s].pc = "landed"
    /\ IF s \in Dialogs
       THEN Reset /\ saves' = [Outrun EXCEPT ![s] = Idle]
       ELSE MarkSaved(s) /\ saves' = [saves EXCEPT ![s] = Idle]
    /\ UNCHANGED <<restoring, server, edits>>

(* The request or its answer is lost: the store stays dirty *)
SaveFailMarking(s) ==
    /\ saves[s].pc # "idle"
    /\ MarkSaved(s) /\ saves' = [saves EXCEPT ![s] = Idle]
    /\ UNCHANGED <<restoring, server, edits>>
SaveFail(s) ==
    /\ saves[s].pc # "idle"
    /\ saves' = [saves EXCEPT ![s] = Idle]
    /\ UNCHANGED <<page, fetch, open, canvas, isDirty, dragMoved, history, restoring, server,
                   edits, loaded, blurred>>

Next ==
    \/ Edit \/ Drag \/ Drop \/ Undo \/ Redo \/ Answer \/ Load \/ Leave
    \/ \E w \in Workflows : Open(w)
    \/ \E w \in Workflows : \E d \in Versions(w) : RestoreAsk(w, d)
    \/ \E r \in restoring : RestoreLoad(r[1], r[2])
    \/ \E s \in Savers : SaveSend(s) \/ SaveLand(s) \/ SaveDone(s) \/ SaveFail(s)

Spec == Init /\ [][Next]_vars

-----------------------------------------------------------------------------------
(* A page without the mark of unsaved changes, which is left without a question   *)
(* and whose save button is disabled, shows what the server has: any mix of       *)
(* edits, drags, undo, redo, saves and restores, across pages, keeps that, except *)
(* through the races named at Load, RestoreLoad, SaveLand and MarkSaved.  Each of *)
(* them is told by what came between two steps, never by what the page shows.     *)
CleanIsSaved ==
    Ready /\ ~isDirty /\ ~dragMoved /\ ~blurred => canvas = server[page]

(* Undoing everything brings back the workflow as it was loaded, up to where its  *)
(* nodes lie, as long as nothing has fallen off the history.                      *)
UndoReachesLoaded ==
    open # None /\ ~trimmed => Head(Append(past, canvas)).shape = loaded.shape
===================================================================================
