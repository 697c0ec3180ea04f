------------------------------ MODULE Desktop -------------------------------
(***************************************************************************)
(* The desktop application: the window with the event dialog (dialog.ts,   *)
(* store.ts), the shell (lib.rs, sidecar.rs) and the sidecar it spawns     *)
(* (sidecar_server.ts), joined by two pipes.                               *)
(*                                                                         *)
(* A call is a line on the sidecar's stdin and a reply that carries its    *)
(* id; the shell gives up after 15 s, and the sidecar does not know.  The  *)
(* first call for an event that fails turns the window to its own storage  *)
(* for as long as the application runs.                                    *)
(***************************************************************************)
EXTENDS Integers, FiniteSets, SequencesExt, Functions

CONSTANTS Saves,      \* clicks on Save in a dialog for a new event
          Syncs,      \* bound: clicks on Sync now
          None        \* no call, no event

ASSUME DesktopAssumption == Syncs \in Nat /\ None \notin Saves

VARIABLES
  app,      \* the shell and its window run
  sidecar,  \* the process of the sidecar runs
  stdin,    \* lines the sidecar has not read
  busy,     \* calls the sidecar answers later
  pending,  \* calls the shell waits for
  result,   \* result[id]: what the shell's call returned, until the window takes it
  nextId,
  dialog,   \* the dialog is open
  save,     \* save[c]: where the click c has come to
  fallback, \* usingFallback
  flight,   \* the call the manual sync waits for (SyncFlight)
  db,       \* events in the sidecar's database, and those with a reminder
  local,    \* events in the window's storage
  syncs

vars  == <<app, sidecar, stdin, busy, pending, result, nextId, dialog, save,
           fallback, flight, db, local, syncs>>

Ids == Nat \ {0}

\* An event is named by where and for which click it was made.
Stored(c) == [at |-> "db", by |-> c]
Local(c)  == [at |-> "local", by |-> c]

Ok(event) == [ok |-> TRUE, event |-> event]
Failed    == [ok |-> FALSE, event |-> None]

Empty == [id \in {} |-> Failed]

Unclicked == [pc |-> "unclicked", remind |-> FALSE, call |-> None, event |-> None]

Init ==
  /\ app = TRUE /\ sidecar = TRUE
  /\ stdin = <<>> /\ busy = {}
  /\ pending = {} /\ result = Empty /\ nextId = 1
  /\ dialog = FALSE /\ save = [c \in Saves |-> Unclicked]
  /\ fallback = FALSE /\ flight = None
  /\ db = [events |-> {}, reminders |-> {}] /\ local = {}
  /\ syncs = 0

-----------------------------------------------------------------------------
(* The shell (sidecar.rs).                                                 *)

\* The calls ids end with this outcome.
Told(ids, outcome, results) ==
  [id \in ids \cup DOMAIN results |-> IF id \in ids THEN outcome ELSE results[id]]

\* call: a sidecar that has exited fails the call at once.
Call(op, event, by, results) ==
  /\ nextId' = nextId + 1
  /\ IF sidecar
     THEN /\ pending' = pending \cup {nextId}
          /\ stdin' = Append(stdin, [id |-> nextId, op |-> op, event |-> event, by |-> by])
          /\ result' = results
     ELSE /\ result' = Told({nextId}, Failed, results)
          /\ UNCHANGED <<pending, stdin>>

NoCall(results) == result' = results /\ UNCHANGED <<nextId, pending, stdin>>

Others(id) == Restrict(result, DOMAIN result \ {id})

\* Seeded fault: a reply goes to the call that has waited longest.
AnswerOldest(id, outcome) ==
  IF pending = {} THEN UNCHANGED <<pending, result>>
  ELSE LET oldest == CHOOSE i \in pending : \A j \in pending : i <= j
       IN  /\ pending' = pending \ {oldest}
           /\ result' = Told({oldest}, outcome, result)

\* read_loop: a reply whose call has timed out is dropped, and so is one to a
\* shell that is gone.  A thread reads the replies in their order, so a reply is
\* taken as read when it is written.
Answer(id, outcome) ==
  IF id \notin pending THEN UNCHANGED <<pending, result>>
  ELSE /\ pending' = pending \ {id}
       /\ result' = Told({id}, outcome, result)

\* The reader meets the end of stdout: whoever waits is told.
ReaderEof ==
  /\ app /\ ~ sidecar /\ pending # {}
  /\ pending' = {}
  /\ result' = Told(pending, Failed, result)
  /\ UNCHANGED <<app, sidecar, stdin, busy, nextId, dialog, save, fallback, flight,
                 db, local, syncs>>

\* 15 s without a reply.
Timeout(id) ==
  /\ id \in pending
  /\ pending' = pending \ {id}
  /\ result' = Told({id}, Failed, result)
  /\ UNCHANGED <<app, sidecar, stdin, busy, nextId, dialog, save, fallback, flight,
                 db, local, syncs>>

-----------------------------------------------------------------------------
(* The sidecar (sidecar_server.ts).                                        *)

\* create_event, unless the core rejects the input.
Create(line) ==
  \/ /\ db' = [db EXCEPT !.events = @ \cup {Stored(line.by)}]
     /\ Answer(line.id, Ok(Stored(line.by)))
  \/ /\ Answer(line.id, Failed)
     /\ UNCHANGED db

\* set_reminder: "event not found" for an event of another store.
SetReminder(line) ==
  IF line.event \in db.events
  THEN /\ db' = [db EXCEPT !.reminders = @ \cup {line.event}]
       /\ Answer(line.id, Ok(line.event))
  ELSE /\ Answer(line.id, Failed)
       /\ UNCHANGED db

\* handleLine: what the core does is done with the line; a sync is answered later.
Handle ==
  /\ sidecar /\ stdin # <<>>
  /\ stdin' = Tail(stdin)
  /\ LET line == Head(stdin)
     IN  \/ line.op = "create" /\ Create(line) /\ UNCHANGED busy
         \/ line.op = "remind" /\ SetReminder(line) /\ UNCHANGED busy
         \/ /\ line.op = "sync"
            /\ busy' = busy \cup {line.id}
            /\ UNCHANGED <<pending, result, db>>
  /\ UNCHANGED <<app, sidecar, nextId, dialog, save, fallback, flight,
                 local, syncs>>

SyncEnds(id) ==
  /\ sidecar /\ id \in busy
  /\ busy' = busy \ {id}
  /\ Answer(id, Ok(None))
  /\ UNCHANGED <<app, sidecar, stdin, nextId, dialog, save, fallback, flight,
                 db, local, syncs>>

\* The lines that it has not read are lost.
Exit ==
  /\ sidecar' = FALSE /\ stdin' = <<>> /\ busy' = {}
  /\ UNCHANGED <<app, pending, result, nextId, dialog, save, fallback, flight,
                 db, local, syncs>>

Crash == sidecar /\ Exit

\* Seeded fault: a sync that runs keeps the process alive.
ExitWhenIdle == ~ app /\ sidecar /\ stdin = <<>> /\ busy = {} /\ Exit

\* rl "close": the lines are read, the listener and the database are closed, and
\* the process exits whatever it is busy with.
ExitOnEof == ~ app /\ sidecar /\ stdin = <<>> /\ Exit

-----------------------------------------------------------------------------
(* The window (store.ts, dialog.ts).                                       *)

Close(c, remind, event, results) ==
  /\ dialog' = FALSE
  /\ save' = [save EXCEPT ![c] = [pc |-> "closed", remind |-> remind, call |-> None,
                                  event |-> event]]
  /\ NoCall(results)

\* The second await of a save; setReminder has no fallback.
AfterCreate(c, remind, event, results) ==
  IF remind
  THEN /\ Call("remind", event, c, results)
       /\ save' = [save EXCEPT ![c] = [pc |-> "reminding", remind |-> TRUE, call |-> nextId,
                                       event |-> event]]
       /\ UNCHANGED <<dialog>>
  ELSE Close(c, FALSE, event, results)

Open ==
  /\ app /\ ~ dialog
  /\ \E c \in Saves : save[c].pc = "unclicked"
  /\ dialog' = TRUE
  /\ UNCHANGED <<app, sidecar, stdin, busy, pending, result, nextId, save, fallback,
                 flight, db, local, syncs>>

\* The button stays enabled while a save waits.  createEvent: the window's
\* storage for as long as fallback is set.
Click(c, remind) ==
  /\ app /\ dialog
  /\ save[c].pc = "unclicked"
  /\ IF fallback
     THEN local' = local \cup {Local(c)} /\ AfterCreate(c, remind, Local(c), result)
     ELSE /\ Call("create", None, c, result)
          /\ save' = [save EXCEPT ![c] = [pc |-> "creating", remind |-> remind,
                                          call |-> nextId, event |-> None]]
          /\ UNCHANGED <<local, dialog>>
  /\ UNCHANGED <<app, sidecar, busy, fallback, flight, db, syncs>>

\* Seeded fault: a call that fails is never caught.
CreatedIfOk(c) ==
  /\ app /\ save[c].pc = "creating" /\ save[c].call \in DOMAIN result
  /\ result[save[c].call].ok
  /\ AfterCreate(c, save[c].remind, result[save[c].call].event, Others(save[c].call))
  /\ UNCHANGED <<app, sidecar, busy, fallback, flight, db, local, syncs>>

\* withFallback: a create that failed is done again in the window's storage.
Created(c) ==
  /\ app /\ save[c].pc = "creating" /\ save[c].call \in DOMAIN result
  /\ LET id == save[c].call
     IN  IF result[id].ok
         THEN AfterCreate(c, save[c].remind, result[id].event, Others(id)) /\ UNCHANGED <<fallback, local>>
         ELSE /\ fallback' = TRUE
              /\ local' = local \cup {Local(c)}
              /\ AfterCreate(c, save[c].remind, Local(c), Others(id))
  /\ UNCHANGED <<app, sidecar, busy, flight, db, syncs>>

AfterReminder(c) ==
  IF result[save[c].call].ok
  THEN Close(c, TRUE, save[c].event, Others(save[c].call))
  ELSE /\ save' = [save EXCEPT ![c].pc = "error", ![c].call = None]
       /\ NoCall(Others(save[c].call))
       /\ UNCHANGED <<dialog>>

Reminded(c) ==
  /\ app /\ save[c].pc = "reminding" /\ save[c].call \in DOMAIN result
  /\ AfterReminder(c)
  /\ UNCHANGED <<app, sidecar, busy, fallback, flight, db, local, syncs>>

\* listEvents has the same fallback: the calendar was reloaded, and the call failed.
ReloadFails ==
  /\ app /\ ~ fallback
  /\ fallback' = TRUE
  /\ UNCHANGED <<app, sidecar, stdin, busy, pending, result, nextId, dialog, save,
                 flight, db, local, syncs>>

Cancel ==
  /\ app /\ dialog
  /\ dialog' = FALSE
  /\ UNCHANGED <<app, sidecar, stdin, busy, pending, result, nextId, save, fallback,
                 flight, db, local, syncs>>

-----------------------------------------------------------------------------
(* The tray and the toolbar (lib.rs).                                      *)

\* trigger_sync_now: one at a time.
SyncNow ==
  /\ app /\ flight = None /\ syncs < Syncs
  /\ syncs' = syncs + 1
  /\ flight' = nextId
  /\ Call("sync", None, None, result)
  /\ UNCHANGED <<app, sidecar, busy, dialog, save, fallback, db, local>>

SyncReturns ==
  /\ app /\ flight \in DOMAIN result
  /\ flight' = None
  /\ NoCall(Others(flight))
  /\ UNCHANGED <<app, sidecar, busy, dialog, save, fallback, db, local,
                 syncs>>

Unfinished == {"creating", "reminding"}

\* quit_app, or the death of the shell: its end of the pipes is closed, and what
\* the window and the shell kept in memory is gone.
Leave ==
  /\ app
  /\ app' = FALSE
  /\ pending' = {} /\ result' = Empty /\ nextId' = 1
  /\ dialog' = FALSE /\ fallback' = FALSE /\ flight' = None
  /\ save' = [c \in Saves |-> IF save[c].pc \in Unfinished
                              THEN [save[c] EXCEPT !.pc = "lost", !.call = None] ELSE save[c]]
  /\ UNCHANGED <<sidecar, stdin, busy, db, local, syncs>>

-----------------------------------------------------------------------------
Next ==
  \/ ReaderEof \/ Handle \/ Crash \/ ExitOnEof
  \/ \E id \in pending : Timeout(id)
  \/ \E id \in busy : SyncEnds(id)
  \/ Open \/ Cancel \/ ReloadFails
  \/ \E c \in Saves : (\E remind \in BOOLEAN : Click(c, remind)) \/ Created(c) \/ Reminded(c)
  \/ SyncNow \/ SyncReturns \/ Leave

(* Fairness: threads and event loops go on while their process lives, and 15 s *)
(* pass.  Nothing makes a user click, a process die, or a sync end.            *)
Fairness ==
  /\ WF_vars(ReaderEof) /\ WF_vars(Handle) /\ WF_vars(ExitOnEof)
  /\ WF_vars(\E id \in pending : Timeout(id))
  /\ \A c \in Saves : WF_vars(Created(c)) /\ WF_vars(Reminded(c))
  /\ WF_vars(SyncReturns)

Spec     == Init /\ [][Next]_vars
FairSpec == Spec /\ Fairness

-----------------------------------------------------------------------------
(* Properties.                                                             *)

Events == [at : {"db", "local"}, by : Saves]

\* Types; whoever waits is waited for once, and the two stores are apart.
TypeOK ==
  /\ pending \subseteq 1 .. nextId - 1 /\ DOMAIN result \subseteq 1 .. nextId - 1
  /\ pending \cap DOMAIN result = {}
  /\ db.events \subseteq Events /\ db.reminders \subseteq db.events /\ local \subseteq Events
  /\ ~ app => pending = {} /\ ~ dialog

\* A dialog that closed on a save with a reminder left the event in the database
\* and the reminder with it, whatever timed out, crashed or answered late: never
\* a reminder for an event of the window's storage, and never the event of
\* another click (dialog.ts Save, sidecar.rs read_loop).
ClosedWithItsReminder ==
  \A c \in Saves :
    (save[c].pc = "closed" /\ save[c].remind)
      => save[c].event = Stored(c) /\ Stored(c) \in db.reminders

\* A save comes to an end: the dialog closes or shows an error, even when the
\* sidecar hangs or dies (sidecar.rs REQUEST_TIMEOUT, read_loop's end).
SavesEnd == \A c \in Saves : save[c].pc \in Unfinished ~> save[c].pc \notin Unfinished

\* No sidecar outlives the application for good, even in the middle of a sync
\* (sidecar_server.ts rl "close": "the actual orphan fix").
NoOrphan == ~ app ~> ~ sidecar

\* "3. localStorage fallback (plain browser)" (store.ts): what the desktop saves
\* is in its database.
SavesReachTheDatabase ==
  \A c \in Saves : save[c].pc = "closed" => save[c].event.at = "db"
=============================================================================
