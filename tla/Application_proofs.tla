------------------------- MODULE Application_proofs -------------------------
(***************************************************************************)
(* What a dialog that closed has saved, for every number of saves and of   *)
(* syncs.  What makes the invariant inductive is what a number means while *)
(* a save waits for it: every line with that number that the sidecar may   *)
(* still read asks for this save, and an outcome that the shell holds for  *)
(* it was answered to such a line.  A number is given once in the life of  *)
(* the shell, so that an answer that comes late finds nobody.              *)
(*                                                                         *)
(* Reminders, for every set of events, every list of strategies and any    *)
(* number of faults and restarts: ShownOnce. What is inductive is an       *)
(* account: the times a reminder was shown and the children that may still *)
(* show it are never more than the times the engine could not learn of it, *)
(* and one more while the engine knows of it (it was delivered, or its     *)
(* answer is awaited).                                                     *)
(***************************************************************************)
EXTENDS Desktop, Reminders, FiniteSetTheorems, NaturalsInduction, WellFoundedInduction,
        TLAPS

Phases == {"unclicked", "creating", "reminding", "closed", "error", "lost"}
Save   == [pc : Phases, remind : BOOLEAN, call : Nat \cup {None}, event : Events \cup {None}]
Line   == [id : Nat, op : {"create", "remind", "sync"}, event : Events \cup {None},
           by : Saves \cup {None}]
Given  == 1 .. nextId - 1

Types ==
  /\ nextId \in Nat \ {0}
  /\ stdin \in Seq(Line)
  /\ save \in [Saves -> Save]
  /\ db \in [events : SUBSET Events, reminders : SUBSET Events]

\* Only the sidecar makes events of the database, and only for a save.
Sensible(line) == line.op = "create" => line.by \in Saves

DatabaseFine ==
  /\ \A e \in db.events : e.at = "db"
  /\ \A i \in 1 .. Len(stdin) : Sensible(stdin[i])

\* While the shell lives, whatever carries a number was given it.
Numbered ==
  app => /\ \A i \in 1 .. Len(stdin) : stdin[i].id \in Given
         /\ busy \subseteq Given
         /\ \A c \in Saves : save[c].pc \in Unfinished => save[c].call \in Given

\* A number that c waits for when it asked for its event.
MeansCreate(c, id) ==
  /\ id \notin busy
  /\ \A i \in 1 .. Len(stdin) :
       stdin[i].id = id => stdin[i].op = "create" /\ stdin[i].by = c
  /\ id \in DOMAIN result /\ result[id].ok => result[id].event = Stored(c)

\* The same, when it asked for a reminder for the event e.
MeansRemind(e, id) ==
  /\ id \notin busy
  /\ \A i \in 1 .. Len(stdin) :
       stdin[i].id = id => stdin[i].op = "remind" /\ stdin[i].event = e
  /\ id \in DOMAIN result /\ result[id].ok => e \in db.reminders

Meant(c) ==
  /\ save[c].pc = "creating" => MeansCreate(c, save[c].call)
  /\ save[c].pc = "reminding" => /\ MeansRemind(save[c].event, save[c].call)
                                 /\ save[c].event \in {Stored(c), Local(c)}

IInv ==
  /\ Types /\ TypeOK /\ DatabaseFine /\ Numbered
  /\ app => \A c \in Saves : Meant(c)
  /\ ClosedWithItsReminder

-----------------------------------------------------------------------------
(* Facts about lines, outcomes and events.                                  *)

LEMMA EventFacts ==
  ASSUME NEW c \in Saves
  PROVE  /\ Stored(c) \in Events /\ Local(c) \in Events
         /\ Stored(c).at = "db" /\ Local(c).at # "db"
BY DEF Stored, Local, Events

LEMMA AppendedLines ==
  ASSUME NEW s \in Seq(Line), NEW l \in Line
  PROVE  /\ Append(s, l) \in Seq(Line)
         /\ \A i \in 1 .. Len(Append(s, l)) :
              (i \in 1 .. Len(s) /\ Append(s, l)[i] = s[i]) \/ Append(s, l)[i] = l
OBVIOUS

LEMMA RemainingLines ==
  ASSUME NEW s \in Seq(Line), s # <<>>
  PROVE  /\ Tail(s) \in Seq(Line)
         /\ \A i \in 1 .. Len(Tail(s)) : \E j \in 1 .. Len(s) : Tail(s)[i] = s[j]
         /\ 1 \in 1 .. Len(s) /\ Head(s) = s[1] /\ Head(s) \in Line
<1>1. Tail(s) \in Seq(Line) /\ Head(s) = s[1] /\ Len(s) \in Nat /\ Len(s) # 0
  OBVIOUS
<1>2. ASSUME NEW i \in 1 .. Len(Tail(s)) PROVE \E j \in 1 .. Len(s) : Tail(s)[i] = s[j]
  <2>1. i + 1 \in 1 .. Len(s) /\ Tail(s)[i] = s[i + 1]
    OBVIOUS
  <2> QED  BY <2>1
<1> QED  BY <1>1, <1>2

\* r holds nothing that the shell does not hold.
Fewer(r) == DOMAIN r \subseteq DOMAIN result /\ \A j \in DOMAIN r : r[j] = result[j]

LEMMA OthersAreFewer == \A id : Fewer(Others(id))
BY DEF Others, Restrict, Fewer

\* What an answer does to the outcomes that the shell holds.
LEMMA AnswerEffect ==
  ASSUME TypeOK, NEW id, NEW outcome, Answer(id, outcome)
  PROVE  /\ pending' \subseteq pending
         /\ DOMAIN result' \subseteq DOMAIN result \cup pending
         /\ pending' \cap DOMAIN result' = {}
         /\ \A j \in DOMAIN result' :
              (j \in DOMAIN result /\ result'[j] = result[j]) \/ (j = id /\ result'[j] = outcome)
BY DEF TypeOK, Answer, Told

\* What a call adds: one line and one number, or an outcome at once.
LEMMA CallEffect ==
  ASSUME IInv, NEW op \in {"create", "remind", "sync"}, NEW e \in Events \cup {None},
         NEW by \in Saves \cup {None}, NEW r, Fewer(r), Call(op, e, by, r)
  PROVE  LET new == [id |-> nextId, op |-> op, event |-> e, by |-> by]
         IN  /\ nextId' = nextId + 1 /\ nextId \in Nat \ {0}
             /\ stdin' \in Seq(Line) /\ new \in Line
             /\ \A i \in 1 .. Len(stdin') :
                  (i \in 1 .. Len(stdin) /\ stdin'[i] = stdin[i]) \/ stdin'[i] = new
             /\ pending' \subseteq Given \cup {nextId}
             /\ DOMAIN result' \subseteq Given \cup {nextId}
             /\ pending' \cap DOMAIN result' = {}
             /\ \A j \in DOMAIN result' :
                  (j \in DOMAIN result /\ result'[j] = result[j]) \/ ~ result'[j].ok
<1> DEFINE new == [id |-> nextId, op |-> op, event |-> e, by |-> by]
<1>1. nextId \in Nat \ {0} /\ new \in Line /\ stdin \in Seq(Line) /\ nextId' = nextId + 1
  BY DEF IInv, Types, Line, Call
<1>2. pending \subseteq Given /\ DOMAIN r \subseteq Given /\ pending \cap DOMAIN r = {}
      /\ nextId \notin Given
  BY <1>1 DEF IInv, TypeOK, Fewer, Given
<1>3. CASE sidecar
  <2>1. stdin' = Append(stdin, new) /\ pending' = pending \cup {nextId} /\ result' = r
    BY <1>3 DEF Call
  <2> HIDE DEF new
  <2>2. /\ stdin' \in Seq(Line)
        /\ \A i \in 1 .. Len(stdin') :
             (i \in 1 .. Len(stdin) /\ stdin'[i] = stdin[i]) \/ stdin'[i] = new
    BY <1>1, <2>1, AppendedLines
  <2> QED  BY <1>1, <1>2, <2>1, <2>2 DEF Fewer, new
<1>4. CASE ~ sidecar
  <2>1. /\ stdin' = stdin /\ pending' = pending
        /\ DOMAIN result' = {nextId} \cup DOMAIN r /\ ~ result'[nextId].ok
        /\ \A j \in DOMAIN r : j # nextId => result'[j] = r[j]
    BY <1>4 DEF Call, Failed, Told
  <2> QED  BY <1>1, <1>2, <2>1 DEF Fewer
<1> QED  BY <1>3, <1>4

-----------------------------------------------------------------------------
(* The window: a save that calls, and one that comes to rest.               *)

\* x is the save d after the call that it makes.
Asked(d, op, e, by, x) ==
  /\ by = d /\ x.call = nextId
  /\ \/ op = "create" /\ x.pc = "creating"
     \/ op = "remind" /\ x.pc = "reminding" /\ x.event = e /\ e \in {Stored(d), Local(d)}

LEMMA CallPreserves ==
  ASSUME IInv, app, NEW op \in {"create", "remind", "sync"}, NEW e \in Events \cup {None},
         NEW by \in Saves \cup {None}, NEW r, Fewer(r), Call(op, e, by, r),
         op = "create" => by \in Saves,
         save' \in [Saves -> Save],
         \A d \in Saves : save'[d] = save[d] \/ Asked(d, op, e, by, save'[d]),
         app' = app, busy' = busy, db' = db, local' \subseteq Events
  PROVE  IInv'
<1> DEFINE new == [id |-> nextId, op |-> op, event |-> e, by |-> by]
<1>1. /\ nextId' = nextId + 1 /\ nextId \in Nat \ {0}
      /\ stdin' \in Seq(Line) /\ new \in Line
      /\ \A i \in 1 .. Len(stdin') :
           (i \in 1 .. Len(stdin) /\ stdin'[i] = stdin[i]) \/ stdin'[i] = new
      /\ pending' \subseteq Given \cup {nextId}
      /\ DOMAIN result' \subseteq Given \cup {nextId}
      /\ pending' \cap DOMAIN result' = {}
      /\ \A j \in DOMAIN result' :
           (j \in DOMAIN result /\ result'[j] = result[j]) \/ ~ result'[j].ok
  BY CallEffect
<1>2. /\ Given' = Given \cup {nextId} /\ nextId \notin Given
      /\ new.id = nextId /\ new.op = op /\ new.event = e /\ new.by = by
  BY <1>1 DEF Given
<1> HIDE DEF new
<1>3. /\ \A i \in 1 .. Len(stdin) : stdin[i].id \in Given
      /\ busy \subseteq Given
      /\ \A d \in Saves : save[d].pc \in Unfinished => save[d].call \in Given
      /\ DOMAIN result \subseteq Given
  BY DEF IInv, Numbered, TypeOK, Given
<1>4. Types' /\ TypeOK'
  BY <1>1, <1>2 DEF Types, TypeOK, Given, IInv
<1>5. DatabaseFine' /\ Numbered'
  BY <1>1, <1>2, <1>3 DEF DatabaseFine, Numbered, Sensible, IInv, Asked
<1>6. ASSUME NEW d \in Saves PROVE Meant(d)'
  <2>1. CASE save'[d] = save[d]
    <3>1. \A id \in Given : MeansCreate(d, id) => MeansCreate(d, id)'
      BY <1>1, <1>2, <1>3 DEF MeansCreate, Stored
    <3>2. \A id \in Given : MeansRemind(save[d].event, id) => MeansRemind(save[d].event, id)'
      BY <1>1, <1>2, <1>3, <2>1 DEF MeansRemind
    <3> QED  BY <1>3, <2>1, <3>1, <3>2 DEF Meant, IInv, Unfinished, MeansRemind, Stored, Local
  <2>2. CASE Asked(d, op, e, by, save'[d])
    BY <1>1, <1>2, <1>3, <2>2 DEF Meant, Asked, MeansCreate, MeansRemind, Stored, Local
  <2> QED  BY <2>1, <2>2
<1>7. ClosedWithItsReminder'
  BY DEF ClosedWithItsReminder, Asked, IInv, Stored
<1> QED  BY <1>4, <1>5, <1>6, <1>7 DEF IInv

\* x is a save of d that waits for nothing.
AtRest(d, x) ==
  /\ x.pc \notin Unfinished
  /\ x.pc = "closed" /\ x.remind => x.event = Stored(d) /\ Stored(d) \in db.reminders

LEMMA RestPreserves ==
  ASSUME IInv, Fewer(result'), save' \in [Saves -> Save],
         \A d \in Saves : save'[d] = save[d] \/ AtRest(d, save'[d]),
         UNCHANGED <<app, nextId, pending, stdin, busy, db>>, local' \subseteq Events,
         ~ app => ~ dialog'
  PROVE  IInv'
<1>1. Types' /\ TypeOK'
  BY DEF Types, TypeOK, Given, IInv, Fewer
<1>2. DatabaseFine' /\ Numbered'
  BY DEF DatabaseFine, Numbered, Sensible, IInv, AtRest, Given
<1>3. ASSUME app, NEW d \in Saves PROVE Meant(d)'
  <2>1. \A id : MeansCreate(d, id) => MeansCreate(d, id)'
    BY DEF MeansCreate, Stored, Fewer
  <2>2. ASSUME save'[d] = save[d], NEW id, MeansRemind(save[d].event, id)
        PROVE  MeansRemind(save[d].event, id)'
    BY <2>2 DEF MeansRemind, Fewer
  <2>3. CASE save'[d] = save[d]
    BY <1>3, <2>1, <2>2, <2>3 DEF Meant, IInv, Stored, Local
  <2>4. CASE AtRest(d, save'[d])
    BY <2>4 DEF Meant, AtRest, Unfinished
  <2> QED  BY <2>3, <2>4
<1>4. ClosedWithItsReminder'
  BY DEF ClosedWithItsReminder, AtRest, IInv, Stored
<1> QED  BY <1>1, <1>2, <1>3, <1>4 DEF IInv

LEMMA AfterCreatePreserves ==
  ASSUME IInv, app, NEW c \in Saves, NEW remind \in BOOLEAN, NEW e \in {Stored(c), Local(c)},
         NEW r, Fewer(r), AfterCreate(c, remind, e, r),
         app' = app, busy' = busy, db' = db, local' \subseteq Events
  PROVE  IInv'
<1>1. e \in Events /\ save \in [Saves -> Save]
  BY EventFacts DEF IInv, Types
<1>2. CASE remind
  <2> DEFINE x == [pc |-> "reminding", remind |-> TRUE, call |-> nextId, event |-> e]
  <2>1. Call("remind", e, c, r) /\ save' = [save EXCEPT ![c] = x]
    BY <1>2 DEF AfterCreate
  <2>2. x \in Save /\ Asked(c, "remind", e, c, x)
    BY <1>1 DEF Save, Phases, Asked, IInv, Types
  <2> HIDE DEF x
  <2>3. save' \in [Saves -> Save]
        /\ \A d \in Saves : save'[d] = save[d] \/ Asked(d, "remind", e, c, save'[d])
    BY <1>1, <2>1, <2>2
  <2> QED  BY <1>1, <2>1, <2>3, CallPreserves
<1>3. CASE ~ remind
  <2> DEFINE x == [pc |-> "closed", remind |-> FALSE, call |-> None, event |-> e]
  <2>1. NoCall(r) /\ save' = [save EXCEPT ![c] = x]
    BY <1>3 DEF AfterCreate, Close
  <2>2. x \in Save /\ AtRest(c, x)
    BY <1>1 DEF Save, Phases, AtRest, Unfinished
  <2> HIDE DEF x
  <2>3. save' \in [Saves -> Save]
        /\ \A d \in Saves : save'[d] = save[d] \/ AtRest(d, save'[d])
    BY <1>1, <2>1, <2>2
  <2>4. Fewer(result') /\ UNCHANGED <<app, nextId, pending, stdin, busy, db>>
    BY <2>1 DEF NoCall, Fewer
  <2> QED  BY <2>3, <2>4, RestPreserves
<1> QED  BY <1>2, <1>3

LEMMA WindowPreserves ==
  ASSUME IInv, NEW c \in Saves,
         (\E remind \in BOOLEAN : Click(c, remind)) \/ Created(c) \/ Reminded(c)
  PROVE  IInv'
<1>1. /\ save \in [Saves -> Save] /\ save[c] \in Save /\ local \subseteq Events
      /\ Stored(c) \in Events /\ Local(c) \in Events /\ Fewer(result)
  BY EventFacts DEF IInv, Types, TypeOK, Fewer
<1>2. ASSUME NEW remind \in BOOLEAN, Click(c, remind) PROVE IInv'
  <2>1. app /\ app' = app /\ busy' = busy /\ db' = db
    BY <1>2 DEF Click
  <2>2. CASE fallback
    BY <1>1, <1>2, <2>1, <2>2, AfterCreatePreserves DEF Click
  <2>3. CASE ~ fallback
    <3> DEFINE x == [pc |-> "creating", remind |-> remind, call |-> nextId, event |-> None]
    <3>1. Call("create", None, c, result) /\ save' = [save EXCEPT ![c] = x] /\ local' = local
      BY <1>2, <2>3 DEF Click
    <3>2. x \in Save /\ Asked(c, "create", None, c, x)
      BY DEF Save, Phases, Asked, IInv, Types
    <3> HIDE DEF x
    <3>3. save' \in [Saves -> Save]
          /\ \A d \in Saves : save'[d] = save[d] \/ Asked(d, "create", None, c, save'[d])
      BY <1>1, <3>1, <3>2
    <3> QED  BY <1>1, <2>1, <3>1, <3>3, CallPreserves
  <2> QED  BY <2>2, <2>3
<1>3. CASE Created(c)
  <2> DEFINE id == save[c].call
             r  == Others(id)
  <2>1. app /\ app' = app /\ busy' = busy /\ db' = db /\ save[c].pc = "creating"
        /\ id \in DOMAIN result /\ Fewer(r) /\ save[c].remind \in BOOLEAN
    BY <1>1, <1>3, OthersAreFewer DEF Created, Save
  <2>2. CASE result[id].ok
    <3>1. result[id].event = Stored(c)
      BY <2>1, <2>2 DEF IInv, Meant, MeansCreate
    <3>2. AfterCreate(c, save[c].remind, Stored(c), r) /\ local' = local
      BY <1>3, <2>2, <3>1 DEF Created
    <3> HIDE DEF id, r
    <3> QED  BY <1>1, <2>1, <3>2, AfterCreatePreserves
  <2>3. CASE ~ result[id].ok
    <3>1. AfterCreate(c, save[c].remind, Local(c), r) /\ local' = local \cup {Local(c)}
      BY <1>3, <2>3 DEF Created
    <3> HIDE DEF id, r
    <3> QED  BY <1>1, <2>1, <3>1, AfterCreatePreserves
  <2> QED  BY <2>2, <2>3
<1>4. CASE Reminded(c)
  <2> DEFINE id == save[c].call
             r  == Others(id)
             x  == save'[c]
  <2>1. /\ app /\ UNCHANGED <<app, busy, db, local>> /\ save[c].pc = "reminding"
        /\ id \in DOMAIN result /\ Fewer(r) /\ AfterReminder(c)
    BY <1>4, OthersAreFewer DEF Reminded
  <2>2. NoCall(r) /\ save' \in [Saves -> Save] /\ AtRest(c, x)
        /\ \A d \in Saves : d = c \/ save'[d] = save[d]
    <3>1. CASE result[id].ok
      <4>1. save[c].event \in {Stored(c), Local(c)} /\ save[c].event \in db.reminders
        BY <2>1, <3>1 DEF IInv, Meant, MeansRemind
      <4>2. save[c].event = Stored(c)
        BY <4>1, EventFacts DEF IInv, TypeOK, DatabaseFine
      <4>3. /\ NoCall(r)
            /\ save' = [save EXCEPT ![c] = [pc |-> "closed", remind |-> TRUE, call |-> None,
                                            event |-> save[c].event]]
        BY <2>1, <3>1 DEF AfterReminder, Close
      <4> HIDE DEF r
      <4> QED  BY <1>1, <4>1, <4>2, <4>3 DEF AtRest, Unfinished, Save, Phases
    <3>2. CASE ~ result[id].ok
      <4>1. NoCall(r) /\ save' = [save EXCEPT ![c].pc = "error", ![c].call = None]
        BY <2>1, <3>2 DEF AfterReminder
      <4> HIDE DEF r
      <4> QED  BY <1>1, <4>1 DEF AtRest, Unfinished, Save, Phases
    <3> QED  BY <3>1, <3>2
  <2>3. Fewer(result') /\ UNCHANGED <<app, nextId, pending, stdin, busy, db>>
        /\ local' \subseteq Events
    BY <1>1, <2>1, <2>2 DEF NoCall, Fewer
  <2> HIDE DEF x, r, id
  <2>4. \A d \in Saves : save'[d] = save[d] \/ AtRest(d, save'[d])
    BY <2>2 DEF x
  <2> QED  BY <2>1, <2>2, <2>3, <2>4, RestPreserves
<1> QED  BY <1>2, <1>3, <1>4

-----------------------------------------------------------------------------
(* The shell and the sidecar: outcomes come, the database grows.            *)

\* The outcome j is an old one, a failure, the end of a sync, or what the
\* sidecar makes of a line that it reads.
Grounded(j) ==
  \/ j \in DOMAIN result /\ result'[j] = result[j]
  \/ ~ result'[j].ok
  \/ j \in busy
  \/ \E i \in 1 .. Len(stdin) :
       /\ stdin[i].id = j
       /\ stdin[i].op = "create" => result'[j].event = Stored(stdin[i].by)
       /\ stdin[i].op = "remind" => stdin[i].event \in db'.reminders

SyncLine(id) == \E i \in 1 .. Len(stdin) : stdin[i].id = id /\ stdin[i].op = "sync"

\* An outcome that is good and grounded names the event of the create it answers.
LEMMA CreateOutcome ==
  ASSUME NEW c \in Saves, NEW id, MeansCreate(c, id), Grounded(id), result'[id].ok
  PROVE  result'[id].event = Stored(c)
BY DEF MeansCreate, Grounded

\* The lines that are left were there before.
LEMMA CreateKept ==
  ASSUME NEW c \in Saves, NEW id, MeansCreate(c, id), id \notin busy',
         \A i \in 1 .. Len(stdin') : \E j \in 1 .. Len(stdin) : stdin'[i] = stdin[j],
         id \in DOMAIN result' => Grounded(id)
  PROVE  MeansCreate(c, id)'
<1>1. id \in DOMAIN result' /\ result'[id].ok => result'[id].event = Stored(c)
  BY CreateOutcome
<1>2. \A i \in 1 .. Len(stdin') : stdin'[i].id = id => stdin'[i].op = "create" /\ stdin'[i].by = c
  BY DEF MeansCreate
<1> QED  BY <1>1, <1>2 DEF MeansCreate, Stored

LEMMA WaitingPreserves ==
  ASSUME IInv, UNCHANGED <<app, nextId, save, local, dialog>>,
         stdin' \in Seq(Line),
         \A i \in 1 .. Len(stdin') : \E j \in 1 .. Len(stdin) : stdin'[i] = stdin[j],
         \A id \in busy' : id \in busy \/ SyncLine(id),
         db' \in [events : SUBSET Events, reminders : SUBSET Events],
         \A e \in db'.events : e.at = "db",
         db'.reminders \subseteq db'.events, db.reminders \subseteq db'.reminders,
         pending' \subseteq pending, DOMAIN result' \subseteq DOMAIN result \cup pending,
         pending' \cap DOMAIN result' = {},
         \A j \in DOMAIN result' : Grounded(j)
  PROVE  IInv'
<1>1. Types' /\ TypeOK'
  BY DEF Types, TypeOK, Given, IInv
<1>2. DatabaseFine' /\ Numbered'
  BY DEF DatabaseFine, Numbered, Sensible, IInv, Given, SyncLine
<1>3. ASSUME app, NEW c \in Saves PROVE Meant(c)'
  <2>1. ASSUME save[c].pc = "creating", MeansCreate(c, save[c].call)
        PROVE  MeansCreate(c, save[c].call)'
    <3>1. save[c].call \notin busy' /\ save'[c].call = save[c].call
      BY <2>1 DEF MeansCreate, SyncLine
    <3> PICK id : id = save[c].call
      OBVIOUS
    <3>2. id \in DOMAIN result' => Grounded(id)
      OBVIOUS
    <3>3. MeansCreate(c, id)'
      BY <2>1, <3>1, <3>2, CreateKept
    <3> QED  BY <3>1, <3>3 DEF MeansCreate
  <2>2. ASSUME save[c].pc = "reminding", MeansRemind(save[c].event, save[c].call)
        PROVE  MeansRemind(save[c].event, save[c].call)'
    <3>1. save[c].call \notin busy' /\ save'[c].call = save[c].call
      BY <2>2 DEF MeansRemind, SyncLine
    <3>2. ASSUME save[c].call \in DOMAIN result', result'[save[c].call].ok
          PROVE  save[c].event \in db'.reminders
      BY <2>2, <3>2 DEF MeansRemind, Grounded
    <3> QED  BY <2>2, <3>1, <3>2 DEF MeansRemind
  <2> QED  BY <1>3, <2>1, <2>2 DEF Meant, IInv, Stored, Local
<1>4. ClosedWithItsReminder'
  BY DEF ClosedWithItsReminder, IInv, Stored
<1> QED  BY <1>1, <1>2, <1>3, <1>4 DEF IInv

LEMMA ShellPreserves ==
  ASSUME IInv, ReaderEof \/ (\E id \in pending : Timeout(id)) \/ (\E id \in busy : SyncEnds(id))
  PROVE  IInv'
<1>1. UNCHANGED <<app, nextId, save, local, dialog, stdin, db>> /\ busy' \subseteq busy
  BY DEF ReaderEof, Timeout, SyncEnds
<1> DEFINE Outcomes ==
      /\ pending' \subseteq pending /\ DOMAIN result' \subseteq DOMAIN result \cup pending
      /\ pending' \cap DOMAIN result' = {}
      /\ \A j \in DOMAIN result' : Grounded(j)
<1>2. Outcomes
  <2>1. CASE ReaderEof
    BY <2>1 DEF ReaderEof, Told, Grounded, Failed
  <2>2. ASSUME NEW id \in pending, Timeout(id)
        PROVE  Outcomes
    BY <2>2 DEF Timeout, Told, Grounded, Failed, IInv, TypeOK
  <2>3. ASSUME NEW id \in busy, SyncEnds(id)
        PROVE  Outcomes
    BY <2>3, AnswerEffect DEF SyncEnds, Grounded, IInv
  <2> QED  BY <2>1, <2>2, <2>3
<1> QED  BY <1>1, <1>2, WaitingPreserves DEF IInv, Types, TypeOK, DatabaseFine

LEMMA HandlePreserves == ASSUME IInv, Handle PROVE IInv'
<1> DEFINE line == Head(stdin)
<1>1. /\ stdin' \in Seq(Line) /\ 1 \in 1 .. Len(stdin) /\ line = stdin[1] /\ line \in Line
      /\ \A i \in 1 .. Len(stdin') : \E j \in 1 .. Len(stdin) : stdin'[i] = stdin[j]
  BY RemainingLines DEF Handle, IInv, Types
<1>2. UNCHANGED <<app, nextId, save, local, dialog>>
      /\ \/ line.op = "create" /\ Create(line) /\ UNCHANGED busy
         \/ line.op = "remind" /\ SetReminder(line) /\ UNCHANGED busy
         \/ line.op = "sync" /\ busy' = busy \cup {line.id} /\ UNCHANGED <<pending, result, db>>
  BY DEF Handle
<1> HIDE DEF line
<1>3. /\ db \in [events : SUBSET Events, reminders : SUBSET Events]
      /\ db.reminders \subseteq db.events /\ \A e \in db.events : e.at = "db"
      /\ pending \cap DOMAIN result = {}
  BY DEF IInv, Types, TypeOK, DatabaseFine
<1>4. CASE line.op = "create"
  <2>1. line.by \in Saves /\ Stored(line.by) \in Events /\ Stored(line.by).at = "db"
    BY <1>1, <1>4, EventFacts DEF IInv, DatabaseFine, Sensible
  <2>2. PICK outcome : /\ Answer(line.id, outcome)
                       /\ outcome.ok => outcome.event = Stored(line.by)
    BY <1>2, <1>4 DEF Create, Ok, Failed
  <2>3. busy' = busy /\ db'.reminders = db.reminders /\ db.events \subseteq db'.events
        /\ db' \in [events : SUBSET Events, reminders : SUBSET Events]
        /\ \A e \in db'.events : e.at = "db"
    BY <1>2, <1>3, <1>4, <2>1 DEF Create
  <2>4. \A j \in DOMAIN result' : Grounded(j)
    BY <1>1, <1>4, <2>2, AnswerEffect DEF Grounded, IInv
  <2> QED  BY <1>1, <1>2, <1>3, <2>2, <2>3, <2>4, AnswerEffect, WaitingPreserves DEF IInv
<1>5. CASE line.op = "remind"
  <2>1. PICK outcome : /\ Answer(line.id, outcome)
                       /\ outcome.ok => line.event \in db'.reminders
    BY <1>2, <1>3, <1>5 DEF SetReminder, Ok, Failed
  <2>2. busy' = busy /\ db'.events = db.events /\ db.reminders \subseteq db'.reminders
        /\ db'.reminders \subseteq db'.events
        /\ db' \in [events : SUBSET Events, reminders : SUBSET Events]
    BY <1>2, <1>3, <1>5 DEF SetReminder
  <2>3. \A j \in DOMAIN result' : Grounded(j)
    BY <1>1, <1>5, <2>1, AnswerEffect DEF Grounded, IInv
  <2> QED  BY <1>1, <1>2, <1>3, <2>1, <2>2, <2>3, AnswerEffect, WaitingPreserves DEF IInv
<1>6. CASE line.op = "sync"
  <2>1. busy' = busy \cup {line.id} /\ UNCHANGED <<pending, result, db>>
    BY <1>2, <1>6
  <2>2. \A id \in busy' : id \in busy \/ SyncLine(id)
    BY <1>1, <1>6, <2>1 DEF SyncLine
  <2>3. \A j \in DOMAIN result' : Grounded(j)
    BY <2>1 DEF Grounded
  <2> QED  BY <1>1, <1>2, <1>3, <2>1, <2>2, <2>3, WaitingPreserves
<1> QED  BY <1>1, <1>4, <1>5, <1>6 DEF Line

LEMMA LivesPreserve ==
  ASSUME IInv, Crash \/ ExitOnEof \/ Open \/ Cancel \/ ReloadFails \/ SyncNow \/ SyncReturns \/ Leave
  PROVE  IInv'
<1>1. ASSUME Crash \/ ExitOnEof PROVE IInv'
  <2>1. /\ UNCHANGED <<app, nextId, save, local, dialog, pending, result, db>>
        /\ stdin' = <<>> /\ busy' = {}
    BY <1>1 DEF Crash, ExitOnEof, Exit
  <2>2. stdin' \in Seq(Line) /\ Len(stdin') = 0 /\ \A j \in DOMAIN result' : Grounded(j)
    BY <2>1 DEF Grounded
  <2> QED  BY <2>1, <2>2, WaitingPreserves DEF IInv, Types, TypeOK, DatabaseFine
<1>2. ASSUME Open \/ Cancel \/ ReloadFails PROVE IInv'
  BY <1>2, RestPreserves DEF Open, Cancel, ReloadFails, Fewer, IInv, Types, TypeOK
<1>3. CASE SyncNow
  <2>1. Fewer(result) /\ save \in [Saves -> Save] /\ local \subseteq Events
    BY DEF Fewer, IInv, Types, TypeOK
  <2> QED  BY <1>3, <2>1, CallPreserves DEF SyncNow
<1>4. CASE SyncReturns
  <2>1. Fewer(Others(flight)) /\ save \in [Saves -> Save] /\ local \subseteq Events
    BY OthersAreFewer DEF IInv, Types, TypeOK
  <2>2. Fewer(result') /\ UNCHANGED <<app, nextId, pending, stdin, busy, db, save, local>> /\ app
    BY <1>4, <2>1 DEF SyncReturns, NoCall, Fewer
  <2> QED  BY <2>1, <2>2, RestPreserves
<1>5. CASE Leave
  <2>1. /\ ~ app' /\ nextId' = 1 /\ pending' = {} /\ DOMAIN result' = {} /\ ~ dialog'
        /\ UNCHANGED <<stdin, busy, db, local>>
        /\ save' = [c \in Saves |-> IF save[c].pc \in Unfinished
                                    THEN [save[c] EXCEPT !.pc = "lost", !.call = None] ELSE save[c]]
    BY <1>5 DEF Leave, Empty
  <2>2. Types /\ save' \in [Saves -> Save]
    BY <2>1 DEF IInv, Types, Save, Phases
  <2>3. \A c \in Saves : save'[c].pc = "closed" => save'[c] = save[c]
    BY <2>1 DEF IInv, Types, Save
  <2>4. Types'
    <3>1. nextId' = 1 /\ stdin' = stdin /\ db' = db
      BY <2>1
    <3> QED  BY ONLY <2>2, <3>1 DEF Types
  <2>5. TypeOK'
    BY <2>1 DEF IInv, TypeOK
  <2>6. DatabaseFine' /\ Numbered'
    BY <2>1 DEF IInv, DatabaseFine, Numbered, Sensible
  <2>7. ClosedWithItsReminder'
    BY <2>1, <2>3 DEF IInv, ClosedWithItsReminder, Stored
  <2> QED  BY <2>1, <2>4, <2>5, <2>6, <2>7 DEF IInv
<1> QED  BY <1>1, <1>2, <1>3, <1>4, <1>5

-----------------------------------------------------------------------------
LEMMA InitEstablishes == Init => IInv
<1> SUFFICES ASSUME Init PROVE IInv
  OBVIOUS
<1>1. Types /\ TypeOK
  BY DEF Init, Types, TypeOK, Empty, Unclicked, Save, Phases
<1>2. \A c \in Saves : save[c].pc = "unclicked"
  BY DEF Init, Unclicked
<1> QED  BY <1>1, <1>2 DEF Init, IInv, DatabaseFine, Numbered, Meant, ClosedWithItsReminder, Unfinished

LEMMA NextPreserves == IInv /\ [Next]_vars => IInv'
<1> SUFFICES ASSUME IInv, [Next]_vars PROVE IInv'
  OBVIOUS
<1>1. CASE UNCHANGED vars
  BY <1>1 DEF vars, IInv, Types, TypeOK, DatabaseFine, Numbered, Meant, ClosedWithItsReminder,
           Sensible, Given, MeansCreate, MeansRemind, Stored, Local
<1>2. CASE Next
  BY <1>2, HandlePreserves, ShellPreserves, LivesPreserve, WindowPreserves DEF Next
<1> QED  BY <1>1, <1>2

LEMMA Invariance == Spec => []IInv
<1> QED  BY InitEstablishes, NextPreserves, PTL DEF Spec

\* The shell's calls and the two stores keep their types: a call is waited for
\* or has its outcome, never both, for every number of saves (sidecar.rs).
THEOREM TypeCorrect == Spec => []TypeOK
<1>1. IInv => TypeOK
  BY DEF IInv
<1> QED  BY <1>1, Invariance, PTL

\* A dialog that closed on a save with a reminder left its own event in the
\* database and the reminder with it, whatever timed out, crashed or was
\* answered late, for every number of saves and syncs (dialog.ts, sidecar.rs).
THEOREM ClosedMeansSaved == Spec => []ClosedWithItsReminder
<1>1. IInv => ClosedWithItsReminder
  BY DEF IInv
<1> QED  BY <1>1, Invariance, PTL

-----------------------------------------------------------------------------
(* Reminders.                                                              *)

\* The notifications of k that a child may still show.
Of(D, k)   == {d \in D : d.key = k /\ ~ d.hung}
Waiting(k) == Of(dispatches, k)

\* The engine knows of k: it was shown, or its answer is awaited. When the event
\* is over it need not know: nothing is sent any more.
Pending(k) == \E d \in dispatches : d.key = k /\ Heard(d) /\ ~ d.settled
Known(k)   == k \in delivered \/ Pending(k)
Spent(k)   == EndOf[k.event] <= now
Claim(k)   == IF Known(k) \/ Spent(k) THEN 1 ELSE 0

\* What was shown and what may still be shown is paid for, unless the key was
\* forgotten while its event runs.
Counted(k) == /\ Count(shown, k) \in Nat /\ Count(excused, k) \in Nat
              /\ IsFiniteSet(Waiting(k))
Paid(k) ==
  /\ Counted(k)
  /\ Forgotten(k) \/ Count(shown, k) + Cardinality(Waiting(k)) <= Count(excused, k) + Claim(k)

ReminderInv ==
  /\ ReminderTypeOK
  /\ ~ up => delivered = {}
  /\ DOMAIN shown \subseteq Keys
  /\ \A k \in Keys : Paid(k)

-----------------------------------------------------------------------------
(* Counters, strategies and sets of dispatches.                            *)

LEMMA CountsOneMore ==
  ASSUME NEW f, NEW K, NEW k
  PROVE  Count(OneMore(f, K), k) = Count(f, k) + (IF k \in K THEN 1 ELSE 0)
BY DEF Count, OneMore

LEMMA CountsAnother ==
  ASSUME NEW f, NEW j, NEW k, Count(f, k) \in Nat
  PROVE  /\ j = k => Count(OneMore(f, {j}), k) = Count(f, k) + 1
         /\ j # k => Count(OneMore(f, {j}), k) = Count(f, k)
<1> DEFINE K == {j}
<1>1. k \in K <=> j = k
  OBVIOUS
<1>2. Count(OneMore(f, K), k) = Count(f, k) + (IF k \in K THEN 1 ELSE 0)
  BY CountsOneMore
<1> HIDE DEF K
<1>3. j = k => Count(OneMore(f, K), k) = Count(f, k) + 1
  BY <1>1, <1>2
<1>4. j # k => Count(OneMore(f, K), k) = Count(f, k)
  BY <1>1, <1>2
<1> QED
  BY <1>3, <1>4 DEF K

LEMMA DomainOneMore ==
  ASSUME NEW f, NEW K
  PROVE  DOMAIN OneMore(f, K) = DOMAIN f \cup K
BY DEF OneMore

Below == {nm \in Nat \X Nat : nm[1] < nm[2]}

LEMMA FirstIsOne ==
  ASSUME NEW S \in SUBSET Nat, S # {}
  PROVE  First(S) \in S
<1>1. IsWellFoundedOn(Below, Nat)
  BY NatLessThanWellFounded DEF OpToRel, Below
<1>2. PICK j \in S : \A k \in S : <<k, j>> \notin Below
  BY <1>1, WFMin
<1>3. ASSUME NEW k \in S PROVE j <= k
  <2>1. k \in Nat /\ j \in Nat
    OBVIOUS
  <2>2. ~ (k < j)
    BY <1>2, <2>1 DEF Below
  <2> QED
    BY <2>1, <2>2
<1> QED
  BY <1>3 DEF First

Dispatches == [key : Keys, by : DOMAIN Strategies, since : 0 .. MaxTime,
               settled : BOOLEAN, hung : BOOLEAN, run : 1 .. starts]

LEMMA Altered ==
  ASSUME NEW r, NEW d \in [key : Keys, by : DOMAIN Strategies, since : 0 .. MaxTime,
                           settled : BOOLEAN, hung : BOOLEAN, run : 1 .. r],
         NEW j \in DOMAIN Strategies
  PROVE  LET All == [key : Keys, by : DOMAIN Strategies, since : 0 .. MaxTime,
                     settled : BOOLEAN, hung : BOOLEAN, run : 1 .. r]
         IN  /\ LET e == [d EXCEPT !.by = j]
                IN  e \in All /\ e.key = d.key /\ e.hung = d.hung
                    /\ e.settled = d.settled /\ e.run = d.run
             /\ LET e == [d EXCEPT !.hung = TRUE]
                IN  e \in All /\ e.key = d.key /\ e.hung
                    /\ e.settled = d.settled /\ e.run = d.run
             /\ LET e == [d EXCEPT !.settled = TRUE]
                IN  e \in All /\ e.key = d.key /\ e.hung = d.hung
             /\ LET e == [d EXCEPT !.by = 1, !.settled = TRUE]
                IN  e \in All /\ e.key = d.key /\ e.hung = d.hung
<1>1. 1 \in DOMAIN Strategies
  BY RemindersAssumption
<1> QED
  BY <1>1

LEMMA LeaveOne ==
  ASSUME NEW D, NEW k, NEW d \in D, ~ d.hung, IsFiniteSet(Of(D, k))
  PROVE  /\ IsFiniteSet(Of(D \ {d}, k)) /\ Cardinality(Of(D, k)) \in Nat
         /\ Cardinality(Of(D \ {d}, k)) =
              Cardinality(Of(D, k)) - (IF d.key = k THEN 1 ELSE 0)
<1>1. Of(D \ {d}, k) = Of(D, k) \ {d} /\ (d \in Of(D, k) <=> d.key = k)
  BY DEF Of
<1>2. Cardinality(Of(D, k)) \in Nat
  BY FS_CardinalityType
<1> DEFINE S == Of(D, k)
<1> HIDE DEF S
<1>3. /\ IsFiniteSet(S \ {d})
      /\ Cardinality(S \ {d}) = IF d \in S THEN Cardinality(S) - 1 ELSE Cardinality(S)
  BY FS_RemoveElement DEF S
<1>4. IsFiniteSet(Of(D \ {d}, k))
  BY <1>1, <1>3 DEF S
<1>5. Cardinality(Of(D \ {d}, k)) =
        IF d.key = k THEN Cardinality(Of(D, k)) - 1 ELSE Cardinality(Of(D, k))
  BY <1>1, <1>3 DEF S
<1>6. \A n \in Nat : n - 0 = n
  OBVIOUS
<1> QED
  BY <1>2, <1>4, <1>5, <1>6

LEMMA JoinOne ==
  ASSUME NEW D, NEW k, NEW e, IsFiniteSet(Of(D, k))
  PROVE  /\ IsFiniteSet(Of(D \cup {e}, k)) /\ Cardinality(Of(D \cup {e}, k)) \in Nat
         /\ Cardinality(Of(D \cup {e}, k)) <=
              Cardinality(Of(D, k)) + (IF e.key = k /\ ~ e.hung THEN 1 ELSE 0)
<1>1. Cardinality(Of(D, k)) \in Nat
  BY FS_CardinalityType
<1>2. CASE e.key = k /\ ~ e.hung
  <2>1. Of(D \cup {e}, k) = Of(D, k) \cup {e}
    BY <1>2 DEF Of
  <2>2. /\ IsFiniteSet(Of(D, k) \cup {e})
        /\ Cardinality(Of(D, k) \cup {e}) =
             IF e \in Of(D, k) THEN Cardinality(Of(D, k)) ELSE Cardinality(Of(D, k)) + 1
    BY FS_AddElement
  <2>3. IsFiniteSet(Of(D \cup {e}, k))
    BY <2>1, <2>2
  <2>4. /\ Cardinality(Of(D \cup {e}, k)) \in Nat
        /\ Cardinality(Of(D \cup {e}, k)) <= Cardinality(Of(D, k)) + 1
    <3>1. Cardinality(Of(D \cup {e}, k)) \in {Cardinality(Of(D, k)), Cardinality(Of(D, k)) + 1}
      BY <2>1, <2>2
    <3> QED
      BY <1>1, <3>1
  <2> QED
    BY <1>2, <2>3, <2>4
<1>3. CASE ~ (e.key = k /\ ~ e.hung)
  <2>1. Of(D \cup {e}, k) = Of(D, k)
    BY <1>3 DEF Of
  <2> QED
    BY <1>1, <1>3, <2>1
<1> QED
  BY <1>2, <1>3

\* One child for another of the same notification.
LEMMA Exchange ==
  ASSUME NEW D, NEW k, NEW d \in D, ~ d.hung, IsFiniteSet(Of(D, k)), NEW e, e.key = d.key
  PROVE  LET E == (D \ {d}) \cup {e}
         IN  /\ IsFiniteSet(Of(E, k)) /\ Cardinality(Of(E, k)) \in Nat
             /\ Cardinality(Of(E, k)) <= Cardinality(Of(D, k))
             /\ e.hung /\ d.key = k => Cardinality(Of(E, k)) <= Cardinality(Of(D, k)) - 1
<1> DEFINE R == D \ {d}
           E == R \cup {e}
<1>1. /\ IsFiniteSet(Of(R, k)) /\ Cardinality(Of(D, k)) \in Nat
      /\ Cardinality(Of(R, k)) = Cardinality(Of(D, k)) - (IF d.key = k THEN 1 ELSE 0)
  BY LeaveOne
<1>2. Cardinality(Of(R, k)) \in Nat
  BY <1>1, FS_CardinalityType
<1> HIDE DEF R
<1>3. /\ IsFiniteSet(Of(E, k)) /\ Cardinality(Of(E, k)) \in Nat
      /\ Cardinality(Of(E, k)) <=
           Cardinality(Of(R, k)) + (IF e.key = k /\ ~ e.hung THEN 1 ELSE 0)
  BY <1>1, JoinOne
<1> HIDE DEF E
<1>4. Cardinality(Of(E, k)) <= Cardinality(Of(D, k))
  BY <1>1, <1>2, <1>3
<1>5. e.hung /\ d.key = k => Cardinality(Of(E, k)) <= Cardinality(Of(D, k)) - 1
  BY <1>1, <1>2, <1>3
<1> QED
  BY <1>3, <1>4, <1>5 DEF E, R

\* New children, one of each notification.
LEMMA JoinMany ==
  ASSUME NEW D, NEW k, NEW N, \A x, y \in N : x.key = y.key => x = y,
         IsFiniteSet(Of(D, k))
  PROVE  /\ IsFiniteSet(Of(D \cup N, k)) /\ Cardinality(Of(D \cup N, k)) \in Nat
         /\ Cardinality(Of(D \cup N, k)) <=
              Cardinality(Of(D, k)) + (IF \E x \in N : x.key = k THEN 1 ELSE 0)
<1>1. Cardinality(Of(D, k)) \in Nat
  BY FS_CardinalityType
<1>2. CASE \E x \in N : x.key = k
  <2>1. PICK x \in N : x.key = k
    BY <1>2
  <2>2. Of(D \cup N, k) \subseteq Of(D, k) \cup {x}
    BY <2>1 DEF Of
  <2> DEFINE B == Of(D, k) \cup {x}
  <2>3. /\ IsFiniteSet(B)
        /\ Cardinality(B) = IF x \in Of(D, k) THEN Cardinality(Of(D, k))
                                              ELSE Cardinality(Of(D, k)) + 1
    BY FS_AddElement
  <2> HIDE DEF B
  <2>4. Of(D \cup N, k) \in SUBSET B
    BY <2>2 DEF B
  <2>5. IsFiniteSet(Of(D \cup N, k)) /\ Cardinality(Of(D \cup N, k)) <= Cardinality(B)
    BY <2>3, <2>4, FS_Subset
  <2>6. Cardinality(Of(D \cup N, k)) \in Nat
    BY <2>5, FS_CardinalityType
  <2> QED
    BY <1>1, <1>2, <2>3, <2>5, <2>6, FS_CardinalityType
<1>3. CASE ~ \E x \in N : x.key = k
  <2>1. Of(D \cup N, k) = Of(D, k)
    BY <1>3 DEF Of
  <2> QED
    BY <1>1, <1>3, <2>1
<1> QED
  BY <1>2, <1>3

\* What the children that go on after a stop are made of.
LEMMA Survivors ==
  ASSUME NEW D, NEW k, NEW F, IsFiniteSet(Of(D, k)), NEW g,
         DOMAIN g = Of(D, k), Of(F, k) \subseteq {g[d] : d \in Of(D, k)}
  PROVE  /\ IsFiniteSet(Of(F, k)) /\ Cardinality(Of(F, k)) \in Nat
         /\ Cardinality(Of(F, k)) <= Cardinality(Of(D, k))
         /\ Cardinality(Of(D, k)) \in Nat
<1> DEFINE I == {g[d] : d \in Of(D, k)}
           h == [d \in Of(D, k) |-> g[d]]
<1>1. h \in Surjection(Of(D, k), I)
  BY DEF Surjection
<1>2. Cardinality(Of(D, k)) \in Nat
  BY FS_CardinalityType
<1> HIDE DEF h
<1>3. Of(F, k) \in SUBSET I
  OBVIOUS
<1> HIDE DEF I
<1>4. IsFiniteSet(I) /\ Cardinality(I) <= Cardinality(Of(D, k))
  BY <1>1, FS_Surjection
<1>5. Cardinality(I) \in Nat
  BY <1>4, FS_CardinalityType
<1>6. IsFiniteSet(Of(F, k)) /\ Cardinality(Of(F, k)) <= Cardinality(I)
  BY <1>3, <1>4, FS_Subset
<1>7. Cardinality(Of(F, k)) \in Nat
  BY <1>6, FS_CardinalityType
<1> QED
  BY <1>2, <1>4, <1>5, <1>6, <1>7

-----------------------------------------------------------------------------
(* Each step keeps what was shown paid for.                                *)

LEMMA ClaimIsANumber == \A k : Claim(k) \in {0, 1} /\ Claim(k)' \in {0, 1}
BY DEF Claim

\* What is over is over, and what is forgotten stays so.
LEMMA SameTime ==
  ASSUME NEW k, now' = now
  PROVE  (Spent(k)' <=> Spent(k)) /\ (Forgotten(k)' <=> Forgotten(k))
BY DEF Spent, Forgotten

\* The arithmetic of a step: no more is owed than before.
LEMMA NoMoreOwed ==
  ASSUME NEW s \in Nat, NEW w \in Nat, NEW x \in Nat, NEW c \in {0, 1},
         NEW s1 \in Nat, NEW w1 \in Nat, NEW x1 \in Nat, NEW c1 \in {0, 1},
         s + w <= x + c, s1 + w1 - s - w <= x1 + c1 - x - c
  PROVE  s1 + w1 <= x1 + c1
OBVIOUS

LEMMA PaidFacts ==
  ASSUME NEW k, Paid(k)
  PROVE  /\ Count(shown, k) \in Nat /\ Count(excused, k) \in Nat
         /\ IsFiniteSet(Waiting(k)) /\ Cardinality(Waiting(k)) \in Nat
         /\ ~ Forgotten(k) =>
              Count(shown, k) + Cardinality(Waiting(k)) <= Count(excused, k) + Claim(k)
BY FS_CardinalityType DEF Paid, Counted

LEMMA ShowsPays ==
  ASSUME ReminderInv, NEW d \in dispatches, Shows(d), NEW k \in Keys
  PROVE  Paid(k)'
<1>1. Paid(k)
  BY DEF ReminderInv
<1>2. /\ ~ d.hung /\ dispatches' = dispatches \ {d}
      /\ shown' = OneMore(shown, {d.key}) /\ excused' = excused
      /\ up' = up /\ starts' = starts /\ now' = now
      /\ delivered' = IF Heard(d) /\ ~ d.settled THEN delivered \cup {d.key} ELSE delivered
  BY DEF Shows
<1>3. /\ d.key = k => Count(shown', k) = Count(shown, k) + 1
      /\ d.key # k => Count(shown', k) = Count(shown, k)
  <2>1. shown' = OneMore(shown, {d.key})
    BY <1>2
  <2>2. Count(shown, k) \in Nat
    BY <1>1, PaidFacts
  <2> QED
    BY <2>1, <2>2, CountsAnother
<1>4. /\ IsFiniteSet(Waiting(k)')
      /\ Cardinality(Waiting(k)') = Cardinality(Waiting(k)) - (IF d.key = k THEN 1 ELSE 0)
  BY <1>1, <1>2, LeaveOne DEF Waiting, Paid, Counted
<1>5. Cardinality(Waiting(k)') \in Nat
  BY <1>4, FS_CardinalityType
<1>6. Known(k) => Known(k)'
  BY <1>2 DEF Known, Pending, Heard
<1>7. Claim(k) <= Claim(k)'
  BY <1>2, <1>6, SameTime DEF Claim
<1>8. Count(shown', k) + Cardinality(Waiting(k)') = Count(shown, k) + Cardinality(Waiting(k))
  BY <1>1, <1>3, <1>4, <1>5, PaidFacts
<1>9. Forgotten(k)' <=> Forgotten(k)
  BY <1>2, SameTime
<1> QED
  BY <1>1, <1>2, <1>3, <1>4, <1>5, <1>7, <1>8, <1>9, PaidFacts, ClaimIsANumber DEF Paid, Counted

\* Whatever the child does not show, it leaves no more to be shown.
LEMMA Quieter ==
  ASSUME NEW k, Paid(k), now' = now, shown' = shown, excused' = excused,
         IsFiniteSet(Waiting(k)'), Cardinality(Waiting(k)') \in Nat,
         Cardinality(Waiting(k)') <= Cardinality(Waiting(k)) + Claim(k)' - Claim(k)
  PROVE  Paid(k)'
BY PaidFacts, ClaimIsANumber, SameTime DEF Paid, Counted

\* A child that fails is followed by none, or by one with a strategy of the list.
LEMMA FailsAgain ==
  ASSUME ReminderTypeOK, NEW d \in dispatches, Fails(d)
  PROVE  \/ dispatches' = dispatches \ {d}
         \/ \E j \in DOMAIN Strategies : dispatches' = (dispatches \ {d}) \cup {[d EXCEPT !.by = j]}
<1>1. CASE ~ Heard(d)
  BY <1>1 DEF Fails
<1>2. CASE Heard(d)
  <2> DEFINE gone == dead \cup {Strategies[d.by]}
             next == {j \in Alive(d.by + 1) : Strategies[j] \notin gone}
  <2>1. dispatches' = (dispatches \ {d}) \cup
                      IF next = {} THEN {} ELSE {[d EXCEPT !.by = First(next)]}
    BY <1>2 DEF Fails
  <2>2. next \subseteq DOMAIN Strategies
    BY DEF Alive
  <2> HIDE DEF next
  <2>3. CASE next = {}
    BY <2>1, <2>3
  <2>4. CASE next # {}
    <3>1. next \in SUBSET Nat
      BY <2>2, RemindersAssumption
    <3>2. First(next) \in DOMAIN Strategies
      BY <2>2, <2>4, <3>1, FirstIsOne
    <3> QED
      BY <2>1, <2>4, <3>2
  <2> QED
    BY <2>3, <2>4
<1> QED
  BY <1>1, <1>2

LEMMA FailsPays ==
  ASSUME ReminderInv, NEW d \in dispatches, Fails(d), NEW k \in Keys
  PROVE  Paid(k)'
<1>0. d \in Dispatches
  BY DEF ReminderInv, ReminderTypeOK, Dispatches
<1>1. Paid(k)
  BY DEF ReminderInv
<1>2. /\ ~ d.hung /\ shown' = shown /\ excused' = excused
      /\ up' = up /\ starts' = starts /\ delivered' = delivered /\ now' = now
  BY DEF Fails
<1>3. CASE dispatches' = dispatches \ {d}
  <2>1. /\ IsFiniteSet(Waiting(k)')
        /\ Cardinality(Waiting(k)') = Cardinality(Waiting(k)) - (IF d.key = k THEN 1 ELSE 0)
    BY <1>1, <1>2, <1>3, LeaveOne DEF Waiting, Paid, Counted
  <2>2. Cardinality(Waiting(k)') \in Nat
    BY <2>1, FS_CardinalityType
  <2>3. d.key # k => (Known(k) <=> Known(k)')
    BY <1>2, <1>3 DEF Known, Pending, Heard
  <2>4. d.key # k => Claim(k)' = Claim(k)
    BY <1>2, <2>3, SameTime DEF Claim
  <2>5. Cardinality(Waiting(k)') <= Cardinality(Waiting(k)) + Claim(k)' - Claim(k)
    BY <1>1, <2>1, <2>2, <2>4, PaidFacts, ClaimIsANumber
  <2> QED
    BY <1>1, <1>2, <2>1, <2>2, <2>5, Quieter
<1>4. CASE dispatches' # dispatches \ {d}
  <2>1. PICK j \in DOMAIN Strategies : dispatches' = (dispatches \ {d}) \cup {[d EXCEPT !.by = j]}
    BY <1>4, FailsAgain DEF ReminderInv
  <2> DEFINE e == [d EXCEPT !.by = j]
  <2>2. e.key = d.key /\ e.hung = d.hung /\ e.settled = d.settled /\ e.run = d.run
    BY <1>0, <2>1, Altered DEF Dispatches
  <2>3. dispatches' = (dispatches \ {d}) \cup {e}
    BY <2>1
  <2> HIDE DEF e
  <2>4. /\ IsFiniteSet(Waiting(k)') /\ Cardinality(Waiting(k)') \in Nat
        /\ Cardinality(Waiting(k)') <= Cardinality(Waiting(k))
    BY <1>1, <1>2, <2>2, <2>3, Exchange DEF Waiting, Paid, Counted
  <2>5. Known(k) <=> Known(k)'
    BY <1>2, <2>2, <2>3 DEF Known, Pending, Heard
  <2>6. Claim(k)' = Claim(k)
    BY <1>2, <2>5, SameTime DEF Claim
  <2>7. Cardinality(Waiting(k)') <= Cardinality(Waiting(k)) + Claim(k)' - Claim(k)
    BY <1>1, <2>4, <2>6, PaidFacts, ClaimIsANumber
  <2> QED
    BY <1>1, <1>2, <2>4, <2>7, Quieter
<1> QED
  BY <1>3, <1>4

LEMMA HangsPays ==
  ASSUME ReminderInv, NEW d \in dispatches, Hangs(d), NEW k \in Keys
  PROVE  Paid(k)'
<1>0. d \in Dispatches
  BY DEF ReminderInv, ReminderTypeOK, Dispatches
<1>1. Paid(k)
  BY DEF ReminderInv
<1> DEFINE e == [d EXCEPT !.hung = TRUE]
<1>2. /\ ~ d.hung /\ shown' = shown /\ excused' = excused
      /\ up' = up /\ starts' = starts /\ delivered' = delivered /\ now' = now
      /\ dispatches' = (dispatches \ {d}) \cup {e}
  BY DEF Hangs, engineState
<1>3. e.key = d.key /\ e.settled = d.settled /\ e.run = d.run
  BY <1>0, Altered DEF Dispatches
<1> HIDE DEF e
<1>4. /\ IsFiniteSet(Waiting(k)') /\ Cardinality(Waiting(k)') \in Nat
      /\ Cardinality(Waiting(k)') <= Cardinality(Waiting(k))
  BY <1>1, <1>2, <1>3, Exchange DEF Waiting, Paid, Counted
<1>5. Known(k) <=> Known(k)'
  BY <1>2, <1>3 DEF Known, Pending, Heard
<1>6. Claim(k)' = Claim(k)
  BY <1>2, <1>5, SameTime DEF Claim
<1>7. Cardinality(Waiting(k)') <= Cardinality(Waiting(k)) + Claim(k)' - Claim(k)
  BY <1>1, <1>4, <1>6, PaidFacts, ClaimIsANumber
<1> QED
  BY <1>1, <1>2, <1>4, <1>7, Quieter

LEMMA ValvePays ==
  ASSUME ReminderInv, NEW d \in dispatches, Valve(d), NEW k \in Keys
  PROVE  Paid(k)'
<1>0. d \in Dispatches
  BY DEF ReminderInv, ReminderTypeOK, Dispatches
<1>1. Paid(k)
  BY DEF ReminderInv
<1> DEFINE e == [d EXCEPT !.settled = TRUE]
<1>2. /\ shown' = shown /\ excused' = OneMore(excused, {d.key})
      /\ up' = up /\ starts' = starts /\ delivered' = delivered /\ now' = now
      /\ dispatches' = (dispatches \ {d}) \cup (IF d.hung THEN {} ELSE {e})
  BY DEF Valve, engineState
<1>3. e.key = d.key /\ e.hung = d.hung
  BY <1>0, Altered DEF Dispatches
<1> HIDE DEF e
<1>4. /\ d.key = k => Count(excused', k) = Count(excused, k) + 1
      /\ d.key # k => Count(excused', k) = Count(excused, k)
  <2>1. excused' = OneMore(excused, {d.key})
    BY <1>2
  <2>2. Count(excused, k) \in Nat
    BY <1>1, PaidFacts
  <2> QED
    BY <2>1, <2>2, CountsAnother
<1>5. /\ IsFiniteSet(Waiting(k)') /\ Cardinality(Waiting(k)') \in Nat
      /\ Cardinality(Waiting(k)') <= Cardinality(Waiting(k))
  <2>1. CASE d.hung
    <3>1. Waiting(k)' = Waiting(k)
      BY <1>2, <2>1 DEF Waiting, Of
    <3> QED
      BY <1>1, <3>1, PaidFacts
  <2>2. CASE ~ d.hung
    <3>1. dispatches' = (dispatches \ {d}) \cup {e}
      BY <1>2, <2>2
    <3> QED
      BY <1>1, <1>3, <2>2, <3>1, Exchange DEF Waiting, Paid, Counted
  <2> QED
    BY <2>1, <2>2
<1>6. d.key # k => (Known(k) <=> Known(k)')
  BY <1>2, <1>3 DEF Known, Pending, Heard
<1>7. d.key # k => Claim(k)' = Claim(k)
  BY <1>2, <1>6, SameTime DEF Claim
<1>8. ~ Forgotten(k)' =>
        Count(shown', k) + Cardinality(Waiting(k)') <= Count(excused', k) + Claim(k)'
  <2> SUFFICES ASSUME ~ Forgotten(k)
               PROVE  Count(shown', k) + Cardinality(Waiting(k)') <= Count(excused', k) + Claim(k)'
    BY <1>2, SameTime
  <2>1. CASE d.key = k
    BY <1>1, <1>2, <1>4, <1>5, <2>1, PaidFacts, ClaimIsANumber
  <2>2. CASE d.key # k
    BY <1>1, <1>2, <1>4, <1>5, <1>7, <2>2, PaidFacts, ClaimIsANumber
  <2> QED
    BY <2>1, <2>2
<1>9. Count(excused', k) \in Nat
  BY <1>1, <1>4, PaidFacts
<1> QED
  BY <1>1, <1>2, <1>5, <1>8, <1>9, PaidFacts DEF Paid, Counted

LEMMA KeyTypes ==
  ASSUME NEW k \in Keys
  PROVE  EndOf[k.event] \in Nat /\ k.at + KeepFor \in Int
<1>1. k.event \in TimedEvents /\ k.at \in Int
  BY RemindersAssumption DEF Keys
<1> QED
  BY <1>1, RemindersAssumption

\* A tick and a start send a notification only of what the engine knows nothing of,
\* or of what it has forgotten while the event runs.
LEMMA SendingPays ==
  ASSUME NEW k \in Keys, Paid(k), ~ Pending(k), NEW N,
         \A x \in N : x.key \in Due /\ x.run = starts' /\ ~ x.settled /\ ~ x.hung,
         \A x, y \in N : x.key = y.key => x = y,
         dispatches' = dispatches \cup N, up', delivered' = Kept,
         now' = now, now \in Nat, shown' = shown, excused' = excused
  PROVE  Paid(k)'
<1>1. /\ IsFiniteSet(Waiting(k)') /\ Cardinality(Waiting(k)') \in Nat
      /\ Cardinality(Waiting(k)') <=
           Cardinality(Waiting(k)) + (IF \E x \in N : x.key = k THEN 1 ELSE 0)
  BY JoinMany DEF Waiting, Paid, Counted
<1>2. CASE Forgotten(k)
  BY <1>1, <1>2, PaidFacts, SameTime DEF Paid, Counted
<1>3. CASE ~ Forgotten(k) /\ \E x \in N : x.key = k
  <2>1. k \in Called /\ k \notin Kept
    BY <1>3 DEF Due
  <2>2. EndOf[k.event] > now
    BY <2>1 DEF Called, Fires, IsDue, Key
  <2>3. EndOf[k.event] \in Nat /\ k.at + KeepFor \in Int
    BY KeyTypes
  <2>4. ~ Spent(k)
    BY <2>2, <2>3 DEF Spent
  <2>5. k \notin delivered
    BY <1>3, <2>1, <2>2, <2>3 DEF Kept, Forgotten
  <2>6. Pending(k)'
    BY <1>3 DEF Pending, Heard
  <2>7. Claim(k) = 0 /\ Claim(k)' = 1
    BY <2>4, <2>5, <2>6 DEF Claim, Known
  <2>8. Cardinality(Waiting(k)') <= Cardinality(Waiting(k)) + Claim(k)' - Claim(k)
    BY <1>1, <1>3, <2>7, PaidFacts
  <2> QED
    BY <1>1, <2>8, Quieter
<1>4. CASE ~ Forgotten(k) /\ ~ \E x \in N : x.key = k
  <2>1. k \in delivered \ Kept => Spent(k)
    <3>1. EndOf[k.event] \in Nat /\ k.at + KeepFor \in Int
      BY KeyTypes
    <3> QED
      BY <1>4, <3>1 DEF Kept, Forgotten, Spent
  <2>2. Known(k) => Known(k)' \/ Spent(k)
    BY <2>1 DEF Known
  <2>3. Claim(k) <= Claim(k)'
    BY <2>2, SameTime DEF Claim
  <2>4. Cardinality(Waiting(k)') <= Cardinality(Waiting(k)) + Claim(k)' - Claim(k)
    BY <1>1, <1>4, <2>3, PaidFacts, ClaimIsANumber
  <2> QED
    BY <1>1, <2>4, Quieter
<1> QED
  BY <1>2, <1>3, <1>4

\* What is sent: one notification for each key.
LEMMA Sent ==
  ASSUME NEW K, NEW x \in Dispatch(K)
  PROVE  /\ Alive(1) # {}
         /\ \E k \in K : x = [key |-> k, by |-> First(Alive(1)), since |-> now,
                             settled |-> FALSE, hung |-> FALSE, run |-> starts]
BY DEF Dispatch

LEMMA TickPays ==
  ASSUME ReminderInv, Tick, NEW k \in Keys
  PROVE  Paid(k)'
<1>1. /\ up' /\ starts' = starts /\ delivered' = Kept /\ shown' = shown /\ now' = now
      /\ excused' = excused /\ dispatches' = dispatches \cup Dispatch(Due)
      /\ \A d \in dispatches : Heard(d) => d.settled
  BY DEF Tick
<1>2. ASSUME NEW x \in Dispatch(Due)
      PROVE  x.key \in Due /\ x.run = starts' /\ ~ x.settled /\ ~ x.hung
  BY <1>1, Sent
<1>4. ASSUME NEW x \in Dispatch(Due), NEW y \in Dispatch(Due), x.key = y.key
      PROVE  x = y
  <2>1. PICK i \in Due : x = [key |-> i, by |-> First(Alive(1)), since |-> now,
                              settled |-> FALSE, hung |-> FALSE, run |-> starts]
    BY Sent
  <2>2. PICK j \in Due : y = [key |-> j, by |-> First(Alive(1)), since |-> now,
                              settled |-> FALSE, hung |-> FALSE, run |-> starts]
    BY Sent
  <2>3. i = j
    BY <1>4, <2>1, <2>2
  <2> QED
    BY <2>1, <2>2, <2>3
<1>3. Paid(k) /\ ~ Pending(k)
  BY <1>1 DEF ReminderInv, Pending
<1>5. now \in Nat
  BY DEF ReminderInv, ReminderTypeOK
<1> QED
  BY <1>1, <1>2, <1>3, <1>4, <1>5, SendingPays

LEMMA StartPays ==
  ASSUME ReminderInv, Start, NEW k \in Keys
  PROVE  Paid(k)'
<1> DEFINE N == {[d EXCEPT !.run = starts'] : d \in Dispatch(Due)}
<1>1. /\ up' /\ ~ up /\ delivered' = Kept /\ shown' = shown /\ now' = now
      /\ excused' = excused /\ dispatches' = dispatches \cup N
  BY DEF Start
<1> DEFINE New(i) == [key |-> i, by |-> First(Alive(1)), since |-> now,
                       settled |-> FALSE, hung |-> FALSE, run |-> starts']
<1>5. ASSUME NEW x \in N PROVE \E i \in Due : x = New(i)
  <2>1. PICK d \in Dispatch(Due) : x = [d EXCEPT !.run = starts']
    OBVIOUS
  <2>2. PICK i \in Due : d = [key |-> i, by |-> First(Alive(1)), since |-> now,
                              settled |-> FALSE, hung |-> FALSE, run |-> starts]
    BY Sent
  <2> QED
    BY <2>1, <2>2
<1>2. ASSUME NEW x \in N
      PROVE  x.key \in Due /\ x.run = starts' /\ ~ x.settled /\ ~ x.hung
  BY <1>5
<1>4. ASSUME NEW x \in N, NEW y \in N, x.key = y.key
      PROVE  x = y
  <2>1. PICK i \in Due : x = New(i)
    BY <1>5
  <2>2. PICK j \in Due : y = New(j)
    BY <1>5
  <2>3. i = j
    BY <1>4, <2>1, <2>2
  <2> QED
    BY <2>1, <2>2, <2>3
<1>3. Paid(k) /\ ~ Pending(k)
  BY <1>1 DEF ReminderInv, Pending, Heard
<1>6. now \in Nat
  BY DEF ReminderInv, ReminderTypeOK
<1> HIDE DEF N
<1> QED
  BY <1>1, <1>2, <1>3, <1>4, <1>6, SendingPays

LEMMA StopPays ==
  ASSUME ReminderInv, Stop, NEW k \in Keys
  PROVE  Paid(k)'
<1> DEFINE Awaited == {d.key : d \in {x \in dispatches : Heard(x) /\ ~ x.settled}}
           On == {x \in dispatches : ~ x.hung}
           g == [d \in Of(dispatches, k) |-> [d EXCEPT !.by = 1, !.settled = TRUE]]
<1>0. dispatches \subseteq Dispatches
  BY DEF ReminderInv, ReminderTypeOK, Dispatches
<1>1. Paid(k)
  BY DEF ReminderInv
<1>2. /\ shown' = shown /\ excused' = OneMore(excused, delivered \cup Awaited)
      /\ ~ up' /\ delivered' = {} /\ now' = now
      /\ dispatches' = {[d EXCEPT !.by = 1, !.settled = TRUE] : d \in On}
  BY DEF Stop
<1>3. k \in delivered \cup Awaited <=> Known(k)
  BY DEF Known, Pending
<1>4. Count(excused', k) = Count(excused, k) + (IF Known(k) THEN 1 ELSE 0)
  <2> DEFINE A == delivered \cup Awaited
  <2>1. k \in A <=> Known(k)
    BY <1>3
  <2> HIDE DEF A, Awaited
  <2>2. Count(OneMore(excused, A), k) = Count(excused, k) + (IF k \in A THEN 1 ELSE 0)
    BY CountsOneMore
  <2>3. excused' = OneMore(excused, A)
    BY <1>2 DEF A
  <2> QED
    BY <2>1, <2>2, <2>3
<1>5. Claim(k) <= Claim(k)' + (IF Known(k) THEN 1 ELSE 0)
  <2>1. Spent(k) => Claim(k) = 1 /\ Claim(k)' = 1
    BY <1>2, SameTime DEF Claim
  <2>2. ~ Spent(k) => Claim(k) = IF Known(k) THEN 1 ELSE 0
    BY DEF Claim
  <2> QED
    BY <2>1, <2>2, ClaimIsANumber
<1>6. Of(dispatches', k) \subseteq {g[d] : d \in Of(dispatches, k)}
  <2> SUFFICES ASSUME NEW x \in Of(dispatches', k)
               PROVE  \E d \in Of(dispatches, k) : x = g[d]
    OBVIOUS
  <2>1. x \in dispatches' /\ x.key = k /\ ~ x.hung
    BY DEF Of
  <2>2. PICK d \in On : x = [d EXCEPT !.by = 1, !.settled = TRUE]
    BY <1>2, <2>1
  <2>3. d \in Dispatches
    BY <1>0
  <2>4. x.key = d.key /\ ~ d.hung /\ d \in dispatches
    BY <2>2, <2>3, Altered DEF Dispatches
  <2>5. d \in Of(dispatches, k)
    BY <2>1, <2>4 DEF Of
  <2> QED
    BY <2>2, <2>5
<1> HIDE DEF g
<1>7. DOMAIN g = Of(dispatches, k)
  BY DEF g
<1>8. /\ IsFiniteSet(Waiting(k)') /\ Cardinality(Waiting(k)') \in Nat
      /\ Cardinality(Waiting(k)') <= Cardinality(Waiting(k))
  BY <1>1, <1>6, <1>7, Survivors DEF Waiting, Paid, Counted
<1>9. Count(excused', k) \in Nat
  BY <1>1, <1>4, PaidFacts
<1>10. ~ Forgotten(k)' =>
         Count(shown', k) + Cardinality(Waiting(k)') <= Count(excused', k) + Claim(k)'
  <2> SUFFICES ASSUME ~ Forgotten(k)
               PROVE  Count(shown', k) + Cardinality(Waiting(k)') <= Count(excused', k) + Claim(k)'
    BY <1>2, SameTime
  <2>1. Count(shown', k) = Count(shown, k) /\ Count(shown', k) \in Nat
    BY <1>1, <1>2, PaidFacts
  <2>2. Count(shown', k) + Cardinality(Waiting(k)') <= Count(excused, k) + Claim(k)
    BY <1>1, <1>8, <2>1, PaidFacts, ClaimIsANumber
  <2> QED
    BY <1>1, <1>4, <1>5, <1>8, <2>1, <2>2, PaidFacts, ClaimIsANumber
<1> QED
  BY <1>1, <1>2, <1>8, <1>9, <1>10, PaidFacts DEF Paid, Counted

-----------------------------------------------------------------------------
(* The types.                                                              *)

LEMMA CalledType == ASSUME ReminderTypeOK PROVE Called \subseteq Keys
<1> SUFFICES ASSUME NEW e \in TimedEvents, Fires(e) PROVE Key(e) \in Keys
  BY DEF Called
<1>1. reminder[e] \in Rows
  BY DEF Fires, IsDue, ReminderTypeOK
<1> QED
  BY <1>1 DEF Key, Moment, Keys, Rows

LEMMA SentType == ASSUME ReminderTypeOK PROVE Dispatch(Due) \subseteq Dispatches
<1> SUFFICES ASSUME NEW x \in Dispatch(Due) PROVE x \in Dispatches
  OBVIOUS
<1>1. Alive(1) # {} /\ Alive(1) \subseteq DOMAIN Strategies /\ Alive(1) \in SUBSET Nat
  BY Sent, RemindersAssumption DEF Alive
<1>2. First(Alive(1)) \in DOMAIN Strategies
  BY <1>1, FirstIsOne
<1>3. PICK k \in Due : x = [key |-> k, by |-> First(Alive(1)), since |-> now,
                            settled |-> FALSE, hung |-> FALSE, run |-> starts]
  BY Sent
<1>4. k \in Keys /\ now \in 0 .. MaxTime /\ starts \in 1 .. starts
  BY <1>3, CalledType DEF Due, ReminderTypeOK
<1> QED
  BY <1>2, <1>3, <1>4 DEF Dispatches

LEMMA InitInv == ReminderInit => ReminderInv
<1> SUFFICES ASSUME ReminderInit PROVE ReminderInv
  OBVIOUS
<1>1. ReminderTypeOK
  BY RemindersAssumption DEF ReminderInit, ReminderTypeOK, Cap, Keys
<1>2. ASSUME NEW k \in Keys PROVE Paid(k)
  <2>1. Count(shown, k) = 0 /\ Count(excused, k) = 0
    BY DEF ReminderInit, Nothing, Count
  <2>2. Waiting(k) = {}
    BY DEF ReminderInit, Waiting, Of
  <2>3. IsFiniteSet(Waiting(k)) /\ Cardinality(Waiting(k)) = 0
    BY <2>2, FS_EmptySet
  <2> QED
    BY <2>1, <2>3, ClaimIsANumber DEF Paid, Counted
<1> QED
  BY <1>1, <1>2 DEF ReminderInv, ReminderInit, Nothing

LEMMA CapType == \A t \in Nat : Cap(t) \in 0 .. MaxTime
BY RemindersAssumption DEF Cap

\* The user, the clock and what is on its way are apart.
UserType == /\ live \subseteq TimedEvents /\ reminder \in [TimedEvents -> Rows \cup {NoReminder}]
            /\ sets \in 0 .. MaxSets
RunType  == /\ now \in 0 .. MaxTime /\ nextTick \in 0 .. MaxTime
            /\ up \in BOOLEAN /\ starts \in 1 .. MaxStarts
SentOnly == delivered \subseteq {k \in Keys : Count(shown, k) > 0}

LEMMA TypeParts ==
  ReminderTypeOK <=> UserType /\ RunType /\ SentOnly /\ dispatches \subseteq Dispatches
BY DEF ReminderTypeOK, UserType, RunType, SentOnly, Dispatches

LEMMA ExitTypes ==
  ASSUME ReminderInv, NEW d \in dispatches, Shows(d) \/ Fails(d) \/ Hangs(d) \/ Valve(d)
  PROVE  ReminderTypeOK' /\ DOMAIN shown' \subseteq Keys
<1>0. UserType /\ RunType /\ SentOnly /\ dispatches \subseteq Dispatches /\ d \in Dispatches
  BY TypeParts DEF ReminderInv
<1>1. UserType' /\ RunType' /\ Dispatches' = Dispatches
  BY <1>0 DEF Shows, Fails, Hangs, Valve, user, engineState, UserType, RunType, Dispatches
<1>2. dispatches' \subseteq Dispatches
  <2>1. CASE Shows(d)
    BY <1>0, <2>1 DEF Shows
  <2>2. CASE Fails(d)
    <3>1. CASE dispatches' = dispatches \ {d}
      BY <1>0, <3>1
    <3>2. CASE dispatches' # dispatches \ {d}
      <4>1. PICK j \in DOMAIN Strategies : dispatches' = (dispatches \ {d}) \cup {[d EXCEPT !.by = j]}
        BY <2>2, <3>2, FailsAgain DEF ReminderInv
      <4>2. [d EXCEPT !.by = j] \in Dispatches
        BY <1>0, Altered DEF Dispatches
      <4> QED
        BY <1>0, <4>1, <4>2
    <3> QED
      BY <3>1, <3>2
  <2>3. CASE Hangs(d)
    <3>1. [d EXCEPT !.hung = TRUE] \in Dispatches
      BY <1>0, Altered DEF Dispatches
    <3> QED
      BY <1>0, <2>3, <3>1 DEF Hangs
  <2>4. CASE Valve(d)
    <3>1. [d EXCEPT !.settled = TRUE] \in Dispatches
      BY <1>0, Altered DEF Dispatches
    <3> QED
      BY <1>0, <2>4, <3>1 DEF Valve
  <2> QED
    BY <2>1, <2>2, <2>3, <2>4
<1>3. SentOnly' /\ DOMAIN shown' \subseteq Keys
  <2>1. CASE Shows(d)
    <3>1. d.key \in Keys
      BY <1>0 DEF Dispatches
    <3>2. shown' = OneMore(shown, {d.key}) /\ delivered' \subseteq delivered \cup {d.key}
      BY <2>1 DEF Shows
    <3>3. ASSUME NEW k \in delivered' PROVE k \in Keys /\ Count(shown', k) > 0
      <4>1. k \in Keys /\ (k = d.key \/ Count(shown, k) > 0)
        BY <1>0, <3>1, <3>2, <3>3 DEF SentOnly
      <4>2. Count(shown, k) \in Nat
        BY <4>1 DEF ReminderInv, Paid, Counted
      <4>3. Count(shown', k) \in {Count(shown, k), Count(shown, k) + 1}
            /\ (d.key = k => Count(shown', k) = Count(shown, k) + 1)
        <5>1. shown' = OneMore(shown, {d.key})
          BY <3>2
        <5>2. /\ d.key = k => Count(shown', k) = Count(shown, k) + 1
              /\ d.key # k => Count(shown', k) = Count(shown, k)
          BY <5>1, <4>2, CountsAnother
        <5> QED
          BY <5>2
      <4>4. Count(shown', k) > 0
        BY <4>1, <4>2, <4>3
      <4> QED
        BY <4>1, <4>4
    <3>4. DOMAIN shown' = DOMAIN shown \cup {d.key}
      BY <3>2, DomainOneMore
    <3> QED
      BY <3>1, <3>3, <3>4 DEF ReminderInv, SentOnly
  <2>2. CASE ~ Shows(d)
    BY <1>0, <2>2 DEF Fails, Hangs, Valve, engineState, SentOnly, ReminderInv
  <2> QED
    BY <2>1, <2>2
<1>4. ReminderTypeOK' <=> UserType' /\ RunType' /\ SentOnly' /\ dispatches' \subseteq Dispatches'
  BY DEF ReminderTypeOK, UserType, RunType, SentOnly, Dispatches
<1> QED
  BY <1>1, <1>2, <1>3, <1>4

LEMMA SidecarTypes ==
  ASSUME ReminderInv, Tick \/ Stop \/ Start \/ Advance
  PROVE  ReminderTypeOK' /\ DOMAIN shown' \subseteq Keys
<1>0. UserType /\ RunType /\ SentOnly /\ dispatches \subseteq Dispatches
  BY TypeParts DEF ReminderInv
<1>1. UserType'
  BY <1>0 DEF Tick, Stop, Start, Advance, user, UserType
<1>2. RunType'
  <2>1. Cap(now + Period) \in 0 .. MaxTime
    <3>1. now \in Nat /\ Period \in Nat
      BY <1>0, RemindersAssumption DEF RunType
    <3>2. now + Period \in Nat
      BY <3>1
    <3> QED
      BY <3>2, CapType
  <2>2. CASE Tick \/ Stop
    BY <1>0, <2>1, <2>2 DEF Tick, Stop, RunType
  <2>3. CASE Start
    <3>1. starts' = starts + 1 /\ starts < MaxStarts /\ MaxStarts \in Nat /\ up' = TRUE
          /\ now' = now /\ nextTick' = Cap(now + Period)
      BY <2>3, RemindersAssumption DEF Start
    <3>2. starts' \in 1 .. MaxStarts
      BY <1>0, <3>1 DEF RunType
    <3> QED
      BY <1>0, <2>1, <3>1, <3>2 DEF RunType
  <2>4. CASE Advance
    <3>1. now < MaxTime /\ now' = now + 1 /\ MaxTime \in Nat /\ UNCHANGED <<nextTick, up, starts>>
      BY <2>4, RemindersAssumption DEF Advance, engineState
    <3> QED
      BY <1>0, <3>1 DEF RunType
  <2> QED
    BY <2>2, <2>3, <2>4
<1>3. SentOnly' /\ DOMAIN shown' \subseteq Keys
  BY <1>0 DEF Tick, Stop, Start, Advance, Kept, engineState, SentOnly, ReminderInv
<1>4. dispatches' \subseteq Dispatches'
  <2>1. CASE Tick
    <3>1. Dispatches' = Dispatches /\ dispatches' = dispatches \cup Dispatch(Due)
      BY <2>1 DEF Tick, Dispatches
    <3> QED
      BY <1>0, <3>1, SentType DEF ReminderInv
  <2>2. CASE Start
    <3>1. /\ starts \in Nat /\ starts' = starts + 1
          /\ dispatches' = dispatches \cup {[d EXCEPT !.run = starts'] : d \in Dispatch(Due)}
      BY <1>0, <2>2 DEF Start, RunType
    <3>2. starts' \in 1 .. starts' /\ 1 .. starts \subseteq 1 .. starts'
      BY <3>1, <1>0 DEF RunType
    <3>3. Dispatches \subseteq Dispatches'
      BY <3>2 DEF Dispatches
    <3>4. \A d \in Dispatches : [d EXCEPT !.run = starts'] \in Dispatches'
      BY <3>2 DEF Dispatches
    <3> QED
      BY <1>0, <3>1, <3>3, <3>4, SentType DEF ReminderInv
  <2>3. CASE Stop
    <3>1. Dispatches' = Dispatches
          /\ dispatches' = {[d EXCEPT !.by = 1, !.settled = TRUE] : d \in {x \in dispatches : ~ x.hung}}
      BY <2>3 DEF Stop, Dispatches
    <3>2. \A d \in dispatches : [d EXCEPT !.by = 1, !.settled = TRUE] \in Dispatches
      BY <1>0, Altered DEF Dispatches
    <3> QED
      BY <3>1, <3>2
  <2>4. CASE Advance
    BY <1>0, <2>4 DEF Advance, engineState, Dispatches
  <2> QED
    BY <2>1, <2>2, <2>3, <2>4
<1>5. ReminderTypeOK' <=> UserType' /\ RunType' /\ SentOnly' /\ dispatches' \subseteq Dispatches'
  BY DEF ReminderTypeOK, UserType, RunType, SentOnly, Dispatches
<1> QED
  BY <1>1, <1>2, <1>3, <1>4, <1>5

LEMMA UserTypes ==
  ASSUME ReminderInv, NEW e \in TimedEvents,
         \/ \E before \in Befores : SaveReminder(e, before)
         \/ ClearReminder(e) \/ DeleteEvent(e)
  PROVE  ReminderTypeOK'
<1>0. UserType /\ RunType /\ SentOnly /\ dispatches \subseteq Dispatches
  BY TypeParts DEF ReminderInv
<1>1. UserType'
  <2>1. ASSUME NEW before \in Befores, SaveReminder(e, before) PROVE UserType'
    <3> DEFINE row == [before |-> before, set |-> now,
                       member |-> IF reminder[e] = NoReminder THEN sets' ELSE reminder[e].member]
    <3>1. sets' \in 1 .. MaxSets /\ UNCHANGED live
      BY <1>0, <2>1, RemindersAssumption DEF SaveReminder, UserType
    <3>2. reminder[e] # NoReminder => reminder[e].member \in 1 .. MaxSets
      BY <1>0 DEF UserType, Rows
    <3>3. row \in Rows
      BY <1>0, <3>1, <3>2 DEF RunType, Rows
    <3>4. reminder' = [reminder EXCEPT ![e] = row]
      BY <2>1 DEF SaveReminder
    <3> HIDE DEF row
    <3> QED
      BY <1>0, <3>1, <3>3, <3>4 DEF UserType
  <2>2. CASE ClearReminder(e) \/ DeleteEvent(e)
    BY <1>0, <2>2 DEF ClearReminder, DeleteEvent, UserType
  <2> QED
    BY <2>1, <2>2
<1>2. UNCHANGED <<engineState, now, dispatches, shown>>
  BY DEF SaveReminder, ClearReminder, DeleteEvent
<1>3. RunType' /\ SentOnly' /\ Dispatches' = Dispatches
  BY <1>0, <1>2 DEF engineState, RunType, SentOnly, Dispatches
<1>4. ReminderTypeOK' <=> UserType' /\ RunType' /\ SentOnly' /\ dispatches' \subseteq Dispatches'
  BY DEF ReminderTypeOK, UserType, RunType, SentOnly, Dispatches
<1> QED
  BY <1>0, <1>1, <1>2, <1>3, <1>4

-----------------------------------------------------------------------------
\* A step that touches neither the children nor what is known of them.
LEMMA Untouched ==
  ASSUME ReminderInv, UNCHANGED <<up, starts, delivered, dispatches, shown, excused>>,
         now' \in {now, now + 1}, ReminderTypeOK'
  PROVE  ReminderInv'
<1>1. ASSUME NEW k \in Keys PROVE Paid(k)'
  <2>1. Known(k)' <=> Known(k)
    BY DEF Known, Pending, Heard
  <2>2. now \in Nat /\ EndOf[k.event] \in Nat /\ k.at + KeepFor \in Int
    BY KeyTypes DEF ReminderInv, ReminderTypeOK
  <2>3. (Spent(k) => Spent(k)') /\ (Forgotten(k) => Forgotten(k)')
    BY <2>2 DEF Spent, Forgotten
  <2>4. Claim(k) <= Claim(k)' /\ Waiting(k)' = Waiting(k)
    BY <2>1, <2>3 DEF Claim, Waiting
  <2>5. Paid(k)
    BY DEF ReminderInv
  <2> QED
    BY <2>3, <2>4, <2>5, PaidFacts, ClaimIsANumber DEF Paid, Counted
<1> QED
  BY <1>1 DEF ReminderInv

LEMMA StepInv == ReminderInv /\ [ReminderNext]_reminderVars => ReminderInv'
<1> SUFFICES ASSUME ReminderInv, [ReminderNext]_reminderVars PROVE ReminderInv'
  OBVIOUS
<1>1. ASSUME NEW d \in dispatches, Shows(d) \/ Fails(d) \/ Hangs(d) \/ Valve(d)
      PROVE  ReminderInv'
  <2>1. \A k \in Keys : Paid(k)'
    BY <1>1, ShowsPays, FailsPays, HangsPays, ValvePays
  <2>2. ReminderTypeOK' /\ DOMAIN shown' \subseteq Keys
    BY <1>1, ExitTypes
  <2>3. ~ up' => delivered' = {}
    BY <1>1 DEF ReminderInv, Shows, Fails, Hangs, Valve, Heard, engineState
  <2> QED
    BY <2>1, <2>2, <2>3 DEF ReminderInv
<1>2. CASE Tick \/ Stop \/ Start
  <2>1. \A k \in Keys : Paid(k)'
    BY <1>2, TickPays, StopPays, StartPays
  <2>2. ReminderTypeOK' /\ DOMAIN shown' \subseteq Keys
    BY <1>2, SidecarTypes
  <2>3. ~ up' => delivered' = {}
    <3>1. Tick => up'
      BY DEF Tick
    <3>2. Stop => delivered' = {}
      BY DEF Stop
    <3>3. Start => up'
      BY DEF Start
    <3> QED
      BY <1>2, <3>1, <3>2, <3>3
  <2> QED
    BY <2>1, <2>2, <2>3 DEF ReminderInv
<1>3. CASE Advance
  <2>1. /\ UNCHANGED <<up, starts, delivered, dispatches, shown, excused>>
        /\ now' \in {now, now + 1}
    BY <1>3 DEF Advance, engineState
  <2>2. ReminderTypeOK'
    BY <1>3, SidecarTypes
  <2> QED
    BY <2>1, <2>2, Untouched
<1>4. ASSUME NEW e \in TimedEvents, NEW before \in Befores, SaveReminder(e, before)
      PROVE  ReminderInv'
  <2>1. /\ UNCHANGED <<up, starts, delivered, dispatches, shown, excused>>
        /\ now' \in {now, now + 1}
    BY <1>4 DEF SaveReminder, engineState
  <2>2. ReminderTypeOK'
    BY <1>4, UserTypes
  <2> QED
    BY <2>1, <2>2, Untouched
<1>5. ASSUME NEW e \in TimedEvents, ClearReminder(e) \/ DeleteEvent(e)
      PROVE  ReminderInv'
  <2>1. /\ UNCHANGED <<up, starts, delivered, dispatches, shown, excused>>
        /\ now' \in {now, now + 1}
    BY <1>5 DEF ClearReminder, DeleteEvent, engineState
  <2>2. ReminderTypeOK'
    BY <1>5, UserTypes
  <2> QED
    BY <2>1, <2>2, Untouched
<1>6. CASE UNCHANGED reminderVars
  <2>1. /\ UNCHANGED <<up, starts, delivered, dispatches, shown, excused>>
        /\ now' \in {now, now + 1}
    BY <1>6 DEF reminderVars
  <2>2. ReminderTypeOK'
    BY <1>6 DEF reminderVars, ReminderInv, ReminderTypeOK
  <2> QED
    BY <2>1, <2>2, Untouched
<1> QED
  BY <1>1, <1>2, <1>3, <1>4, <1>5, <1>6 DEF ReminderNext, Exits

\* The account of every reminder: what was shown and what a child may still show
\* of it exceeds what the engine could not learn of by one at most, and only while
\* the engine knows of it or the event is over; but nothing is said of a key that
\* deliveredPrune forgot while its event runs (deliveredReminderKeys,
\* deliverNotification).
THEOREM Accounted == ReminderSpec => []ReminderInv
<1> QED
  BY InitInv, StepInv, PTL DEF ReminderSpec

\* The rows, the dispatches and what counts as delivered keep their types: a key
\* is delivered only when its notification was shown (settle).
THEOREM ReminderTypes == ReminderSpec => []ReminderTypeOK
<1>1. ReminderInv => ReminderTypeOK
  BY DEF ReminderInv
<1> QED
  BY <1>1, Accounted, PTL

LEMMA AccountedIsOnce == ReminderInv => ShownOnce
<1> SUFFICES ASSUME ReminderInv, NEW k \in Keys, ~ Forgotten(k) PROVE Once(k)
  BY DEF ShownOnce
<1>1. Paid(k)
  BY DEF ReminderInv
<1> QED
  BY <1>1, PaidFacts, ClaimIsANumber DEF Once

\* Until 25 h after its moment, and for ever when its event is over by then, a
\* reminder is shown once, and again only as often as the engine could not learn
\* that it was (the valve of 10 s, the end of the sidecar), whatever is set, fails,
\* hangs or restarts, for every list of strategies (notification_delivery.ts).
THEOREM ReminderIsShownOnce == ReminderSpec => []ShownOnce
<1> QED
  BY Accounted, AccountedIsOnce, PTL
=============================================================================
