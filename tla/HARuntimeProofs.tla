--------------------------- MODULE HARuntimeProofs ----------------------------
(***************************************************************************)
(* Theorems about HARuntime, for any number of edits, snapshots, runtime   *)
(* objects and faults: failed saves, restarts, reloads and changes of the  *)
(* allowlist.                                                              *)
(*                                                                         *)
(* All but the first two assume that no reload overlaps a task.  Without   *)
(* that they are false: reload_overlap is a counterexample.  Everything    *)
(* then follows from what the three images of the store have in common,    *)
(* the file, the runtime and its copy for the roll-back (Sound below).     *)
(***************************************************************************)
EXTENDS HARuntime, TLAPS

NoOverlap == FaultBound["overlap"] = 0

(***************************************************************************)
(* The inductive invariant.                                                *)
(***************************************************************************)
Visible(image) == image.queue \cap On(image.lists) \cap Applicable(image.found) \subseteq image.view

VisibleInv ==
    /\ Visible(stored)
    /\ \A g \in Gen : Visible(mem[g]) /\ Visible(previous[g])

Active(t) == at[t] \in {"waiting", "saving"}

\* Tasks under way use the newest runtime object, which is set up.
ActiveInv == \A t \in Task : Active(t) => up = "up" /\ runs[t] = gen

\* The lock of a runtime is held by the task that saves.
LockInv ==
    /\ \A t \in Task : at[t] = "saving" => holder[gen] = t
    /\ \A g \in Gen : holder[g] # Nobody => g = gen /\ at[holder[g]] = "saving"

\* Snapshots are sent one after the other, and acknowledge more and more.
PostInv ==
    /\ \A n \in Post : post[n].acked \subseteq effects
    /\ \A m, n \in Post : m <= n /\ at[n] # "idle" =>
          at[m] # "idle" /\ post[m].acked \subseteq post[n].acked

\* Edits that users are entitled to: their calls returned, their lists were
\* never revoked.
Kept == confirmed \ revoked

Begun(c) == at[c] \notin {"idle", "waiting"}

\* Missing, when the snapshots "sent" were posted.
MissingIn(sentAt, c, sent) ==
    /\ sentAt \in Post
    /\ c \notin sent[sentAt].found
    /\ c \in Creates => c \in sent[sentAt].acked

\* What is shown is of a snapshot that was sent, and has the edits "kept" unless
\* their reminders are missing.
ShownIn(shown, kept, sent, place) ==
    /\ shown.sentAt \in Post => place[shown.sentAt] # "idle"
    /\ \A c \in kept \cap On(shown.lists) : c \in shown.view \/ MissingIn(shown.sentAt, c, sent)

\* What holds of an image of the store when edits "kept" may be seen, edits
\* "gone" were given up, snapshots "sent" were posted and tasks are at "place".
SoundIn(image, kept, gone, sent, place) ==
    /\ image.sentAt \in Post \cup {0}
    /\ \A c \in kept \ image.queue : image.sentAt \in Post /\ c \in sent[image.sentAt].acked
    /\ ShownIn(image, kept, sent, place)
    /\ image.queue \cap gone = {}
    /\ \A c \in image.queue : place[c] \notin {"idle", "waiting"}

\* What holds of every image of the store: an edit that is entitled to be seen
\* is seen unless its reminder is missing, and is in the queue unless it was
\* acknowledged.
Sound(image) == SoundIn(image, Kept, dropped, post, at)

Saving == {c \in Edit : at[c] = "saving"}

\* The copy for the roll-back is in use.
HasCopy == up = "saving" \/ holder[gen] # Nobody

ImageInv ==
    /\ Sound(stored)
    /\ up # "down" => Sound(mem[gen])
    /\ HasCopy => Sound(previous[gen])

\* Who put the edits of an image there.
OriginInv ==
    /\ stored.queue \subseteq confirmed \cup ghost
    /\ up # "down" => mem[gen].queue \subseteq confirmed \cup ghost \cup Saving
    /\ HasCopy => previous[gen].queue \subseteq confirmed \cup ghost

EditInv ==
    /\ \A c \in Saving : c \in mem[gen].queue \cap mem[gen].view
    /\ \A c \in dropped : Begun(c)
    /\ Edit \ On(allowed) \subseteq revoked

EntityInv == ShownIn(entity, Kept, post, at)

IInv ==
    /\ TypeOK
    /\ VisibleInv
    /\ ActiveInv
    /\ LockInv
    /\ PostInv
    /\ ImageInv
    /\ OriginInv
    /\ EditInv
    /\ EntityInv
    /\ OnlyStoredOffered

(***************************************************************************)
(* Types.                                                                  *)
(***************************************************************************)
LEMMA InitType == Init => TypeOK
<1> SUFFICES ASSUME Init PROVE TypeOK
  OBVIOUS
<1>1. EmptyImage \in Image /\ \A D \in SUBSET Edit : Underway(D) \in Image
  BY DEF Underway, EmptyImage, Image
<1>2. PICK D \in Starts :
          /\ stored = IF D = {} THEN EmptyImage ELSE Underway(D)
          /\ at = [t \in Task |-> IF t \in D THEN "done" ELSE "idle"]
          /\ up = IF D = {} THEN "up" ELSE "down"
          /\ offered = D
          /\ confirmed = D
  BY DEF Init
<1>3. D \in SUBSET Edit
  BY StartsAssumption
<1>4. stored \in Image /\ offered \in SUBSET Edit /\ confirmed \in SUBSET Edit
  BY <1>1, <1>2, <1>3
<1>5. at \in [Task -> Place]
  BY <1>2 DEF Place
<1>6. 1 \in Gen
  BY MaxGenAssumption DEF Gen
<1>7. mem \in [Gen -> Image] /\ previous \in [Gen -> Image]
  BY <1>1, <1>4 DEF Init
<1>8. entity \in [lists : SUBSET List, view : SUBSET Edit, sentAt : Nat]
  BY DEF Init, NewEntity
<1>9. QED
  BY <1>4, <1>5, <1>6, <1>7, <1>8 DEF Init, TypeOK, Snapshot

LEMMA LoadedType == TypeOK => Loaded \in Image
  BY DEF TypeOK, Loaded, Image, On

LEMMA TypeStep == TypeOK /\ [Next]_vars => TypeOK'
<1> SUFFICES ASSUME TypeOK, [Next]_vars PROVE TypeOK'
  OBVIOUS
<1> USE DEF TypeOK, haVars, history
<1>a. ASSUME NEW t \in Task, NEW image \in Image, Change(t, image) PROVE TypeOK'
  BY <1>a DEF Change, Goto, Place
<1>b. ASSUME NEW t \in Task, Refuse(t) PROVE TypeOK'
  BY <1>b DEF Refuse, Goto, Place
<1>c. ASSUME NEW f \in Fault, Spend(f) PROVE faults' \in [Fault -> Nat]
  BY <1>c DEF Spend
<1>d. {"save", "restart", "reload", "overlap", "reconfigure", "missing"} \subseteq Fault
  BY DEF Fault
<1>e. EmptyImage \in Image
  BY DEF EmptyImage, Image
<1>1. ASSUME NEW c \in Edit, QueueEdit(c) PROVE TypeOK'
  <2>1. c \in Task /\ mem[runs[c]] \in Image
    BY DEF Task
  <2>2. [mem[runs[c]] EXCEPT !.queue = @ \cup {c}, !.view = @ \cup {c}] \in Image
    BY <2>1 DEF Image
  <2>3. QED
    BY <1>1, <1>a, <1>b, <2>1, <2>2 DEF QueueEdit
<1>2. ASSUME NEW c \in Edit, ConfirmEdit(c) PROVE TypeOK'
  BY <1>2, <1>e DEF ConfirmEdit, Commit, Written, Goto, Task, Place, Image, Published
<1>3. ASSUME NEW n \in Post, ProcessSnapshot(n) PROVE TypeOK'
  <2>1. n \in Nat /\ n \in Task
    BY PostsAssumption DEF Post, Task
  <2>2. Shown(n) \in SUBSET Edit /\ Remaining(n) \in SUBSET Edit
    BY DEF Snapshot, Shown, Remaining, On
  <2>3. [lists |-> post[n].lists, writable |-> post[n].writable, found |-> post[n].found,
         view |-> Shown(n), queue |-> Remaining(n), sentAt |-> n] \in Image
    BY <2>1, <2>2 DEF Image, Snapshot
  <2>4. QED
    BY <1>3, <1>a, <1>b, <2>1, <2>3 DEF ProcessSnapshot
<1>4. ASSUME NEW n \in Post, AnswerSnapshot(n) PROVE TypeOK'
  BY <1>4, <1>e DEF AnswerSnapshot, Commit, Written, Goto, Task, Place, Image, Published
<1>5. ASSUME NEW t \in Task, RollBack(t) PROVE TypeOK'
  <2>1. stored' \in Image /\ mem' \in [Gen -> Image] /\ previous' \in [Gen -> Image]
    BY <1>5, <1>e DEF RollBack, Written
  <2>2. ghost' \in SUBSET Edit
    BY <1>5, <2>1 DEF RollBack, Image
  <2>3. at' \in [Task -> Place]
    BY <1>5 DEF RollBack, Goto, Place
  <2>4. QED
    BY <1>5, <1>c, <1>d, <2>1, <2>2, <2>3 DEF RollBack
<1>6. ASSUME NEW c \in Edit, CallService(c) \/ ApplyCommand(c) PROVE TypeOK'
  BY <1>6 DEF CallService, ApplyCommand, Goto, Task, Place
<1>7. ASSUME NEW n \in Post, ReceiveSnapshot(n) PROVE TypeOK'
  BY <1>7 DEF ReceiveSnapshot, Goto, Task, Place
<1>8. ASSUME NEW n \in Post, NEW lists \in SUBSET List, NEW writable \in SUBSET lists,
             NEW found \in SUBSET Reminders(lists),
             SendSnapshot(n, lists, writable, found)
      PROVE  TypeOK'
  BY <1>8, <1>c, <1>d DEF SendSnapshot, Goto, Task, Place, Snapshot, Reminders
<1>9. CASE PollEntity
  BY <1>9 DEF PollEntity, Published, Image
<1>10. ASSUME NEW lists \in SUBSET List, Reconfigure(lists) PROVE TypeOK'
  BY <1>10, <1>c, <1>d DEF Reconfigure
<1>11. CASE Unload
  BY <1>11, <1>e DEF Unload, Spend, NewEntity, Fault
<1>12. CASE Setup
  <2>1. gen' \in Gen
    BY <1>12, MaxGenAssumption DEF Setup, Gen
  <2>2. Published(Loaded) \in [lists : SUBSET List, view : SUBSET Edit, sentAt : Nat]
    BY LoadedType DEF Published, Image
  <2>3. QED
    BY <1>12, <2>1, <2>2, LoadedType DEF Setup
<1>13. CASE FinishSetup
  BY <1>13, <1>e DEF FinishSetup, Published, Image
<1>14. CASE SetupFails
  BY <1>14, <1>e DEF SetupFails, Spend, Fault
<1>15. CASE Restart
  BY <1>15, <1>e DEF Restart, Spend, NewEntity, Written, Image, Place, Fault
<1>16. CASE UNCHANGED vars
  BY <1>16 DEF vars
<1>17. QED
  BY <1>1, <1>2, <1>3, <1>4, <1>5, <1>6, <1>7, <1>8, <1>9, <1>10, <1>11, <1>12, <1>13,
     <1>14, <1>15, <1>16 DEF Next, TaskStep

(***************************************************************************)
(* Pending edits are visible.                                              *)
(***************************************************************************)
LEMMA VisibleStep == TypeOK /\ VisibleInv /\ [Next]_vars => VisibleInv'
<1> SUFFICES ASSUME TypeOK, VisibleInv, [Next]_vars PROVE VisibleInv'
  OBVIOUS
<1> USE DEF VisibleInv, haVars, history
<1>a. runs \in [Task -> Gen] /\ mem \in [Gen -> Image] /\ previous \in [Gen -> Image] /\ gen \in Gen
  BY DEF TypeOK
<1>b. ASSUME NEW t \in Task, NEW image, Visible(image), Change(t, image) PROVE VisibleInv'
  BY <1>a, <1>b DEF Change, Visible
<1>c. \A image : Visible(image)' <=> Visible(image)
  BY DEF Visible
<1>e. Visible(EmptyImage)
  BY DEF Visible, EmptyImage
<1>1. ASSUME NEW c \in Edit, QueueEdit(c) PROVE VisibleInv'
  <2>1. CASE Refuse(c)
    BY <2>1, <1>c DEF Refuse, Visible
  <2> DEFINE new == [mem[runs[c]] EXCEPT !.queue = @ \cup {c}, !.view = @ \cup {c}]
  <2>2. Visible(new)
    BY <1>a DEF Visible, Image, Task
  <2>3. QED
    BY <1>1, <1>b, <2>1, <2>2 DEF QueueEdit, Task
<1>2. ASSUME NEW n \in Post, ProcessSnapshot(n) PROVE VisibleInv'
  <2>1. CASE Refuse(n)
    BY <2>1 DEF Refuse, Visible
  <2> DEFINE new == [lists    |-> post[n].lists,
                     writable |-> post[n].writable,
                     found    |-> post[n].found,
                     view     |-> Shown(n),
                     queue    |-> Remaining(n),
                     sentAt   |-> n]
  <2>2. Visible(new)
    BY DEF Visible, Shown
  <2>3. QED
    BY <1>2, <1>b, <2>1, <2>2 DEF ProcessSnapshot, Task
<1>3. ASSUME NEW t \in Task, Commit(t) PROVE VisibleInv'
  BY <1>3, <1>a, <1>e DEF Commit, Written, Visible
<1>4. ASSUME NEW t \in Task, RollBack(t) PROVE VisibleInv'
  BY <1>4, <1>a, <1>e DEF RollBack, Written, Visible
<1>5. CASE Setup
  <2>1. Visible(Loaded)
    BY DEF Loaded, Visible, On
  <2>2. QED
    BY <1>5, <1>a, <2>1 DEF Setup, Visible
<1>6. CASE FinishSetup
  BY <1>6, <1>a, <1>e DEF FinishSetup, Visible
<1>7. CASE SetupFails
  BY <1>7, <1>a, <1>e DEF SetupFails, Visible
<1>8. CASE Restart
  BY <1>8, <1>a, <1>e DEF Restart, Written, Visible
<1>9. CASE Unload
  BY <1>9, <1>a, <1>e DEF Unload, Visible
<1>10. CASE UNCHANGED <<stored, mem, previous>>
  BY <1>10 DEF Visible
<1>11. QED
  BY <1>1, <1>2, <1>3, <1>4, <1>5, <1>6, <1>7, <1>8, <1>9, <1>10
     DEF Next, TaskStep, ConfirmEdit, AnswerSnapshot, CallService, ApplyCommand, ReceiveSnapshot,
         SendSnapshot, PollEntity, Reconfigure, vars, Task

(***************************************************************************)
(* Tasks, the lock, and the snapshots on their way.                        *)
(***************************************************************************)
LEMMA RuntimeTypes ==
    TypeOK => /\ gen \in Gen
              /\ runs \in [Task -> Gen]
              /\ mem \in [Gen -> Image]
              /\ previous \in [Gen -> Image]
              /\ stored \in Image
              /\ holder \in [Gen -> Task \cup {Nobody}]
              /\ at \in [Task -> Place]
  BY DEF TypeOK

\* Without overlapping reloads, the entry is only unloaded when nothing runs.
LEMMA UnloadsAtRest ==
    NoOverlap /\ TypeOK /\ Unload => \A t \in Task : ~Active(t)
  BY DEF NoOverlap, TypeOK, Unload, Spend, Fault, Active

LEMMA LockStep ==
    NoOverlap /\ TypeOK /\ ActiveInv /\ LockInv /\ [Next]_vars => ActiveInv' /\ LockInv'
<1> SUFFICES ASSUME NoOverlap, TypeOK, ActiveInv, LockInv, [Next]_vars
             PROVE  ActiveInv' /\ LockInv'
  OBVIOUS
<1> USE RuntimeTypes, NobodyAssumption DEF ActiveInv, LockInv, Active, haVars, history
<1>a. ASSUME NEW t \in Task, NEW image, Enters(t), Change(t, image)
      PROVE  ActiveInv' /\ LockInv'
  BY <1>a DEF Enters, Change, Goto
<1>b. ASSUME NEW t \in Task, Enters(t), Refuse(t) PROVE ActiveInv' /\ LockInv'
  BY <1>b DEF Enters, Refuse, Goto
<1>c. ASSUME NEW t \in Task, at[t] = "saving", Goto(t, "done") \/ Goto(t, "failed"),
             holder' = [holder EXCEPT ![runs[t]] = Nobody], UNCHANGED <<gen, up, runs>>
      PROVE  ActiveInv' /\ LockInv'
  BY <1>c DEF Goto
<1>d. ASSUME NEW t \in Task, Running, at[t] \in {"idle", "sent"},
             \/ Goto(t, "waiting") /\ runs' = [runs EXCEPT ![t] = gen]
             \/ (Goto(t, "failed") \/ Goto(t, "sent")) /\ UNCHANGED runs,
             UNCHANGED <<gen, up, holder>>
      PROVE  ActiveInv' /\ LockInv'
  BY <1>d DEF Goto, Running
<1>1. ASSUME NEW c \in Edit, QueueEdit(c) PROVE ActiveInv' /\ LockInv'
  BY <1>1, <1>a, <1>b DEF QueueEdit, Task
<1>2. ASSUME NEW n \in Post, ProcessSnapshot(n) PROVE ActiveInv' /\ LockInv'
  BY <1>2, <1>a, <1>b DEF ProcessSnapshot, Task
<1>3. ASSUME NEW t \in Task, Commit(t) PROVE ActiveInv' /\ LockInv'
  BY <1>3, <1>c DEF Commit
<1>4. ASSUME NEW t \in Task, RollBack(t) PROVE ActiveInv' /\ LockInv'
  BY <1>4, <1>c DEF RollBack
<1>5. ASSUME NEW c \in Edit, CallService(c) PROVE ActiveInv' /\ LockInv'
  BY <1>5, <1>d DEF CallService, Task
<1>6. ASSUME NEW n \in Post, ReceiveSnapshot(n) PROVE ActiveInv' /\ LockInv'
  BY <1>6, <1>d DEF ReceiveSnapshot, Task
<1>7. ASSUME NEW n \in Post, NEW lists, NEW writable, NEW found, SendSnapshot(n, lists, writable, found)
      PROVE  ActiveInv' /\ LockInv'
  BY <1>7 DEF SendSnapshot, Goto, Task
<1>8. CASE Unload
  BY <1>8, UnloadsAtRest DEF Unload
<1>9. CASE Setup
  <2>1. \A t \in Task : ~Active(t)
    BY <1>9 DEF Setup
  <2>2. \A g \in Gen : holder[g] = Nobody
    BY <2>1
  <2>3. QED
    BY <1>9, <2>1, <2>2 DEF Setup
<1>10. CASE FinishSetup \/ SetupFails
  BY <1>10 DEF FinishSetup, SetupFails
<1>11. CASE Restart
  BY <1>11 DEF Restart
<1>12. CASE UNCHANGED <<gen, up, holder, at, runs>>
  BY <1>12
<1>13. QED
  BY <1>1, <1>2, <1>3, <1>4, <1>5, <1>6, <1>7, <1>8, <1>9, <1>10, <1>11, <1>12
     DEF Next, TaskStep, ConfirmEdit, AnswerSnapshot, ApplyCommand, PollEntity, Reconfigure, vars, Task

\* Once begun, a task is begun; only a call that has not been made is idle.
LEMMA TasksGoOn ==
    TypeOK /\ [Next]_vars =>
        \A t \in Task : /\ at[t] # "idle" => at'[t] # "idle"
                        /\ Begun(t) /\ t \in Edit => Begun(t)'
<1> SUFFICES ASSUME TypeOK, [Next]_vars, NEW t \in Task
             PROVE  /\ at[t] # "idle" => at'[t] # "idle"
                    /\ Begun(t) /\ t \in Edit => Begun(t)'
  OBVIOUS
<1> USE RuntimeTypes DEF Begun, haVars, history, Goto
<1>1. ASSUME NEW c \in Edit, QueueEdit(c)
      PROVE  \E s \in Task : at[s] = "waiting" /\ (Goto(s, "saving") \/ Goto(s, "failed"))
  BY <1>1 DEF QueueEdit, Enters, Change, Refuse, Task
<1>2. ASSUME NEW n \in Post, ProcessSnapshot(n)
      PROVE  \E s \in Task : at[s] = "waiting" /\ (Goto(s, "saving") \/ Goto(s, "failed"))
  BY <1>2 DEF ProcessSnapshot, Enters, Change, Refuse, Task
<1>3. ASSUME NEW s \in Task, Commit(s) \/ RollBack(s)
      PROVE  at[s] = "saving" /\ (Goto(s, "done") \/ Goto(s, "failed"))
  BY <1>3 DEF Commit, RollBack
<1>4. ASSUME NEW c \in Edit, CallService(c)
      PROVE  at[c] = "idle" /\ (Goto(c, "waiting") \/ Goto(c, "failed"))
  BY <1>4 DEF CallService
<1>5. ASSUME NEW n \in Post, ReceiveSnapshot(n)
      PROVE  n \notin Edit /\ (Goto(n, "waiting") \/ Goto(n, "failed"))
  BY <1>5, TaskAssumption DEF ReceiveSnapshot
<1>6. ASSUME NEW n \in Post, NEW lists, NEW writable, NEW found, SendSnapshot(n, lists, writable, found)
      PROVE  at[n] = "idle" /\ Goto(n, "sent")
  BY <1>6 DEF SendSnapshot
<1>7. CASE Restart
  BY <1>7 DEF Restart
<1>8. CASE UNCHANGED at
  BY <1>8
<1>9. QED
  BY <1>1, <1>2, <1>3, <1>4, <1>5, <1>6, <1>7, <1>8
     DEF Next, TaskStep, ConfirmEdit, AnswerSnapshot, ApplyCommand, PollEntity, Reconfigure,
         Unload, Setup, FinishSetup, SetupFails, vars, Task

LEMMA PostStep == TypeOK /\ PostInv /\ [Next]_vars => PostInv'
<1> SUFFICES ASSUME TypeOK, PostInv, [Next]_vars PROVE PostInv'
  OBVIOUS
<1> USE DEF PostInv, haVars, history
<1>1. ASSUME NEW n \in Post, NEW lists, NEW writable, NEW found, SendSnapshot(n, lists, writable, found)
      PROVE  PostInv'
  <2>1. /\ at' = [at EXCEPT ![n] = "sent"] /\ at[n] = "idle"
        /\ post' = [post EXCEPT ![n] = 
                       [lists |-> lists, writable |-> writable, found |-> found, acked |-> effects]]
        /\ effects' = effects
        /\ \A k \in 1 .. n - 1 : at[k] # "idle"
    BY <1>1 DEF SendSnapshot, Goto
  <2>2. at \in [Task -> Place] /\ post \in [Post -> Snapshot] /\ Post \subseteq Task
    BY DEF TypeOK, Task
  <2>3. Post \subseteq Nat
    BY PostsAssumption DEF Post
  <2>4. \A k \in Post : post'[k].acked = IF k = n THEN effects ELSE post[k].acked
    BY <2>1, <2>2
  <2>5. \A k \in Post : k # n => at'[k] = at[k]
    BY <2>1, <2>2
  <2>6. \A k \in Post : k < n => at[k] # "idle"
    BY <2>1, <2>3 DEF Post
  <2>7. \A k \in Post : n <= k /\ at[k] # "idle" => FALSE
    BY <2>1, <2>3
  <2>8. at'[n] # "idle"
    BY <2>1, <2>2
  <2>9. QED
    BY <2>1, <2>3, <2>4, <2>5, <2>6, <2>7, <2>8
<1>2. CASE /\ ~ \E n \in Post, lists \in SUBSET List :
                  \E writable \in SUBSET lists, found \in SUBSET Reminders(lists) :
                     SendSnapshot(n, lists, writable, found)
           /\ UNCHANGED post
  <2>1. effects \subseteq effects'
    BY DEF Next, TaskStep, QueueEdit, ConfirmEdit, ProcessSnapshot, AnswerSnapshot, RollBack, Commit,
           Change, Refuse, CallService, ApplyCommand, ReceiveSnapshot, SendSnapshot, PollEntity,
           Reconfigure, Unload, Setup, FinishSetup, SetupFails, Restart, vars
  <2>2. \A n \in Post : at[n] = "idle" => at'[n] = "idle"
    <3>1. SUFFICES ASSUME NEW n \in Post, at[n] = "idle" PROVE at'[n] = "idle"
      OBVIOUS
    <3>2. QED
      <4> USE RuntimeTypes, <1>2, <3>1 DEF Goto, Task
      <4>1. ASSUME NEW c \in Edit, QueueEdit(c) \/ ConfirmEdit(c) \/ CallService(c)
            PROVE  at'[n] = "idle"
        BY <4>1, TaskAssumption
           DEF QueueEdit, ConfirmEdit, Commit, CallService, Change, Refuse, Enters
      <4>2. ASSUME NEW t \in Task, RollBack(t) \/ Commit(t)
            PROVE  at'[n] = "idle"
        BY <4>2 DEF RollBack, Commit
      <4>3. ASSUME NEW m \in Post, ProcessSnapshot(m) \/ ReceiveSnapshot(m)
            PROVE  at'[n] = "idle"
        BY <4>3 DEF ProcessSnapshot, ReceiveSnapshot, Change, Refuse, Enters
      <4>4. CASE Restart
        BY <4>4 DEF Restart
      <4>5. CASE UNCHANGED at
        BY <4>5
      <4>6. QED
        BY <1>2, <4>1, <4>2, <4>3, <4>4, <4>5
           DEF Next, TaskStep, AnswerSnapshot, ApplyCommand, PollEntity, Reconfigure, Unload, Setup,
               FinishSetup, SetupFails, vars
  <2>3. QED
    BY <1>2, <2>1, <2>2, TasksGoOn DEF Task
<1>3. QED
  BY <1>1, <1>2
     DEF Next, TaskStep, QueueEdit, ConfirmEdit, ProcessSnapshot, AnswerSnapshot, RollBack, Commit,
         Change, Refuse, CallService, ApplyCommand, ReceiveSnapshot, PollEntity,
         Reconfigure, Unload, Setup, FinishSetup, SetupFails, Restart, vars

(***************************************************************************)
(* The images of the store.                                                *)
(***************************************************************************)
LEMMA SoundInStays ==
    ASSUME NEW image, image.queue \subseteq Edit,
           NEW kept1, NEW gone1, NEW sent1, NEW place1,
           NEW kept2, NEW gone2, NEW sent2, NEW place2,
           SoundIn(image, kept1, gone1, sent1, place1),
           kept2 \subseteq kept1,
           image.queue \cap gone2 = {},
           \A n \in Post : place1[n] # "idle" => place2[n] # "idle" /\ sent2[n] = sent1[n],
           \A c \in Edit : place1[c] \notin {"idle", "waiting"} => place2[c] \notin {"idle", "waiting"}
    PROVE  SoundIn(image, kept2, gone2, sent2, place2)
  BY DEF SoundIn, ShownIn, MissingIn

LEMMA SentStays ==
    TypeOK /\ [Next]_vars => \A n \in Post : at[n] # "idle" => post'[n] = post[n]
<1> SUFFICES ASSUME TypeOK, [Next]_vars, NEW n \in Post, at[n] # "idle" PROVE post'[n] = post[n]
  OBVIOUS
<1>1. ASSUME NEW m \in Post, NEW lists, NEW writable, NEW found, SendSnapshot(m, lists, writable, found)
      PROVE  post'[n] = post[n]
  BY <1>1 DEF SendSnapshot, TypeOK
<1>2. CASE UNCHANGED post
  BY <1>2
<1>3. QED
  BY <1>1, <1>2
     DEF Next, TaskStep, QueueEdit, ConfirmEdit, ProcessSnapshot, AnswerSnapshot, RollBack, Commit,
         Change, Refuse, CallService, ApplyCommand, ReceiveSnapshot, PollEntity,
         Reconfigure, Unload, Setup, FinishSetup, SetupFails, Restart, vars

\* A step that confirms and drops nothing leaves an image as sound as it was.
LEMMA SoundStays ==
    ASSUME TypeOK, [Next]_vars, Kept' \subseteq Kept, dropped' = dropped, NEW image \in Image,
           SoundIn(image, Kept, dropped, post, at)
    PROVE  SoundIn(image, Kept', dropped', post', at')
<1>1. image.queue \subseteq Edit
  BY DEF Image
<1>2. \A n \in Post : at[n] # "idle" => at'[n] # "idle" /\ post'[n] = post[n]
  BY SentStays, TasksGoOn DEF Task
<1>3. \A c \in Edit : at[c] \notin {"idle", "waiting"} => at'[c] \notin {"idle", "waiting"}
  BY TasksGoOn DEF Task, Begun
<1>4. image.queue \cap dropped' = {}
  BY DEF SoundIn
<1>5. QED
  BY <1>1, <1>2, <1>3, <1>4, SoundInStays

\* A step that confirms nothing leaves what is shown as good as it was.
LEMMA ShownStays ==
    ASSUME TypeOK, [Next]_vars, Kept' \subseteq Kept, NEW shown, ShownIn(shown, Kept, post, at)
    PROVE  ShownIn(shown, Kept', post', at')
<1>1. \A n \in Post : at[n] # "idle" => at'[n] # "idle" /\ post'[n] = post[n]
  BY SentStays, TasksGoOn DEF Task
<1>2. QED
  BY <1>1 DEF ShownIn, MissingIn

\* What async_load makes of a sound image is sound.
LEMMA LoadedSound ==
    TypeOK /\ EditInv /\ Sound(stored) => Sound(Loaded)
<1> SUFFICES ASSUME TypeOK, EditInv, Sound(stored) PROVE Sound(Loaded)
  OBVIOUS
<1>1. Kept \subseteq On(allowed) \cap Edit
  BY DEF Kept, EditInv, TypeOK
<1>2. stored \in Image
  BY DEF TypeOK
<1>3. QED
  BY <1>1, <1>2 DEF Sound, SoundIn, ShownIn, Loaded, On, Image

\* Before it saves, a task finds the lock free; while it saves, nobody else does.
LEMMA WhoSaves ==
    ASSUME TypeOK, ActiveInv, LockInv, NEW t \in Task
    PROVE  /\ Enters(t) => /\ up = "up" /\ runs[t] = gen /\ holder[gen] = Nobody
                           /\ at[t] = "waiting" /\ Saving = {}
           /\ at[t] = "saving" => /\ up = "up" /\ runs[t] = gen /\ holder[gen] = t
                                  /\ Saving \subseteq {t}
  BY NobodyAssumption DEF TypeOK, ActiveInv, LockInv, Active, Enters, Saving, Task

LEMMA ImageStep ==
    ASSUME NoOverlap, IInv, [Next]_vars
    PROVE  ImageInv' /\ EditInv' /\ EntityInv'
<1> USE RuntimeTypes DEF IInv, haVars, history
<1>f. ASSUME Kept' \subseteq Kept, dropped' = dropped, NEW image \in Image, Sound(image)
      PROVE  SoundIn(image, Kept', dropped', post', at')
  BY <1>f, SoundStays DEF Sound
<1>g. \A c \in Edit : Begun(c) => Begun(c)'
  BY TasksGoOn DEF Task
<1>i. stored \in Image /\ mem[gen] \in Image /\ previous[gen] \in Image
  OBVIOUS
<1>t. Edit \subseteq Task /\ Post \subseteq Task /\ Edit \cap Post = {}
  BY TaskAssumption DEF Task
<1>s. Sound(stored) /\ (up # "down" => Sound(mem[gen])) /\ (HasCopy => Sound(previous[gen]))
  BY DEF ImageInv
\* The entities show what they showed, or nothing.
<1>e. ASSUME Kept' \subseteq Kept, entity' \in {entity, NewEntity} PROVE EntityInv'
  <2>1. ShownIn(entity', Kept, post, at)
    BY <1>e DEF EntityInv, ShownIn, NewEntity, On, Post
  <2>2. QED
    BY <1>e, <2>1, ShownStays DEF EntityInv
\* A step that changes nothing of what is said here.
<1>u. ASSUME UNCHANGED <<allowed, gen, up, mem, previous, holder, stored, entity, confirmed,
                         revoked, dropped>>,
             Saving' \subseteq Saving
      PROVE  ImageInv' /\ EditInv' /\ EntityInv'
  <2>1. Kept' \subseteq Kept
    BY <1>u DEF Kept
  <2>2. ImageInv'
    BY <1>u, <1>f, <1>i, <1>s, <2>1 DEF ImageInv, Sound, HasCopy
  <2>3. EditInv'
    BY <1>u, <1>g DEF EditInv, On, TypeOK
  <2>4. QED
    BY <1>u, <1>e, <2>1, <2>2, <2>3
\* A transaction changes the runtime.
<1>c. ASSUME NEW t \in Task, NEW image \in Image, Enters(t), Change(t, image),
             SoundIn(image, Kept, dropped, post', at'),
             t \in Edit => t \in image.queue \cap image.view
      PROVE  ImageInv' /\ EditInv' /\ EntityInv'
  <2>1. /\ up = "up" /\ runs[t] = gen /\ holder[gen] = Nobody /\ Saving = {}
    BY <1>c, WhoSaves
  <2>2. /\ mem' = [mem EXCEPT ![gen] = image]
        /\ previous' = [previous EXCEPT ![gen] = mem[gen]]
        /\ UNCHANGED <<allowed, gen, up, stored, entity, confirmed, revoked, dropped>>
        /\ at' = [at EXCEPT ![t] = "saving"]
    BY <1>c, <2>1 DEF Change, Goto
  <2>3. Kept' = Kept
    BY <2>2 DEF Kept
  <2>4. mem'[gen'] = image /\ previous'[gen'] = mem[gen]
    BY <2>2
  <2>5. Sound(stored)' /\ Sound(mem[gen])' /\ Sound(previous[gen])'
    BY <1>c, <1>f, <1>i, <1>s, <2>1, <2>2, <2>3, <2>4 DEF Sound
  <2>6. Saving' \subseteq {t}
    BY <2>1, <2>2, <1>t DEF Saving
  <2>7. EditInv'
    BY <1>c, <1>g, <2>2, <2>4, <2>6 DEF EditInv, On, Saving, TypeOK
  <2>8. EntityInv'
    BY <1>e, <2>2, <2>3
  <2>9. QED
    BY <2>5, <2>7, <2>8 DEF ImageInv
<1>1. ASSUME NEW c \in Edit, QueueEdit(c) PROVE ImageInv' /\ EditInv' /\ EntityInv'
  <2>1. CASE Refuse(c)
    BY <2>1, <1>u, <1>t DEF Refuse, Goto, Saving
  <2>2. CASE Change(c, [mem[runs[c]] EXCEPT !.queue = @ \cup {c}, !.view = @ \cup {c}])
    <3> DEFINE new == [mem[runs[c]] EXCEPT !.queue = @ \cup {c}, !.view = @ \cup {c}]
    <3>1. Enters(c) /\ runs[c] = gen /\ up = "up" /\ at[c] = "waiting"
      BY <1>1, <1>t, WhoSaves DEF QueueEdit
    <3>2. new \in Image /\ new.queue = mem[gen].queue \cup {c} /\ new.view = mem[gen].view \cup {c}
          /\ new.lists = mem[gen].lists /\ new.sentAt = mem[gen].sentAt
      BY <1>i, <3>1 DEF Image
    <3>3. SoundIn(mem[gen], Kept', dropped', post', at')
      BY <1>f, <1>i, <1>s, <2>2, <3>1 DEF Change, Kept
    <3>4. c \notin dropped /\ at'[c] = "saving" /\ dropped' = dropped /\ Kept' = Kept
      BY <2>2, <3>1, <1>t DEF Change, Goto, EditInv, Begun, Kept
    <3>5. SoundIn(new, Kept, dropped, post', at')
      BY <3>2, <3>3, <3>4 DEF SoundIn, ShownIn
    <3>6. QED
      BY <1>c, <1>t, <2>2, <3>1, <3>2, <3>5
  <2>3. QED
    BY <1>1, <2>1, <2>2 DEF QueueEdit
<1>2. ASSUME NEW n \in Post, ProcessSnapshot(n) PROVE ImageInv' /\ EditInv' /\ EntityInv'
  <2>1. CASE Refuse(n)
    BY <2>1, <1>u, <1>t DEF Refuse, Goto, Saving
  <2> DEFINE new == [lists    |-> post[n].lists,
                     writable |-> post[n].writable,
                     found    |-> post[n].found,
                     view     |-> Shown(n),
                     queue    |-> Remaining(n),
                     sentAt   |-> n]
  <2>2. CASE Change(n, new) /\ MayAccept(n)
    <3>1. Enters(n) /\ runs[n] = gen /\ up = "up" /\ at[n] = "waiting"
      BY <1>2, <1>t, WhoSaves DEF ProcessSnapshot
    <3>2. n \in Nat /\ post[n] \in Snapshot
      BY PostsAssumption DEF Post, TypeOK
    <3>3. new \in Image
      <4>1. Shown(n) \in SUBSET Edit /\ Remaining(n) \in SUBSET Edit
        BY <3>2 DEF Snapshot, Shown, Remaining, On
      <4>2. QED
        BY <3>2, <4>1 DEF Image, Snapshot
    <3>4. /\ UNCHANGED <<post, dropped, confirmed, revoked>>
          /\ at' = [at EXCEPT ![n] = "saving"]
      BY <2>2 DEF Change, Goto
    <3>5. Remaining(n) = (mem[gen].queue \ post[n].acked) \cap On(allowed)
      BY <3>1 DEF Remaining
    <3>6. SoundIn(mem[gen], Kept, dropped, post, at)
      BY <1>s, <3>1 DEF Sound
    <3>7. \A c \in Kept \ Remaining(n) : c \in post[n].acked
      <4>1. SUFFICES ASSUME NEW c \in Kept, c \notin Remaining(n) PROVE c \in post[n].acked
        OBVIOUS
      <4>2. c \in Edit /\ c \in On(allowed)
        BY DEF Kept, EditInv, TypeOK, On
      <4>3. CASE c \in mem[gen].queue
        BY <3>5, <4>1, <4>2, <4>3
      <4>4. CASE c \notin mem[gen].queue
        <5>1. mem[gen].sentAt \in Post /\ c \in post[mem[gen].sentAt].acked
          BY <3>6, <4>4 DEF SoundIn
        <5>2. mem[gen].sentAt <= n
          BY <2>2, <3>1, <3>2, <5>1, PostsAssumption DEF MayAccept, Post
        <5>3. QED
          BY <3>1, <5>1, <5>2 DEF PostInv
      <4>5. QED
        BY <4>3, <4>4
    <3>8. \A c \in Remaining(n) : c \in mem[gen].queue /\ c \in Edit
      BY <3>5, <1>i DEF Image
    <3>9. SoundIn(new, Kept, dropped, post', at')
      <4>1. at'[n] # "idle"
        BY <3>4, <1>t
      <4>2. Remaining(n) \cap dropped = {}
        BY <3>6, <3>8 DEF SoundIn
      <4>3. \A c \in Remaining(n) : at'[c] \notin {"idle", "waiting"}
        BY <1>g, <3>6, <3>8 DEF SoundIn, Begun
      <4>4. ASSUME NEW c \in Kept \cap On(post[n].lists)
            PROVE  c \in Shown(n) \/ MissingIn(n, c, post)
        BY <3>7, <4>4 DEF Shown, Applicable, MissingIn
      <4>5. QED
        BY <3>4, <3>7, <4>1, <4>2, <4>3, <4>4 DEF SoundIn, ShownIn
    <3>10. QED
      BY <1>c, <1>t, <2>2, <3>1, <3>3, <3>9
  <2>3. QED
    BY <1>2, <2>1, <2>2 DEF ProcessSnapshot
\* Every image is one that was sound before the step.
<1>r. ASSUME Kept' \subseteq Kept, dropped' = dropped,
             stored' \in Image /\ Sound(stored'),
             up' # "down" => mem'[gen'] \in Image /\ Sound(mem'[gen']),
             HasCopy' => previous'[gen'] \in Image /\ Sound(previous'[gen'])
      PROVE  ImageInv'
  <2>1. SoundIn(stored', Kept', dropped', post', at')
    BY <1>r, SoundStays DEF Sound
  <2>2. up' # "down" => SoundIn(mem'[gen'], Kept', dropped', post', at')
    BY <1>r, SoundStays DEF Sound
  <2>3. HasCopy' => SoundIn(previous'[gen'], Kept', dropped', post', at')
    BY <1>r, SoundStays DEF Sound
  <2>4. QED
    BY <2>1, <2>2, <2>3 DEF ImageInv, Sound
\* The runtime has been saved, the entities show it.
<1>m. ASSUME UNCHANGED <<allowed, gen, mem, revoked>>,
             SoundIn(mem[gen], Kept', dropped', post', at'),
             stored' = mem[gen], entity' = Published(mem[gen]), ~HasCopy',
             Saving' = {}, \A c \in dropped' : Begun(c)'
      PROVE  ImageInv' /\ EditInv' /\ EntityInv'
  <2>1. ImageInv'
    BY <1>m DEF ImageInv, Sound
  <2>2. EditInv'
    BY <1>m DEF EditInv, On
  <2>3. EntityInv'
    BY <1>m DEF EntityInv, Published, SoundIn, ShownIn
  <2>4. QED
    BY <2>1, <2>2, <2>3
<1>b. ASSUME NEW t \in Task, Commit(t)
      PROVE  /\ UNCHANGED <<allowed, gen, mem, revoked, up, post>> /\ up = "up"
             /\ stored' = mem[gen] /\ entity' = Published(mem[gen]) /\ ~HasCopy'
             /\ Saving' = {} /\ Saving \subseteq {t} /\ runs[t] = gen /\ holder[gen] = t
             /\ at' = [at EXCEPT ![t] = "done"] /\ at[t] = "saving"
  <2>1. up = "up" /\ runs[t] = gen /\ holder[gen] = t /\ Saving \subseteq {t}
    BY <1>b, WhoSaves DEF Commit
  <2>2. at' = [at EXCEPT ![t] = "done"] /\ at[t] = "saving"
    BY <1>b DEF Commit, Goto
  <2>3. Saving' = {}
    BY <2>1, <2>2, <1>t DEF Saving
  <2>4. QED
    BY <1>b, <2>1, <2>2, <2>3 DEF Commit, Written, Running, HasCopy
<1>3. ASSUME NEW c \in Edit, ConfirmEdit(c) PROVE ImageInv' /\ EditInv' /\ EntityInv'
  <2>1. Commit(c) /\ confirmed' = confirmed \cup {c} /\ dropped' = dropped
    BY <1>3 DEF ConfirmEdit
  <2>2. c \in mem[gen].queue \cap mem[gen].view
    BY <1>b, <1>t, <2>1 DEF EditInv, Saving
  <2>3. SoundIn(mem[gen], Kept, dropped, post', at')
    <3>1. \A n \in Post : at[n] # "idle" => at'[n] # "idle" /\ post'[n] = post[n]
      BY SentStays, TasksGoOn DEF Task
    <3>2. SoundIn(mem[gen], Kept, dropped, post, at) /\ mem[gen].queue \subseteq Edit
      BY <1>b, <1>t, <1>i, <1>s, <2>1 DEF Sound, Image
    <3>3. mem[gen].queue \cap dropped = {}
      BY <3>2 DEF SoundIn
    <3>4. \A d \in Edit : at[d] \notin {"idle", "waiting"} => at'[d] \notin {"idle", "waiting"}
      BY <1>g DEF Begun
    <3>5. QED
      BY <3>1, <3>2, <3>3, <3>4, SoundInStays
  <2>4. Kept' \subseteq Kept \cup {c}
    BY <1>b, <1>t, <2>1 DEF Kept
  <2>5. SoundIn(mem[gen], Kept', dropped', post', at')
    BY <2>1, <2>2, <2>3, <2>4 DEF SoundIn, ShownIn
  <2>6. \A d \in dropped' : Begun(d)'
    BY <1>g, <2>1 DEF EditInv, TypeOK
  <2>7. QED
    BY <1>b, <1>m, <1>t, <2>1, <2>5, <2>6
<1>4. ASSUME NEW n \in Post, AnswerSnapshot(n) PROVE ImageInv' /\ EditInv' /\ EntityInv'
  <2>1. /\ Commit(n) /\ confirmed' = confirmed
        /\ dropped' \subseteq dropped \cup (previous[gen].queue \ mem[gen].queue)
    BY <1>4, <1>b, <1>t DEF AnswerSnapshot
  <2>2. Kept' = Kept
    BY <1>b, <1>t, <2>1 DEF Kept
  <2>3. SoundIn(mem[gen], Kept, dropped, post, at) /\ SoundIn(previous[gen], Kept, dropped, post, at)
    BY <1>b, <1>s, <1>t, <2>1, NobodyAssumption DEF Sound, HasCopy
  <2>4. mem[gen].queue \cap dropped' = {}
    BY <2>1, <2>3 DEF SoundIn
  <2>5. SoundIn(mem[gen], Kept', dropped', post', at')
    <3>1. \A m \in Post : at[m] # "idle" => at'[m] # "idle" /\ post'[m] = post[m]
      BY SentStays, TasksGoOn DEF Task
    <3>2. mem[gen].queue \subseteq Edit
      BY <1>i DEF Image
    <3>3. \A d \in Edit : at[d] \notin {"idle", "waiting"} => at'[d] \notin {"idle", "waiting"}
      BY <1>g DEF Begun
    <3>4. QED
      BY <2>2, <2>3, <2>4, <3>1, <3>2, <3>3, SoundInStays
  <2>6. \A d \in dropped' : Begun(d)'
    <3>1. \A d \in previous[gen].queue : d \in Edit /\ Begun(d)
      BY <1>i, <2>3 DEF SoundIn, Begun, Image
    <3>2. \A d \in dropped : d \in Edit /\ Begun(d)
      BY DEF EditInv, TypeOK
    <3>3. QED
      BY <1>g, <2>1, <3>1, <3>2
  <2>7. QED
    BY <1>b, <1>m, <1>t, <2>1, <2>5, <2>6
<1>5. ASSUME NEW t \in Task, RollBack(t) PROVE ImageInv' /\ EditInv' /\ EntityInv'
  <2>1. up = "up" /\ runs[t] = gen /\ holder[gen] = t /\ Saving \subseteq {t}
    BY <1>5, WhoSaves DEF RollBack
  <2>2. /\ UNCHANGED <<allowed, gen, up, entity, confirmed, revoked, dropped>>
        /\ stored' \in {stored, mem[gen]}
        /\ mem' = [mem EXCEPT ![gen] = previous[gen]]
        /\ holder' = [holder EXCEPT ![gen] = Nobody]
        /\ at' = [at EXCEPT ![t] = "failed"]
    BY <1>5, <2>1 DEF RollBack, Written, Goto
  <2>3. Saving' = {}
    BY <2>1, <2>2, <1>t DEF Saving
  <2>4. ImageInv'
    BY <1>r, <1>i, <1>s, <2>1, <2>2, NobodyAssumption DEF HasCopy, Kept
  <2>5. EditInv'
    BY <1>g, <2>2, <2>3 DEF EditInv, On, TypeOK
  <2>6. EntityInv'
    BY <1>e, <2>2 DEF Kept
  <2>7. QED
    BY <2>4, <2>5, <2>6
<1>6. ASSUME NEW c \in Edit, CallService(c) \/ ApplyCommand(c)
      PROVE  ImageInv' /\ EditInv' /\ EntityInv'
  BY <1>6, <1>u, <1>t DEF CallService, ApplyCommand, Goto, Saving
<1>7. ASSUME NEW n \in Post, ReceiveSnapshot(n) PROVE ImageInv' /\ EditInv' /\ EntityInv'
  BY <1>7, <1>u, <1>t DEF ReceiveSnapshot, Goto, Saving
<1>8. ASSUME NEW n \in Post, NEW lists, NEW writable, NEW found, SendSnapshot(n, lists, writable, found)
      PROVE  ImageInv' /\ EditInv' /\ EntityInv'
  BY <1>8, <1>u, <1>t DEF SendSnapshot, Goto, Saving
<1>9. CASE PollEntity
  <2>1. /\ UNCHANGED <<allowed, gen, up, mem, previous, holder, stored, at, confirmed, revoked, dropped>>
        /\ entity' = Published(mem[gen]) /\ up = "up"
    BY <1>9 DEF PollEntity, Running
  <2>2. ImageInv'
    BY <1>r, <1>i, <1>s, <2>1 DEF HasCopy, Kept
  <2>3. EditInv'
    BY <1>g, <2>1 DEF EditInv, On, Saving, TypeOK
  <2>4. EntityInv'
    <3>1. ShownIn(entity', Kept, post, at)
      BY <1>s, <2>1 DEF Sound, SoundIn, ShownIn, Published
    <3>2. QED
      BY <2>1, <3>1, ShownStays DEF EntityInv, Kept
  <2>5. QED
    BY <2>2, <2>3, <2>4
<1>10. ASSUME NEW lists \in SUBSET List, Reconfigure(lists)
       PROVE  ImageInv' /\ EditInv' /\ EntityInv'
  <2>1. /\ UNCHANGED <<gen, up, mem, previous, holder, stored, at, entity, confirmed, dropped>>
        /\ allowed' = lists /\ revoked' = revoked \cup (Edit \ On(lists))
    BY <1>10 DEF Reconfigure
  <2>2. ImageInv'
    BY <1>r, <1>i, <1>s, <2>1 DEF HasCopy, Kept
  <2>3. EditInv'
    BY <1>g, <2>1 DEF EditInv, On, Saving, TypeOK
  <2>4. EntityInv'
    BY <1>e, <2>1 DEF Kept
  <2>5. QED
    BY <2>2, <2>3, <2>4
<1>11. CASE Unload
  <2>1. /\ UNCHANGED <<allowed, gen, previous, holder, stored, at, confirmed, revoked, dropped>>
        /\ up' = "down" /\ entity' = NewEntity
    BY <1>11 DEF Unload
  <2>2. ImageInv'
    BY <1>r, <1>i, <1>s, <2>1 DEF HasCopy, Kept
  <2>3. Saving = {}
    BY <1>11, <1>t, UnloadsAtRest DEF Active, Saving
  <2>4. EditInv'
    BY <1>g, <2>1, <2>3 DEF EditInv, On, Saving, TypeOK
  <2>5. QED
    BY <1>e, <2>1, <2>2, <2>4 DEF Kept
<1>12. CASE Setup
  <2>1. /\ up = "down" /\ gen' = gen + 1
        /\ UNCHANGED <<allowed, holder, stored, at, confirmed, revoked, dropped>>
        /\ mem' = [mem EXCEPT ![gen'] = Loaded]
        /\ previous' = [previous EXCEPT ![gen'] = stored]
        /\ entity' = Published(Loaded) \/ entity' = entity
    BY <1>12 DEF Setup
  <2>2. gen' \in Gen
    BY TypeStep DEF TypeOK
  <2>3. Loaded \in Image /\ Sound(Loaded)
    BY LoadedType, LoadedSound, <1>s
  <2>4. ImageInv'
    BY <1>r, <1>i, <1>s, <2>1, <2>2, <2>3 DEF Kept
  <2>5. Saving = {}
    BY <1>t, <2>1 DEF ActiveInv, Active, Saving
  <2>6. EditInv'
    BY <1>g, <2>1, <2>5 DEF EditInv, On, Saving, TypeOK
  <2>7. EntityInv'
    <3>1. ShownIn(Published(Loaded), Kept, post, at)
      BY <2>3 DEF Sound, SoundIn, ShownIn, Published
    <3>2. ShownIn(entity', Kept, post, at)
      BY <2>1, <3>1 DEF EntityInv
    <3>3. QED
      BY <2>1, <3>2, ShownStays DEF EntityInv, Kept
  <2>8. QED
    BY <2>4, <2>6, <2>7
<1>13. CASE FinishSetup
  <2>1. /\ up = "saving" /\ up' = "up"
        /\ UNCHANGED <<allowed, gen, mem, holder, at, post, confirmed, revoked>>
        /\ stored' = mem[gen] /\ entity' = Published(mem[gen])
        /\ dropped' = dropped \cup (previous[gen].queue \ mem[gen].queue)
    BY <1>13 DEF FinishSetup
  <2>2. \A t \in Task : ~Active(t)
    BY <2>1 DEF ActiveInv
  <2>3. Saving' = {} /\ ~HasCopy'
    BY <1>t, <2>1, <2>2, NobodyAssumption DEF Saving, Active, HasCopy, LockInv
  <2>4. SoundIn(mem[gen], Kept, dropped, post, at) /\ SoundIn(previous[gen], Kept, dropped, post, at)
    BY <1>s, <2>1 DEF Sound, HasCopy
  <2>5. SoundIn(mem[gen], Kept', dropped', post', at')
    BY <2>1, <2>4 DEF SoundIn, Kept
  <2>6. \A d \in dropped' : Begun(d)'
    BY <2>1, <2>4 DEF SoundIn, Begun, EditInv
  <2>7. QED
    BY <1>m, <2>1, <2>3, <2>5, <2>6
<1>14. CASE SetupFails
  <2>1. /\ UNCHANGED <<allowed, gen, holder, at, entity, confirmed, revoked, dropped>>
        /\ up = "saving" /\ up' = "down" /\ stored' \in {stored, mem[gen]}
    BY <1>14 DEF SetupFails
  <2>2. \A t \in Task : ~Active(t)
    BY <2>1 DEF ActiveInv
  <2>3. Saving = {} /\ ~HasCopy'
    BY <1>t, <2>1, <2>2, NobodyAssumption DEF Saving, Active, HasCopy, LockInv
  <2>4. ImageInv'
    BY <1>r, <1>i, <1>s, <2>1, <2>3 DEF Kept
  <2>5. EditInv'
    BY <1>g, <2>1, <2>3 DEF EditInv, On, Saving, TypeOK
  <2>6. QED
    BY <1>e, <2>1, <2>4, <2>5 DEF Kept
<1>15. CASE Restart
  <2>1. /\ UNCHANGED <<allowed, gen, confirmed, revoked, dropped>>
        /\ up # "down" /\ up' = "down" /\ entity' = NewEntity
        /\ holder' = [g \in Gen |-> Nobody]
        /\ \A t \in Task : at'[t] # "saving"
    BY <1>15 DEF Restart
  <2>2. \A t \in Task : at[t] = "saving" => Written(t) = mem[gen]
    BY WhoSaves DEF Written
  <2>3. stored' \in {stored, mem[gen]}
    BY <1>15, <2>2 DEF Restart
  <2>4. ImageInv'
    BY <1>r, <1>i, <1>s, <2>1, <2>3 DEF HasCopy, Kept
  <2>5. EditInv'
    BY <1>g, <1>t, <2>1 DEF EditInv, On, Saving, TypeOK
  <2>6. EntityInv'
    BY <1>e, <2>1 DEF Kept
  <2>7. QED
    BY <2>4, <2>5, <2>6
<1>16. CASE UNCHANGED vars
  BY <1>16, <1>u DEF vars, Saving
<1>17. QED
  BY <1>1, <1>2, <1>3, <1>4, <1>5, <1>6, <1>7, <1>8, <1>9, <1>10, <1>11, <1>12, <1>13,
     <1>14, <1>15, <1>16 DEF Next, TaskStep

LEMMA OriginStep ==
    ASSUME NoOverlap, IInv, [Next]_vars
    PROVE  OriginInv' /\ OnlyStoredOffered'
<1> USE RuntimeTypes DEF IInv, haVars, history
<1>t. Edit \subseteq Task /\ Post \subseteq Task /\ Edit \cap Post = {}
  BY TaskAssumption DEF Task
<1>o. /\ stored.queue \subseteq confirmed \cup ghost
      /\ up # "down" => mem[gen].queue \subseteq confirmed \cup ghost \cup Saving
      /\ HasCopy => previous[gen].queue \subseteq confirmed \cup ghost
  BY DEF OriginInv
<1>u. ASSUME UNCHANGED <<gen, up, mem, previous, holder, stored, confirmed, ghost, offered>>,
             Saving' = Saving
      PROVE  OriginInv' /\ OnlyStoredOffered'
  BY <1>u DEF OriginInv, OnlyStoredOffered, HasCopy
<1>c. ASSUME NEW t \in Task, NEW image, Enters(t), Change(t, image),
             image.queue \subseteq mem[gen].queue \cup ({t} \cap Edit)
      PROVE  OriginInv' /\ OnlyStoredOffered'
  <2>1. up = "up" /\ runs[t] = gen /\ Saving = {} /\ at[t] = "waiting"
    BY <1>c, WhoSaves
  <2>2. /\ mem' = [mem EXCEPT ![gen] = image]
        /\ previous' = [previous EXCEPT ![gen] = mem[gen]]
        /\ UNCHANGED <<gen, up, stored, confirmed, ghost, offered>>
        /\ at' = [at EXCEPT ![t] = "saving"]
    BY <1>c, <2>1 DEF Change, Goto
  <2>3. Saving' = {t} \cap Edit
    BY <2>1, <2>2, <1>t DEF Saving
  <2>4. QED
    BY <1>c, <1>o, <2>1, <2>2, <2>3 DEF OriginInv, OnlyStoredOffered
<1>b. ASSUME NEW t \in Task, Commit(t)
      PROVE  /\ UNCHANGED <<gen, mem, up, ghost>> /\ up = "up"
             /\ stored' = mem[gen] /\ ~HasCopy' /\ Saving \subseteq {t} /\ runs[t] = gen
             /\ Saving' = {}
  <2>1. up = "up" /\ runs[t] = gen /\ holder[gen] = t /\ Saving \subseteq {t}
    BY <1>b, WhoSaves DEF Commit
  <2>2. at' = [at EXCEPT ![t] = "done"]
    BY <1>b DEF Commit, Goto
  <2>3. Saving' = {}
    BY <2>1, <2>2, <1>t DEF Saving
  <2>4. QED
    BY <1>b, <2>1, <2>3 DEF Commit, Written, HasCopy
<1>1. ASSUME NEW c \in Edit, QueueEdit(c) PROVE OriginInv' /\ OnlyStoredOffered'
  <2>1. CASE Enters(c) /\ Refuse(c)
    BY <2>1, <1>u, <1>t DEF Refuse, Goto, Saving, Enters
  <2> DEFINE new == [mem[runs[c]] EXCEPT !.queue = @ \cup {c}, !.view = @ \cup {c}]
  <2>2. CASE Enters(c) /\ Change(c, new)
    <3>1. new.queue = mem[gen].queue \cup {c}
      BY <2>2, <1>t, WhoSaves DEF Image
    <3>2. QED
      BY <1>c, <1>t, <2>2, <3>1
  <2>3. QED
    BY <1>1, <2>1, <2>2 DEF QueueEdit
<1>2. ASSUME NEW n \in Post, ProcessSnapshot(n) PROVE OriginInv' /\ OnlyStoredOffered'
  <2>1. CASE Enters(n) /\ Refuse(n)
    BY <2>1, <1>u, <1>t DEF Refuse, Goto, Saving, Enters
  <2> DEFINE new == [lists    |-> post[n].lists,
                     writable |-> post[n].writable,
                     found    |-> post[n].found,
                     view     |-> Shown(n),
                     queue    |-> Remaining(n),
                     sentAt   |-> n]
  <2>2. CASE Enters(n) /\ Change(n, new)
    <3>1. new.queue \subseteq mem[gen].queue
      BY <2>2, <1>t, WhoSaves DEF Remaining
    <3>2. QED
      BY <1>c, <1>t, <2>2, <3>1
  <2>3. QED
    BY <1>2, <2>1, <2>2 DEF ProcessSnapshot
<1>3. ASSUME NEW c \in Edit, ConfirmEdit(c) PROVE OriginInv' /\ OnlyStoredOffered'
  <2>1. Commit(c) /\ confirmed' = confirmed \cup {c} /\ offered' = offered
    BY <1>3 DEF ConfirmEdit
  <2>2. QED
    BY <1>b, <1>o, <1>t, <2>1 DEF OriginInv, OnlyStoredOffered
<1>4. ASSUME NEW n \in Post, AnswerSnapshot(n) PROVE OriginInv' /\ OnlyStoredOffered'
  <2>1. Commit(n) /\ confirmed' = confirmed
    BY <1>4 DEF AnswerSnapshot
  <2>2. Saving = {}
    BY <1>b, <1>t, <2>1 DEF Saving
  <2>3. mem[gen].queue \subseteq confirmed \cup ghost
    BY <1>b, <1>o, <1>t, <2>1, <2>2
  <2>4. offered' \subseteq offered \cup mem[gen].queue
    BY <1>4, <1>b, <1>t, <2>1 DEF AnswerSnapshot
  <2>5. QED
    BY <1>b, <1>t, <2>1, <2>3, <2>4 DEF OriginInv, OnlyStoredOffered
<1>5. ASSUME NEW t \in Task, RollBack(t) PROVE OriginInv' /\ OnlyStoredOffered'
  <2>1. up = "up" /\ runs[t] = gen /\ holder[gen] = t
    BY <1>5, WhoSaves DEF RollBack
  <2>2. /\ UNCHANGED <<gen, up, confirmed, offered>>
        /\ mem' = [mem EXCEPT ![gen] = previous[gen]]
        /\ holder' = [holder EXCEPT ![gen] = Nobody]
        /\ ghost' = ghost \cup (stored'.queue \ stored.queue)
    BY <1>5, <2>1 DEF RollBack
  <2>3. previous[gen].queue \subseteq confirmed \cup ghost
    BY <1>o, <2>1, NobodyAssumption DEF HasCopy
  <2>4. QED
    BY <1>o, <2>1, <2>2, <2>3 DEF OriginInv, OnlyStoredOffered, HasCopy
<1>6. ASSUME NEW c \in Edit, CallService(c) \/ ApplyCommand(c)
      PROVE  OriginInv' /\ OnlyStoredOffered'
  BY <1>6, <1>u, <1>t DEF CallService, ApplyCommand, Goto, Saving
<1>7. ASSUME NEW n \in Post, ReceiveSnapshot(n) PROVE OriginInv' /\ OnlyStoredOffered'
  BY <1>7, <1>u, <1>t DEF ReceiveSnapshot, Goto, Saving
<1>8. ASSUME NEW n \in Post, NEW lists, NEW writable, NEW found, SendSnapshot(n, lists, writable, found)
      PROVE  OriginInv' /\ OnlyStoredOffered'
  BY <1>8, <1>u, <1>t DEF SendSnapshot, Goto, Saving
<1>9. CASE PollEntity \/ UNCHANGED vars \/ \E lists \in SUBSET List : Reconfigure(lists)
  BY <1>9, <1>u DEF PollEntity, Reconfigure, vars, Saving
<1>10. CASE Unload
  BY <1>10, <1>o DEF Unload, OriginInv, OnlyStoredOffered, HasCopy
<1>11. CASE Setup
  <2>1. /\ up = "down" /\ UNCHANGED <<holder, stored, at, confirmed, ghost, offered>>
        /\ mem' = [mem EXCEPT ![gen'] = Loaded]
        /\ previous' = [previous EXCEPT ![gen'] = stored]
    BY <1>11 DEF Setup
  <2>2. gen' \in Gen
    BY TypeStep DEF TypeOK
  <2>3. Loaded.queue \subseteq stored.queue
    BY DEF Loaded
  <2>4. QED
    BY <1>o, <2>1, <2>2, <2>3 DEF OriginInv, OnlyStoredOffered
<1>12. CASE FinishSetup
  <2>1. /\ up = "saving" /\ stored' = mem[gen]
        /\ up' = "up" /\ UNCHANGED <<gen, mem, holder, at, confirmed, ghost, offered>>
    BY <1>12 DEF FinishSetup
  <2>2. \A t \in Task : ~Active(t)
    BY <2>1 DEF ActiveInv
  <2>3. Saving = {} /\ ~HasCopy'
    BY <1>t, <2>1, <2>2, NobodyAssumption DEF Saving, Active, HasCopy, LockInv
  <2>4. QED
    BY <1>o, <2>1, <2>3 DEF OriginInv, OnlyStoredOffered, HasCopy
<1>13. CASE SetupFails
  <2>1. /\ up = "saving" /\ up' = "down" /\ stored' \in {stored, mem[gen]}
        /\ UNCHANGED <<gen, holder, at, confirmed, ghost, offered>>
    BY <1>13 DEF SetupFails
  <2>2. \A t \in Task : ~Active(t)
    BY <2>1 DEF ActiveInv
  <2>3. Saving = {} /\ ~HasCopy'
    BY <1>t, <2>1, <2>2, NobodyAssumption DEF Saving, Active, HasCopy, LockInv
  <2>4. QED
    BY <1>o, <2>1, <2>3 DEF OriginInv, OnlyStoredOffered, HasCopy
<1>14. CASE Restart
  BY <1>14, <1>o DEF Restart, OriginInv, OnlyStoredOffered, HasCopy
<1>15. QED
  BY <1>1, <1>2, <1>3, <1>4, <1>5, <1>6, <1>7, <1>8, <1>9, <1>10, <1>11, <1>12, <1>13, <1>14
     DEF Next, TaskStep

(***************************************************************************)
(* The invariants.                                                         *)
(***************************************************************************)
LEMMA InitInv == Init => IInv
<1> SUFFICES ASSUME Init PROVE IInv
  OBVIOUS
<1>1. TypeOK
  BY InitType
<1>2. PICK D \in Starts :
          /\ stored = IF D = {} THEN EmptyImage ELSE Underway(D)
          /\ at = [t \in Task |-> IF t \in D THEN "done" ELSE "idle"]
          /\ up = IF D = {} THEN "up" ELSE "down"
          /\ offered = D
          /\ confirmed = D
  BY DEF Init
<1>3. /\ stored.queue = D /\ stored.view = D /\ stored.sentAt = 0 /\ D \subseteq Edit
  BY <1>2, StartsAssumption DEF EmptyImage, Underway
<1>4. /\ gen = 1 /\ gen \in Gen /\ up # "saving" /\ allowed = List /\ entity = NewEntity
      /\ \A g \in Gen : mem[g] = EmptyImage /\ (up = "up" => stored = EmptyImage)
      /\ previous = [g \in Gen |-> EmptyImage] /\ holder = [g \in Gen |-> Nobody]
      /\ post = [n \in Post |-> [lists |-> {}, writable |-> {}, found |-> {}, acked |-> {}]]
      /\ effects = {} /\ ghost = {} /\ revoked = {} /\ dropped = {}
  BY <1>1, <1>2 DEF Init, TypeOK
<1>5. VisibleInv
  <2>1. Visible(stored)
    BY <1>3 DEF Visible
  <2>2. Visible(EmptyImage)
    BY DEF Visible, EmptyImage
  <2>3. QED
    BY <1>4, <2>1, <2>2 DEF VisibleInv
<1>6. D \cap Post = {} /\ 0 \notin Post
  BY <1>3, TaskAssumption DEF Post
<1>7. ActiveInv /\ LockInv /\ PostInv
  <2>1. ActiveInv /\ LockInv
    BY <1>2, <1>4 DEF ActiveInv, LockInv, Active
  <2>2. PostInv
    BY <1>2, <1>4, <1>6 DEF PostInv, Task
  <2>3. QED
    BY <2>1, <2>2
<1>8. Sound(stored)
  BY <1>2, <1>3, <1>4, <1>6 DEF Sound, SoundIn, ShownIn, Kept, Task
<1>9. ImageInv /\ OriginInv
  BY <1>2, <1>3, <1>4, <1>8 DEF ImageInv, OriginInv, HasCopy
<1>10. EditInv
  BY <1>2, <1>3, <1>4, ListOfAssumption DEF EditInv, Saving, On, Task
<1>11. EntityInv /\ OnlyStoredOffered
  BY <1>2, <1>3, <1>4, <1>6 DEF EntityInv, ShownIn, Kept, OnlyStoredOffered, NewEntity, On
<1>12. QED
  BY <1>1, <1>5, <1>7, <1>9, <1>10, <1>11 DEF IInv

LEMMA InvStep == NoOverlap /\ IInv /\ [Next]_vars => IInv'
<1> SUFFICES ASSUME NoOverlap, IInv, [Next]_vars PROVE IInv'
  OBVIOUS
<1>1. TypeOK' /\ VisibleInv'
  BY TypeStep, VisibleStep DEF IInv
<1>2. ActiveInv' /\ LockInv' /\ PostInv'
  BY LockStep, PostStep DEF IInv
<1>3. ImageInv' /\ EditInv' /\ EntityInv' /\ OriginInv' /\ OnlyStoredOffered'
  BY ImageStep, OriginStep
<1>4. QED
  BY <1>1, <1>2, <1>3 DEF IInv

LEMMA Invariant == ASSUME NoOverlap PROVE Spec => []IInv
<1>1. IInv /\ [Next]_vars => IInv'
  BY InvStep
<1>2. QED
  BY InitInv, <1>1, PTL DEF Spec

\* Every variable of the runtime, the file and the tasks keeps its type,
\* whatever overlaps.
THEOREM TypeCorrect == Spec => []TypeOK
  BY InitType, TypeStep, PTL DEF Spec

\* An edit that waits in a runtime is applied to its list whenever that list is
\* there and has its reminder (_apply_optimistic), whatever overlaps.
THEOREM PendingEditsVisible == Spec => []PendingIsVisible
<1>1. Init => TypeOK /\ VisibleInv
  BY InitInv DEF IInv
<1>2. TypeOK /\ VisibleInv /\ [Next]_vars => (TypeOK /\ VisibleInv)'
  BY TypeStep, VisibleStep
<1>3. TypeOK /\ VisibleInv => PendingIsVisible
  BY DEF VisibleInv, Visible, PendingIsVisible
<1>4. QED
  BY <1>1, <1>2, <1>3, PTL DEF Spec

\* An edit whose service call returned success is in the file until the bridge
\* has applied it, unless its list was revoked (async_queue_command returns
\* after its save).
THEOREM ConfirmedEditsAreDurable == ASSUME NoOverlap PROVE Spec => []ConfirmedEditsDurable
<1>1. IInv => ConfirmedEditsDurable
  BY DEF IInv, ImageInv, Sound, SoundIn, PostInv, Kept, ConfirmedEditsDurable
<1>2. QED
  BY Invariant, <1>1, PTL

\* The bridge is only offered edits that a save has stored (the response is
\* made after the commit).
THEOREM OnlyStoredIsOffered == ASSUME NoOverlap PROVE Spec => []OnlyStoredOffered
<1>1. IInv => OnlyStoredOffered
  BY DEF IInv
<1>2. QED
  BY Invariant, <1>1, PTL

\* A user goes on seeing an edit once its call returned, unless the snapshot
\* behind what is shown lacks its reminder (_apply_optimistic finds no uid).
THEOREM EditsStayVisible == ASSUME NoOverlap PROVE Spec => []EditStaysVisible
<1>1. IInv => EditStaysVisible
  BY DEF IInv, EntityInv, ShownIn, MissingIn, Missing, Kept, EditStaysVisible
<1>2. QED
  BY Invariant, <1>1, PTL

\* Edits given up when a list was revoked do not come back with it.
THEOREM DroppedEditsStayDropped == ASSUME NoOverlap PROVE Spec => []DroppedStaysDropped
<1>1. IInv => DroppedStaysDropped
  BY DEF IInv, ImageInv, Sound, SoundIn, DroppedStaysDropped, Running
<1>2. QED
  BY Invariant, <1>1, PTL
================================================================================
