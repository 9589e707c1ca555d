------------------------ MODULE ScriptSandboxProofs -------------------------
(***************************************************************************)
(* Theorems about ScriptSandbox for all scripts, callers, workers and      *)
(* lengths of the queue, of which they need no bound.  They are stated of  *)
(* Safe, which Spec implies.                                               *)
(***************************************************************************)
EXTENDS ScriptSandbox, SequenceTheorems, TLAPS

Safe == Init /\ [][Next]_vars

Owners == Callers \union {Nobody}
Items == [owner : Owners, code : {"good", "bad", "endless"}]
Jobs == [owner : Owners, code : Codes]
CallSet == [mode : Modes, script : Scripts \union {NoScript}, version : Nat, code : Codes]
Outcomes == {"none", "success", "failed"}

-----------------------------------------------------------------------------
(* Sequences *)

LEMMA RemoveAtProperties ==
  ASSUME NEW S, NEW q \in Seq(S), NEW i \in DOMAIN q
  PROVE  /\ RemoveAt(q, i) \in Seq(S)
         /\ Len(RemoveAt(q, i)) = Len(q) - 1
         /\ \A j \in 1..(Len(q) - 1) : RemoveAt(q, i)[j] = q[IF j < i THEN j ELSE j + 1]
<1> DEFINE left == SubSeq(q, 1, i - 1)
           right == SubSeq(q, i + 1, Len(q))
<1>1. i \in 1..Len(q) /\ Len(q) \in Nat
  OBVIOUS
<1>2. /\ left \in Seq(S) /\ Len(left) = i - 1
      /\ \A j \in 1..(i - 1) : left[j] = q[j]
  BY <1>1
<1>3. /\ right \in Seq(S) /\ Len(right) = Len(q) - i
      /\ \A j \in 1..(Len(q) - i) : right[j] = q[i + j]
  BY <1>1
<1>4. RemoveAt(q, i) = left \o right
  BY DEF RemoveAt
<1> HIDE DEF left, right
<1>5. Len(left \o right) = Len(q) - 1 /\ left \o right \in Seq(S)
  BY <1>1, <1>2, <1>3
<1>6. ASSUME NEW j \in 1..(Len(q) - 1)
      PROVE  (left \o right)[j] = q[IF j < i THEN j ELSE j + 1]
  <2>1. CASE j < i
    BY <1>1, <1>2, <1>3, <2>1
  <2>2. CASE ~(j < i)
    BY <1>1, <1>2, <1>3, <2>2
  <2> QED
    BY <2>1, <2>2
<1> QED
  BY <1>4, <1>5, <1>6

-----------------------------------------------------------------------------
(* Types *)

LEMMA Constants == {"good", "bad", "endless"} \subseteq Codes /\ NoCall \in CallSet /\ Idle \in Jobs
  BY DEF Codes, NoCall, CallSet, Modes, Idle, Item, Jobs, Owners

LEMMA TypeInit == Init => TypeOK
  BY DEF Init, TypeOK, NoRow, Status, Codes, Idle, Item, NoCall, Modes, PoolStates, CallerPC

LEMMA RowType ==
  ASSUME TypeOK, NEW s \in Scripts,
         NEW v \in [status : Status, version : Nat, code : Codes],
         row' = [row EXCEPT ![s] = v], UNCHANGED <<records, poolVars, callVars>>
  PROVE  TypeOK'
  BY DEF TypeOK, poolVars, callVars

LEMMA BecomesType ==
  ASSUME TypeOK, NEW c \in Callers, NEW state \in CallerPC, NEW what \in CallSet,
         NEW how \in Outcomes, Becomes(c, state, what, how)
  PROVE  pc' \in [Callers -> CallerPC] /\ call' \in [Callers -> CallSet]
         /\ outcome' \in [Callers -> Outcomes]
  BY DEF TypeOK, Becomes, CallSet, Outcomes

LEMMA ConcludesType ==
  ASSUME TypeOK, NEW c \in Callers, NEW how \in Outcomes, Concludes(c, how)
  PROVE  pc' \in [Callers -> CallerPC] /\ call' \in [Callers -> CallSet]
         /\ outcome' \in [Callers -> Outcomes]
<1>1. call[c] \in CallSet
  BY DEF TypeOK, CallSet
<1>2. "idle" \in CallerPC /\ "recording" \in CallerPC /\ "none" \in Outcomes
  BY DEF CallerPC, Outcomes
<1> QED
  BY <1>1, <1>2, BecomesType, Constants DEF Concludes, Ends

LEMMA DisownType ==
  ASSUME TypeOK, NEW c \in Callers, Disown(c)
  PROVE  worker' \in [Workers -> Jobs] /\ queue' \in Seq(Items)
<1>1. queue \in Seq(Items) /\ worker \in [Workers -> Jobs]
  BY DEF TypeOK, Items, Jobs, Owners
<1>2. worker' \in [Workers -> Jobs]
  BY <1>1 DEF Disown, Jobs, Owners
<1>3. CASE \E i \in DOMAIN queue : queue' = RemoveAt(queue, i)
  <2>1. PICK i \in DOMAIN queue : queue' = RemoveAt(queue, i)
    BY <1>3
  <2>2. RemoveAt(queue, i) \in Seq(Items)
    BY <1>1, RemoveAtProperties, Zenon
  <2> QED
    BY <1>2, <2>1, <2>2
<1>4. CASE queue' = [i \in DOMAIN queue |-> IF queue[i].owner = c
                                           THEN [queue[i] EXCEPT !.owner = Nobody]
                                           ELSE queue[i]]
  <2>1. \A i \in DOMAIN queue : queue[i] \in Items
    BY <1>1
  <2>2. \A i \in DOMAIN queue : queue'[i] \in Items
    BY <1>4, <2>1 DEF Items, Owners
  <2>3. DOMAIN queue = 1..Len(queue) /\ Len(queue) \in Nat
    BY <1>1
  <2> QED
    BY <1>2, <1>4, <2>2, <2>3, SeqDef
<1> QED
  BY <1>2, <1>3, <1>4 DEF Disown

LEMMA SettlesType ==
  ASSUME TypeOK, NEW o \in Owners, NEW how \in Outcomes, Settles(o, how)
  PROVE  outcome' \in [Callers -> Outcomes]
  BY DEF TypeOK, Owners, Settles, Outcomes

\* Only the execution of a script is recorded.
RecordsScripts == \A c \in Callers : pc[c] = "recording" => call[c].script # NoScript

LEMMA TypeStep == TypeOK /\ RecordsScripts /\ [Next]_vars => TypeOK'
<1> SUFFICES ASSUME TypeOK, RecordsScripts, [Next]_vars PROVE TypeOK'
  OBVIOUS
<1>1. ASSUME NEW s \in Scripts, Manage(s) PROVE TypeOK'
  <2>1. row[s] \in [status : Status, version : Nat, code : Codes]
    BY DEF TypeOK
  <2>2. ASSUME NEW code \in Codes, Create(s, code) PROVE TypeOK'
    BY <2>2, RowType DEF Create, Session, Status
  <2>3. ASSUME NEW code \in Codes, Update(s, code) PROVE TypeOK'
    BY <2>3 DEF Update, Session, TypeOK, poolVars, callVars
  <2>4. ASSUME NEW version, Publish(s, version) PROVE TypeOK'
    <3>1. [row[s] EXCEPT !.status = "published"] \in [status : Status, version : Nat, code : Codes]
      BY <2>1 DEF Status
    <3> QED
      BY <2>4, <3>1, RowType DEF Publish, Session
  <2>5. CASE Archive(s)
    <3>1. [row[s] EXCEPT !.status = "archived"] \in [status : Status, version : Nat, code : Codes]
      BY <2>1 DEF Status
    <3> QED
      BY <2>5, <3>1, RowType DEF Archive, Session
  <2> QED
    BY <1>1, <2>2, <2>3, <2>4, <2>5 DEF Manage
<1>2. ASSUME NEW c \in Callers, Execute(c) PROVE TypeOK'
  <2>1. "ready" \in CallerPC /\ "none" \in Outcomes
    BY DEF CallerPC, Outcomes
  <2>2. ASSUME NEW s \in Scripts, NEW mode \in {"test", "published"}, Fetch(c, s, mode)
        PROVE  TypeOK'
    <3>1. [mode |-> mode, script |-> s, version |-> row[s].version, code |-> row[s].code]
            \in CallSet
      BY DEF TypeOK, CallSet, Modes
    <3> QED
      BY <2>1, <2>2, <3>1, BecomesType DEF Fetch, TypeOK, poolVars, CallSet, Outcomes
  <2>3. ASSUME NEW code \in Codes, Start(c, code) PROVE TypeOK'
    <3>1. [NoCall EXCEPT !.code = code] \in CallSet
      BY DEF NoCall, CallSet, Modes
    <3> QED
      BY <2>1, <2>3, <3>1, BecomesType DEF Start, TypeOK, poolVars, CallSet, Outcomes
  <2> QED
    BY <1>2, <2>2, <2>3 DEF Execute
<1>3. ASSUME NEW c \in Callers, Proceed(c) PROVE TypeOK'
  <2>1. "failed" \in Outcomes /\ "none" \in Outcomes /\ outcome[c] \in Outcomes
    BY DEF TypeOK, Outcomes
  <2>2. CASE FailsAtOnce(c)
    BY <2>1, <2>2, ConcludesType DEF FailsAtOnce, TypeOK, poolVars, CallSet, Outcomes
  <2>3. CASE Submit(c)
    <3>1. call[c] \in CallSet /\ "waiting" \in CallerPC
      BY DEF TypeOK, CallSet, CallerPC
    <3>2. Item(c, call[c].code) \in Items
      BY <2>3, <3>1 DEF Submit, Compiles, Item, Items, Owners, CallSet, Codes
    <3>3. queue' \in Seq(Items)
      BY <2>3, <3>2, AppendProperties DEF Submit, TypeOK, Items, Owners
    <3> QED
      BY <2>1, <2>3, <3>1, <3>3, BecomesType
         DEF Submit, TypeOK, CallSet, Outcomes, Items, Owners
  <2>4. CASE Receive(c)
    BY <2>1, <2>4, ConcludesType DEF Receive, TypeOK, poolVars, CallSet, Outcomes
  <2>5. CASE TimesOut(c)
    BY <2>1, <2>5, ConcludesType, DisownType
       DEF TimesOut, TypeOK, CallSet, Outcomes, Items, Jobs, Owners
  <2>6. CASE Record(c)
    <3>1. "idle" \in CallerPC
      BY DEF CallerPC
    <3>2. /\ pc' \in [Callers -> CallerPC] /\ call' \in [Callers -> CallSet]
          /\ outcome' \in [Callers -> Outcomes]
      BY <2>1, <2>6, <3>1, BecomesType, Constants DEF Record, Ends
    <3>3. call[c].script \in Scripts /\ call[c].version \in Nat
      BY <2>6 DEF Record, TypeOK, RecordsScripts
    <3>4. records' \subseteq [script : Scripts, version : Nat, success : BOOLEAN, ran : Nat]
      <4>1. (outcome[c] = "success") \in BOOLEAN /\ 1 \in Nat
        OBVIOUS
      <4>2. [script |-> call[c].script, version |-> 1, success |-> outcome[c] = "success",
             ran |-> call[c].version]
              \in [script : Scripts, version : Nat, success : BOOLEAN, ran : Nat]
        BY <3>3, <4>1, Zenon
      <4> QED
        BY <2>6, <4>2, Zenon DEF Record, TypeOK
    <3> QED
      BY <2>6, <3>2, <3>4 DEF Record, TypeOK, poolVars, CallSet, Outcomes
  <2> QED
    BY <1>3, <2>2, <2>3, <2>4, <2>5, <2>6 DEF Proceed
<1>4. queue \in Seq(Items) /\ worker \in [Workers -> Jobs] /\ Items \subseteq Jobs
  BY Constants DEF TypeOK, Items, Jobs, Owners
<1>5. queue # << >> => Head(queue) \in Items /\ Tail(queue) \in Seq(Items)
  BY <1>4, HeadTailProperties
<1>6. ASSUME NEW w \in Workers, Take(w) PROVE TypeOK'
  BY <1>4, <1>5, <1>6 DEF Take, TypeOK, callVars, Items, Jobs, Owners
<1>7. CASE CannotSend
  <2>1. Head(queue).owner \in Owners /\ "failed" \in Outcomes
    BY <1>5, <1>7 DEF CannotSend, Items, Outcomes
  <2>2. outcome' \in [Callers -> Outcomes]
    BY <1>7, <2>1, SettlesType DEF CannotSend
  <2> QED
    BY <1>5, <1>7, <2>2 DEF CannotSend, TypeOK, Items, Owners, Outcomes
<1>8. ASSUME NEW w \in Workers, Finish(w) PROVE TypeOK'
  <2>1. worker[w].owner \in Owners /\ "failed" \in Outcomes /\ "success" \in Outcomes
    BY <1>4 DEF Jobs, Outcomes
  <2>2. outcome' \in [Callers -> Outcomes]
    BY <1>8, <2>1, SettlesType DEF Finish
  <2>3. worker' \in [Workers -> Jobs]
    BY <1>4, <1>8, Constants DEF Finish
  <2> QED
    BY <1>8, <2>2, <2>3 DEF Finish, TypeOK, Jobs, Owners, Outcomes
<1>9. CASE WorkerDies
  <2>1. pool' \in PoolStates
    BY <1>9 DEF WorkerDies, TypeOK, PoolStates
  <2>2. worker' \in [Workers -> Jobs] /\ queue' \in Seq(Items)
    BY <1>9, Constants DEF WorkerDies
  <2>3. outcome' \in [Callers -> Outcomes]
    BY <1>9 DEF WorkerDies, TypeOK, Outcomes
  <2> QED
    BY <1>9, <2>1, <2>2, <2>3 DEF WorkerDies, TypeOK, Items, Jobs, Owners, Outcomes
<1>10. CASE Shutdown \/ ShutDown
  BY <1>10 DEF Shutdown, ShutDown, TypeOK, callVars, PoolStates
<1>11. CASE UNCHANGED vars
  BY <1>11 DEF vars, poolVars, callVars, TypeOK
<1> QED
  BY <1>1, <1>2, <1>3, <1>6, <1>7, <1>8, <1>9, <1>10, <1>11 DEF Next, PoolStep

-----------------------------------------------------------------------------
(* Who waits for what *)

Awaits(c, code) == pc[c] = "waiting" /\ outcome[c] = "none" /\ call[c].code = code

\* A script in the pool with an owner is the one its owner still waits for ...
Owned ==
  /\ \A w \in Workers, c \in Callers : worker[w].owner = c => Awaits(c, worker[w].code)
  /\ \A i \in DOMAIN queue, c \in Callers : queue[i].owner = c => Awaits(c, queue[i].code)

\* ... and there is only one.
Once ==
  /\ \A v, w \in Workers, c \in Callers :
       worker[v].owner = c /\ worker[w].owner = c => v = w
  /\ \A i, j \in DOMAIN queue, c \in Callers :
       queue[i].owner = c /\ queue[j].owner = c => i = j
  /\ \A w \in Workers, i \in DOMAIN queue, c \in Callers :
       ~(worker[w].owner = c /\ queue[i].owner = c)

OwnsNothing(c) ==
  /\ \A w \in Workers : worker[w].owner # c
  /\ \A i \in DOMAIN queue : queue[i].owner # c

OwnerInv == Owned /\ Once

LEMMA OwnerInit == Init => OwnerInv
  BY SandboxAssumption DEF Init, OwnerInv, Owned, Once, Idle, Item

\* Whoever owns nothing may do as it likes.
LEMMA OwnerBecomes ==
  ASSUME TypeOK, OwnerInv, NEW c \in Callers, OwnsNothing(c), UNCHANGED <<queue, worker>>,
         NEW state, NEW what, NEW how, Becomes(c, state, what, how)
  PROVE  OwnerInv'
<1>1. \A d \in Callers \ {c} : pc'[d] = pc[d] /\ call'[d] = call[d] /\ outcome'[d] = outcome[d]
  BY DEF TypeOK, Becomes
<1>2. Owned'
  BY <1>1 DEF OwnerInv, Owned, Awaits, OwnsNothing
<1>3. Once'
  BY DEF OwnerInv, Once
<1> QED
  BY <1>2, <1>3 DEF OwnerInv

LEMMA OwnerConcludes ==
  ASSUME TypeOK, OwnerInv, NEW c \in Callers, OwnsNothing(c), UNCHANGED <<queue, worker>>,
         NEW how, Concludes(c, how)
  PROVE  OwnerInv'
  BY OwnerBecomes DEF Concludes, Ends

LEMMA NotWaiting ==
  ASSUME OwnerInv, NEW c \in Callers, pc[c] # "waiting" \/ outcome[c] # "none"
  PROVE  OwnsNothing(c)
  BY DEF OwnerInv, Owned, Awaits, OwnsNothing

LEMMA OwnerSubmit ==
  ASSUME TypeOK, OwnerInv, NEW c \in Callers, Submit(c)
  PROVE  OwnerInv'
<1>1. OwnsNothing(c)
  BY NotWaiting DEF Submit
<1>2. /\ queue' = Append(queue, Item(c, call[c].code)) /\ worker' = worker
      /\ queue \in Seq(Items)
  BY DEF Submit, TypeOK, Items, Owners
<1>3. /\ DOMAIN queue = 1..Len(queue) /\ DOMAIN queue' = 1..(Len(queue) + 1)
      /\ Len(queue) \in Nat
      /\ \A i \in DOMAIN queue : queue'[i] = queue[i]
      /\ queue'[Len(queue) + 1] = Item(c, call[c].code)
  BY <1>2
<1>4. \A i \in DOMAIN queue' :
        i \in DOMAIN queue \/ (i = Len(queue) + 1 /\ queue'[i] = [owner |-> c, code |-> call[c].code])
  BY <1>3 DEF Item
<1>5. \A d \in Callers \ {c} : pc'[d] = pc[d] /\ call'[d] = call[d] /\ outcome'[d] = outcome[d]
  BY DEF Submit, TypeOK, Becomes
<1>6. pc'[c] = "waiting" /\ outcome'[c] = "none" /\ call'[c] = call[c]
  BY DEF Submit, TypeOK, Becomes
<1>7. Owned'
  BY <1>1, <1>2, <1>3, <1>4, <1>5, <1>6 DEF OwnerInv, Owned, Awaits, OwnsNothing
<1>8. Once'
  BY <1>1, <1>2, <1>3, <1>4 DEF OwnerInv, Once, OwnsNothing
<1> QED
  BY <1>7, <1>8 DEF OwnerInv

\* Whatever of the queue is left in its order, nobody comes to own more.
LEMMA OwnerDisown ==
  ASSUME TypeOK, OwnerInv, NEW c \in Callers, Disown(c)
  PROVE  /\ \A w \in Workers, d \in Callers :
              worker'[w].owner = d => d # c /\ worker[w] = worker'[w]
         /\ \E f \in [DOMAIN queue' -> DOMAIN queue] :
              /\ \A i, j \in DOMAIN queue' : f[i] = f[j] => i = j
              /\ \A i \in DOMAIN queue', d \in Callers :
                   queue'[i].owner = d => d # c /\ queue[f[i]] = queue'[i]
<1>1. queue \in Seq(Items) /\ worker \in [Workers -> Jobs]
  BY DEF TypeOK, Items, Jobs, Owners
<1>2. /\ DOMAIN queue = 1..Len(queue) /\ Len(queue) \in Nat
      /\ \A i \in DOMAIN queue : queue[i] \in Items
  BY <1>1
<1>3. \A w \in Workers, d \in Callers : worker'[w].owner = d => d # c /\ worker[w] = worker'[w]
  BY <1>1, SandboxAssumption DEF Disown, Jobs
<1>4. CASE queue' = [i \in DOMAIN queue |-> IF queue[i].owner = c
                                           THEN [queue[i] EXCEPT !.owner = Nobody]
                                           ELSE queue[i]]
  <2>1. \A i \in DOMAIN queue, d \in Callers :
          queue'[i].owner = d => d # c /\ queue[i] = queue'[i]
    BY <1>2, <1>4, SandboxAssumption DEF Items
  <2> DEFINE f == [i \in DOMAIN queue |-> i]
  <2>2. /\ f \in [DOMAIN queue' -> DOMAIN queue]
        /\ \A i \in DOMAIN queue' : f[i] = i /\ i \in DOMAIN queue
    BY <1>4
  <2> HIDE DEF f
  <2> QED
    BY <1>3, <2>1, <2>2
<1>5. CASE \E i \in DOMAIN queue : queue[i].owner = c /\ queue' = RemoveAt(queue, i)
  <2>1. PICK k \in DOMAIN queue : queue[k].owner = c /\ queue' = RemoveAt(queue, k)
    BY <1>5
  <2> DEFINE f == [i \in DOMAIN queue' |-> IF i < k THEN i ELSE i + 1]
  <2>2. /\ queue' \in Seq(Items) /\ Len(queue') = Len(queue) - 1
        /\ \A i \in 1..(Len(queue) - 1) : queue'[i] = queue[IF i < k THEN i ELSE i + 1]
    BY <1>1, <2>1, RemoveAtProperties, Zenon
  <2>3. DOMAIN queue' = 1..(Len(queue) - 1)
    BY <2>2
  <2>4. f \in [DOMAIN queue' -> DOMAIN queue] /\ \A i, j \in DOMAIN queue' : f[i] = f[j] => i = j
    <3>1. k \in 1..Len(queue)
      BY <1>2
    <3>2. \A i \in DOMAIN queue' : f[i] = IF i < k THEN i ELSE i + 1
      OBVIOUS
    <3>3. \A i \in DOMAIN queue' : f[i] \in DOMAIN queue
      BY <1>2, <2>3, <3>1, <3>2
    <3>4. \A i, j \in DOMAIN queue' : f[i] = f[j] => i = j
      BY <1>2, <2>3, <3>1, <3>2
    <3> QED
      BY <3>3, <3>4
  <2>5. \A i \in DOMAIN queue' : queue[f[i]] = queue'[i] /\ f[i] # k /\ f[i] \in DOMAIN queue
    BY <1>2, <2>2, <2>3
  <2>6. \A i \in DOMAIN queue', d \in Callers : queue'[i].owner = d => d # c
    BY <2>1, <2>5 DEF OwnerInv, Once
  <2> HIDE DEF f
  <2> QED
    BY <1>3, <2>4, <2>5, <2>6
<1> QED
  BY <1>3, <1>4, <1>5 DEF Disown

LEMMA OwnerTimesOut ==
  ASSUME TypeOK, OwnerInv, NEW c \in Callers, TimesOut(c)
  PROVE  OwnerInv'
<1>1. PICK f \in [DOMAIN queue' -> DOMAIN queue] :
        /\ \A i, j \in DOMAIN queue' : f[i] = f[j] => i = j
        /\ \A i \in DOMAIN queue', d \in Callers :
             queue'[i].owner = d => d # c /\ queue[f[i]] = queue'[i]
  BY OwnerDisown DEF TimesOut
<1>2. \A w \in Workers, d \in Callers : worker'[w].owner = d => d # c /\ worker[w] = worker'[w]
  BY OwnerDisown DEF TimesOut
<1>3. \A d \in Callers \ {c} : pc'[d] = pc[d] /\ call'[d] = call[d] /\ outcome'[d] = outcome[d]
  BY DEF TimesOut, Concludes, Ends, Becomes, TypeOK
<1>4. Owned'
  BY <1>1, <1>2, <1>3 DEF OwnerInv, Owned, Awaits
<1>5. Once'
  <2>1. \A v, w \in Workers, d \in Callers :
          worker'[v].owner = d /\ worker'[w].owner = d => v = w
    BY <1>2 DEF OwnerInv, Once
  <2>2. \A i, j \in DOMAIN queue', d \in Callers :
          queue'[i].owner = d /\ queue'[j].owner = d => i = j
    BY <1>1 DEF OwnerInv, Once
  <2>3. \A w \in Workers, i \in DOMAIN queue', d \in Callers :
          ~(worker'[w].owner = d /\ queue'[i].owner = d)
    BY <1>1, <1>2 DEF OwnerInv, Once
  <2> QED
    BY <2>1, <2>2, <2>3 DEF Once
<1> QED
  BY <1>4, <1>5 DEF OwnerInv

LEMMA TailProperties ==
  ASSUME TypeOK, queue # << >>
  PROVE  /\ DOMAIN queue = 1..Len(queue) /\ Len(queue) \in Nat \ {0}
         /\ Head(queue) = queue[1]
         /\ DOMAIN Tail(queue) = 1..(Len(queue) - 1)
         /\ \A i \in DOMAIN Tail(queue) : Tail(queue)[i] = queue[i + 1] /\ i + 1 \in DOMAIN queue
<1>1. queue \in Seq(Items)
  BY DEF TypeOK, Items, Owners
<1> QED
  BY <1>1

LEMMA OwnerTake ==
  ASSUME TypeOK, OwnerInv, NEW w \in Workers, Take(w)
  PROVE  OwnerInv'
<1>1. /\ DOMAIN queue' = 1..(Len(queue) - 1) /\ 1 \in DOMAIN queue
      /\ \A i \in DOMAIN queue' : queue'[i] = queue[i + 1] /\ i + 1 \in DOMAIN queue
      /\ Len(queue) \in Nat
  BY TailProperties DEF Take
<1>2. /\ worker'[w] = queue[1]
      /\ \A v \in Workers \ {w} : worker'[v] = worker[v]
      /\ UNCHANGED <<pc, call, outcome>>
  BY TailProperties DEF Take, TypeOK, callVars
<1>3. Owned'
  BY <1>1, <1>2 DEF OwnerInv, Owned, Awaits
<1>4. Once'
  BY <1>1, <1>2 DEF OwnerInv, Once
<1> QED
  BY <1>3, <1>4 DEF OwnerInv

LEMMA OwnerCannotSend ==
  ASSUME TypeOK, OwnerInv, CannotSend
  PROVE  OwnerInv'
<1>1. /\ DOMAIN queue' = 1..(Len(queue) - 1) /\ 1 \in DOMAIN queue
      /\ \A i \in DOMAIN queue' : queue'[i] = queue[i + 1] /\ i + 1 \in DOMAIN queue
      /\ Len(queue) \in Nat /\ UNCHANGED <<worker, pc, call>>
  BY TailProperties DEF CannotSend
<1>2. \A d \in Callers : d # queue[1].owner => outcome'[d] = outcome[d]
  BY TailProperties DEF CannotSend, Settles, TypeOK
<1>3. /\ \A i \in DOMAIN queue', d \in Callers : queue'[i].owner = d => d # queue[1].owner
      /\ \A v \in Workers, d \in Callers : worker'[v].owner = d => d # queue[1].owner
  BY <1>1 DEF OwnerInv, Once
<1>4. Owned'
  BY <1>1, <1>2, <1>3 DEF OwnerInv, Owned, Awaits
<1>5. Once'
  BY <1>1 DEF OwnerInv, Once
<1> QED
  BY <1>4, <1>5 DEF OwnerInv

LEMMA OwnerFinish ==
  ASSUME TypeOK, OwnerInv, NEW w \in Workers, Finish(w)
  PROVE  OwnerInv'
<1>1. /\ worker'[w] = Idle /\ Idle.owner = Nobody
      /\ \A v \in Workers \ {w} : worker'[v] = worker[v]
      /\ UNCHANGED <<queue, pc, call>>
  BY DEF Finish, TypeOK, Idle, Item
<1>2. \A d \in Callers : d # worker[w].owner => outcome'[d] = outcome[d]
  BY DEF Finish, Settles, TypeOK
<1>3. /\ \A i \in DOMAIN queue', d \in Callers : queue'[i].owner = d => d # worker[w].owner
      /\ \A v \in Workers, d \in Callers : worker'[v].owner = d => v # w /\ d # worker[w].owner
  BY <1>1, SandboxAssumption DEF OwnerInv, Once
<1>4. Owned'
  BY <1>1, <1>2, <1>3 DEF OwnerInv, Owned, Awaits
<1>5. Once'
  BY <1>1, <1>3 DEF OwnerInv, Once
<1> QED
  BY <1>4, <1>5 DEF OwnerInv

LEMMA OwnerStep == TypeOK /\ OwnerInv /\ [Next]_vars => OwnerInv'
<1> SUFFICES ASSUME TypeOK, OwnerInv, [Next]_vars PROVE OwnerInv'
  OBVIOUS
<1>0. ASSUME UNCHANGED <<queue, worker, pc, call, outcome>> PROVE OwnerInv'
  BY <1>0 DEF OwnerInv, Owned, Once, Awaits
<1>1. ASSUME NEW s \in Scripts, Manage(s) PROVE OwnerInv'
  BY <1>0, <1>1 DEF Manage, Create, Update, Publish, Archive, Session, poolVars, callVars
<1>2. ASSUME NEW c \in Callers, Execute(c) PROVE OwnerInv'
  BY <1>2, NotWaiting, OwnerBecomes DEF Execute, Fetch, Start, poolVars
<1>3. ASSUME NEW c \in Callers, Proceed(c) PROVE OwnerInv'
  <2>1. CASE FailsAtOnce(c)
    BY <2>1, NotWaiting, OwnerConcludes DEF FailsAtOnce, poolVars
  <2>2. CASE Receive(c)
    BY <2>2, NotWaiting, OwnerConcludes DEF Receive, poolVars
  <2>3. CASE Record(c)
    BY <2>3, NotWaiting, OwnerBecomes DEF Record, Ends, poolVars
  <2> QED
    BY <1>3, <2>1, <2>2, <2>3, OwnerSubmit, OwnerTimesOut DEF Proceed
<1>4. CASE WorkerDies
  <2>1. Idle.owner = Nobody
    BY DEF Idle, Item
  <2> QED
    BY <1>4, <2>1, SandboxAssumption DEF WorkerDies, OwnerInv, Owned, Once
<1>5. CASE Shutdown \/ ShutDown
  BY <1>0, <1>5 DEF Shutdown, ShutDown, callVars
<1>6. CASE UNCHANGED vars
  BY <1>0, <1>6 DEF vars, poolVars, callVars
<1> QED
  BY <1>1, <1>2, <1>3, <1>4, <1>5, <1>6, OwnerTake, OwnerCannotSend, OwnerFinish
     DEF Next, PoolStep

-----------------------------------------------------------------------------
(* The history *)

Current(s) == row[s].version = 1

\* Every script there ever is has version 1, whoever holds a copy of it holds its
\* code, and who has been told of success had a code that succeeds.
TruthInv ==
  /\ \A s \in Scripts : row[s] = NoRow \/ Current(s)
  /\ \A c \in Callers : call[c].script # NoScript =>
       /\ Current(call[c].script) /\ call[c].version = 1
       /\ row[call[c].script].code = call[c].code
  /\ \A c \in Callers : outcome[c] = "success" => call[c].code = "good"
  /\ RecordsScripts
  /\ \A r \in records : Current(r.script) /\ r.script \in Scripts
  /\ HistoryIsTruthful

LEMMA TruthInit == Init => TruthInv
  BY DEF Init, TruthInv, RecordsScripts, HistoryIsTruthful, NoCall

\* A step that leaves a script's version and code as they are.
Keeps(x) ==
  /\ Current(x) => Current(x)' /\ row'[x].code = row[x].code
  /\ row'[x] = NoRow \/ Current(x)'

LEMMA TruthManage ==
  ASSUME TypeOK, TruthInv, NEW s \in Scripts, Manage(s)
  PROVE  TruthInv'
<1>1. UNCHANGED <<records, pc, call, outcome>>
  BY DEF Manage, Create, Update, Publish, Archive, Session, callVars
<1>2. ASSUME NEW x \in Scripts PROVE Keeps(x)
  <2>1. row[x] = NoRow \/ Current(x)
    BY DEF TruthInv
  <2>2. ASSUME NEW code \in Codes, Create(s, code) PROVE Keeps(x)
    BY <2>1, <2>2 DEF Keeps, Create, Current, TypeOK, NoRow
  <2>3. ASSUME NEW code \in Codes, Update(s, code) PROVE Keeps(x)
    BY <2>1, <2>3 DEF Keeps, Update, Current
  <2>4. ASSUME NEW v \in 1..2, Publish(s, v) PROVE Keeps(x)
    BY <2>1, <2>4 DEF Keeps, Publish, Current, TypeOK, TruthInv
  <2>5. CASE Archive(s)
    BY <2>1, <2>5 DEF Keeps, Archive, Current, TypeOK, TruthInv
  <2> QED
    BY <2>2, <2>3, <2>4, <2>5 DEF Manage
<1>3. \A x \in Scripts : row'[x] = NoRow \/ Current(x)'
  BY <1>2 DEF Keeps
<1>4. \A c \in Callers : call[c].script # NoScript => call[c].script \in Scripts
  BY DEF TypeOK
<1>5. \A c \in Callers : call'[c].script # NoScript =>
        /\ Current(call[c].script)' /\ call'[c].version = 1
        /\ row'[call'[c].script].code = call'[c].code
  BY <1>1, <1>2, <1>4 DEF TruthInv, Current, Keeps
<1>6. \A r \in records : r.version = r.ran /\ (r.success => row'[r.script].code = "good")
                         /\ row'[r.script].version = 1 /\ r.script \in Scripts
  BY <1>2 DEF TruthInv, HistoryIsTruthful, Current, Keeps
<1> QED
  BY <1>1, <1>3, <1>5, <1>6 DEF TruthInv, RecordsScripts, HistoryIsTruthful, Current

\* A caller is told no more than what its outcome says.
LEMMA TruthBecomes ==
  ASSUME TypeOK, TruthInv, NEW c \in Callers, UNCHANGED <<row, records>>,
         NEW state, NEW what, NEW how, Becomes(c, state, what, how),
         what.script # NoScript =>
           /\ Current(what.script) /\ what.version = 1 /\ row[what.script].code = what.code,
         how = "success" => what.code = "good",
         state = "recording" => what.script # NoScript
  PROVE  TruthInv'
<1>1. pc'[c] = state /\ call'[c] = what /\ outcome'[c] = how
  BY DEF Becomes, TypeOK
<1>2. \A d \in Callers \ {c} : pc'[d] = pc[d] /\ call'[d] = call[d] /\ outcome'[d] = outcome[d]
  BY DEF Becomes, TypeOK
<1> QED
  BY <1>1, <1>2 DEF TruthInv, RecordsScripts, HistoryIsTruthful, Current

LEMMA TruthConcludes ==
  ASSUME TypeOK, TruthInv, NEW c \in Callers, UNCHANGED <<row, records>>,
         NEW how, how = "success" => outcome[c] = "success", Concludes(c, how)
  PROVE  TruthInv'
<1>1. CASE call[c].script = NoScript
  BY <1>1, TruthBecomes DEF Concludes, Ends, NoCall
<1>2. CASE call[c].script # NoScript
  BY <1>2, TruthBecomes DEF Concludes, TruthInv
<1> QED
  BY <1>1, <1>2

LEMMA TruthSettles ==
  ASSUME TypeOK, TruthInv, UNCHANGED <<row, records, pc, call>>,
         \A c \in Callers : outcome'[c] = "success" => outcome[c] = "success" \/ call[c].code = "good"
  PROVE  TruthInv'
  BY DEF TruthInv, RecordsScripts, HistoryIsTruthful, Current

LEMMA TruthRecord ==
  ASSUME TypeOK, TruthInv, NEW c \in Callers, Record(c)
  PROVE  TruthInv'
<1> DEFINE rec == [script |-> call[c].script, version |-> 1,
                   success |-> outcome[c] = "success", ran |-> call[c].version]
<1>1. call[c].script # NoScript /\ call[c].script \in Scripts
  BY DEF Record, TruthInv, RecordsScripts, TypeOK
<1>2. /\ rec.version = rec.ran /\ (rec.success => row[rec.script].code = "good")
      /\ Current(rec.script) /\ rec.script \in Scripts
  BY <1>1 DEF TruthInv
<1>3. records' \subseteq records \union {rec} /\ row' = row
  BY DEF Record
<1> HIDE DEF rec
<1>4. \A r \in records' : /\ r.version = r.ran /\ (r.success => row'[r.script].code = "good")
                          /\ Current(r.script)' /\ r.script \in Scripts
  BY <1>2, <1>3 DEF TruthInv, HistoryIsTruthful, Current
<1>5. pc'[c] = "idle" /\ call'[c] = NoCall /\ outcome'[c] = "none"
  BY DEF Record, Ends, Becomes, TypeOK
<1>6. \A d \in Callers \ {c} : pc'[d] = pc[d] /\ call'[d] = call[d] /\ outcome'[d] = outcome[d]
  BY DEF Record, Ends, Becomes, TypeOK
<1> QED
  BY <1>3, <1>4, <1>5, <1>6 DEF TruthInv, RecordsScripts, HistoryIsTruthful, Current, NoCall

LEMMA TruthStep == TypeOK /\ OwnerInv /\ TruthInv /\ [Next]_vars => TruthInv'
<1> SUFFICES ASSUME TypeOK, OwnerInv, TruthInv, [Next]_vars PROVE TruthInv'
  OBVIOUS
<1>1. ASSUME NEW s \in Scripts, Manage(s) PROVE TruthInv'
  BY <1>1, TruthManage
<1>2. ASSUME NEW c \in Callers, Execute(c) PROVE TruthInv'
  <2>1. ASSUME NEW s \in Scripts, NEW mode \in {"test", "published"}, Fetch(c, s, mode)
        PROVE  TruthInv'
    <3>1. Current(s)
      BY <2>1 DEF Fetch, MayRun, TruthInv
    <3> QED
      BY <2>1, <3>1, TruthBecomes DEF Fetch, Current
  <2>2. ASSUME NEW code \in Codes, Start(c, code) PROVE TruthInv'
    BY <2>2, TruthBecomes DEF Start, NoCall
  <2> QED
    BY <1>2, <2>1, <2>2 DEF Execute
<1>3. ASSUME NEW c \in Callers, Proceed(c) PROVE TruthInv'
  <2>1. CASE FailsAtOnce(c)
    BY <2>1, TruthConcludes DEF FailsAtOnce
  <2>2. CASE Submit(c)
    BY <2>2, TruthBecomes DEF Submit, TruthInv
  <2>3. CASE Receive(c)
    BY <2>3, TruthConcludes DEF Receive
  <2>4. CASE TimesOut(c)
    BY <2>4, TruthConcludes DEF TimesOut
  <2> QED
    BY <1>3, <2>1, <2>2, <2>3, <2>4, TruthRecord DEF Proceed
<1>4. ASSUME UNCHANGED <<row, records, pc, call, outcome>> PROVE TruthInv'
  BY <1>4, TruthSettles
<1>5. ASSUME NEW w \in Workers, Take(w) PROVE TruthInv'
  BY <1>4, <1>5 DEF Take, callVars
<1>6. CASE CannotSend
  BY <1>6, TruthSettles DEF CannotSend, Settles, TypeOK
<1>7. ASSUME NEW w \in Workers, Finish(w) PROVE TruthInv'
  <2>1. \A c \in Callers : worker[w].owner = c => call[c].code = worker[w].code
    BY DEF OwnerInv, Owned, Awaits
  <2>2. \A c \in Callers : outcome'[c] = "success" =>
          outcome[c] = "success" \/ call[c].code = "good"
    BY <1>7, <2>1 DEF Finish, Settles, TypeOK
  <2> QED
    BY <1>7, <2>2, TruthSettles DEF Finish
<1>8. CASE WorkerDies
  BY <1>8, TruthSettles DEF WorkerDies, TypeOK
<1>9. CASE Shutdown \/ ShutDown
  BY <1>4, <1>9 DEF Shutdown, ShutDown, callVars
<1>10. CASE UNCHANGED vars
  BY <1>4, <1>10 DEF vars, poolVars, callVars
<1> QED
  BY <1>1, <1>2, <1>3, <1>5, <1>6, <1>7, <1>8, <1>9, <1>10 DEF Next, PoolStep

LEMMA Always == Safe => [](TypeOK /\ OwnerInv /\ TruthInv)
<1>1. TruthInv => RecordsScripts
  BY DEF TruthInv
<1> QED
  BY <1>1, TypeInit, TypeStep, OwnerInit, OwnerStep, TruthInit, TruthStep, PTL DEF Safe

\* Every variable holds a value the code can produce; what is recorded is the
\* execution of a script.
THEOREM TypeCorrect == Safe => []TypeOK
  BY Always, PTL

\* No interleaving of executions, timeouts and dying workers puts a success into the
\* history that the script cannot have, or a version that was not executed.
THEOREM HistoryTruthful == Safe => []HistoryIsTruthful
<1>1. TruthInv => HistoryIsTruthful
  BY DEF TruthInv
<1> QED
  BY <1>1, Always, PTL

\* An answer of the pool goes to the caller that waits for it and to no other: what
\* was abandoned has no owner any more.
THEOREM AnswersReachTheirCaller == Safe => [](Owned /\ Once)
<1>1. OwnerInv => Owned /\ Once
  BY DEF OwnerInv
<1> QED
  BY <1>1, Always, PTL
-----------------------------------------------------------------------------
(* One call at a time: ScriptCall                                          *)

\* The calls with a time limit are those without a script; who records has an answer
\* and who has not yet asked has none.
Told(c) ==
  /\ call[c].script = NoScript <=> call[c].mode = "timed"
  /\ pc[c] = "recording" => outcome[c] # "none"
  /\ pc[c] \in {"idle", "ready"} => outcome[c] = "none"

ToldInv == \A c \in Callers : Told(c)

LEMMA ToldInit == Init => ToldInv
  BY DEF Init, ToldInv, Told, NoCall

LEMMA ToldBecomes ==
  ASSUME TypeOK, ToldInv, NEW c \in Callers,
         NEW state, NEW what, NEW how, Becomes(c, state, what, how),
         what.script = NoScript <=> what.mode = "timed",
         state = "recording" => how # "none",
         state \in {"idle", "ready"} => how = "none"
  PROVE  ToldInv'
<1>1. pc'[c] = state /\ call'[c] = what /\ outcome'[c] = how
  BY DEF Becomes, TypeOK
<1>2. \A d \in Callers \ {c} : pc'[d] = pc[d] /\ call'[d] = call[d] /\ outcome'[d] = outcome[d]
  BY DEF Becomes, TypeOK
<1> QED
  BY <1>1, <1>2 DEF ToldInv, Told

LEMMA ToldConcludes ==
  ASSUME TypeOK, ToldInv, NEW c \in Callers, NEW how, how # "none", Concludes(c, how)
  PROVE  ToldInv'
<1>1. CASE call[c].script = NoScript
  BY <1>1, ToldBecomes DEF Concludes, Ends, NoCall
<1>2. CASE call[c].script # NoScript
  BY <1>2, ToldBecomes DEF Concludes, ToldInv, Told
<1> QED
  BY <1>1, <1>2

\* The pool answers who waits.
LEMMA ToldSettles ==
  ASSUME ToldInv, UNCHANGED <<pc, call>>,
         \A c \in Callers : outcome'[c] = outcome[c]
                            \/ (pc[c] = "waiting" /\ outcome'[c] # "none")
  PROVE  ToldInv'
  BY DEF ToldInv, Told

LEMMA ToldStep == TypeOK /\ OwnerInv /\ ToldInv /\ [Next]_vars => ToldInv'
<1> SUFFICES ASSUME TypeOK, OwnerInv, ToldInv, [Next]_vars PROVE ToldInv'
  OBVIOUS
<1>1. ASSUME UNCHANGED <<pc, call, outcome>> PROVE ToldInv'
  BY <1>1, ToldSettles
<1>2. ASSUME NEW s \in Scripts, Manage(s) PROVE ToldInv'
  BY <1>1, <1>2 DEF Manage, Create, Update, Publish, Archive, Session, callVars
<1>3. ASSUME NEW c \in Callers, Execute(c) PROVE ToldInv'
  <2>1. ASSUME NEW s \in Scripts, NEW mode \in {"test", "published"}, Fetch(c, s, mode)
        PROVE  ToldInv'
    BY <2>1, ToldBecomes, SandboxAssumption DEF Fetch
  <2>2. ASSUME NEW code \in Codes, Start(c, code) PROVE ToldInv'
    BY <2>2, ToldBecomes DEF Start, NoCall
  <2> QED
    BY <1>3, <2>1, <2>2 DEF Execute
<1>4. ASSUME NEW c \in Callers, Proceed(c) PROVE ToldInv'
  <2>1. CASE FailsAtOnce(c)
    BY <2>1, ToldConcludes DEF FailsAtOnce
  <2>2. CASE Submit(c)
    BY <2>2, ToldBecomes DEF Submit, ToldInv, Told
  <2>3. CASE Receive(c)
    BY <2>3, ToldConcludes DEF Receive
  <2>4. CASE TimesOut(c)
    BY <2>4, ToldConcludes DEF TimesOut
  <2>5. CASE Record(c)
    BY <2>5, ToldBecomes DEF Record, Ends, NoCall
  <2> QED
    BY <1>4, <2>1, <2>2, <2>3, <2>4, <2>5 DEF Proceed
<1>5. ASSUME NEW w \in Workers, Take(w) PROVE ToldInv'
  BY <1>1, <1>5 DEF Take, callVars
<1>6. CASE CannotSend
  <2>1. \A c \in Callers : Head(queue).owner = c => pc[c] = "waiting"
    BY <1>6, TailProperties DEF CannotSend, OwnerInv, Owned, Awaits
  <2> QED
    BY <1>6, <2>1, ToldSettles DEF CannotSend, Settles, TypeOK
<1>7. ASSUME NEW w \in Workers, Finish(w) PROVE ToldInv'
  <2>1. \A c \in Callers : worker[w].owner = c => pc[c] = "waiting"
    BY DEF OwnerInv, Owned, Awaits
  <2> QED
    BY <1>7, <2>1, ToldSettles DEF Finish, Settles, TypeOK
<1>8. CASE WorkerDies
  BY <1>8, ToldSettles DEF WorkerDies
<1>9. CASE Shutdown \/ ShutDown
  BY <1>1, <1>9 DEF Shutdown, ShutDown, callVars
<1>10. CASE UNCHANGED vars
  BY <1>1, <1>10 DEF vars, poolVars, callVars
<1> QED
  BY <1>2, <1>3, <1>4, <1>5, <1>6, <1>7, <1>8, <1>9, <1>10 DEF Next, PoolStep

-----------------------------------------------------------------------------
(* The steps of a call.  Each lemma is about one caller and what happens    *)
(* to it, whoever does it.                                                 *)

Same(c) ==
  pc'[c] = pc[c] /\ call'[c] = call[c] /\ outcome'[c] = outcome[c] /\ (Running(c)' <=> Running(c))

LEMMA CallStutters ==
  ASSUME NEW c \in Callers, Same(c)
  PROVE  UNCHANGED Execution(c)!vars
  BY DEF Same, Execution!vars

LEMMA CallIsAsked ==
  ASSUME TypeOK, TypeOK', NEW c \in Callers, pc[c] = "idle", pc'[c] = "ready",
         outcome'[c] = "none", ~Running(c)'
  PROVE  Execution(c)!Ask
  BY DEF TypeOK, Execution!Ask

LEMMA CallIsRun ==
  ASSUME TypeOK, NEW c \in Callers, pc[c] = "waiting", outcome[c] = "none",
         call[c].code \in {"good", "bad", "endless"}, ~Running(c), Running(c)',
         pc'[c] = pc[c], call'[c] = call[c], outcome'[c] = outcome[c]
  PROVE  Execution(c)!Run
  BY DEF Execution!Run

LEMMA CallSucceeds ==
  ASSUME NEW c \in Callers, pc[c] = "waiting", outcome[c] = "none", Running(c),
         call[c].code = "good", pc'[c] = pc[c], call'[c] = call[c], outcome'[c] = "success"
  PROVE  Execution(c)!Succeed
  BY DEF Execution!Succeed

LEMMA CallFails ==
  ASSUME NEW c \in Callers, pc[c] # "idle", outcome[c] = "none",
         pc'[c] # "idle", call'[c] = call[c], outcome'[c] = "failed"
  PROVE  Execution(c)!Fail
  BY DEF Execution!Fail

\* A call ends when its answer has been taken, or without one if it has a limit.
LEMMA CallEnds ==
  ASSUME TypeOK, NEW c \in Callers, pc[c] # "idle", pc'[c] = "idle",
         outcome[c] # "none" \/ call[c].mode = "timed"
  PROVE  Execution(c)!Leave \/ Execution(c)!GiveUp
<1>1. CASE outcome[c] # "none"
  BY <1>1 DEF TypeOK, Execution!Leave, Execution!Over, Execution!NoCode
<1>2. CASE outcome[c] = "none" /\ call[c].mode = "timed"
  BY <1>2 DEF Execution!GiveUp, Execution!Over, Execution!NoCode
<1> QED
  BY <1>1, <1>2

\* Who has an answer passes it on and then records it, or ends.
LEMMA CallConcludes ==
  ASSUME TypeOK, ToldInv, NEW c \in Callers, NEW how, Concludes(c, how),
         pc[c] \in {"ready", "waiting"},
         how = outcome[c] \/ (outcome[c] = "none" /\ how = "failed")
           \/ (call[c].mode = "timed" /\ how = "failed"),
         how # "none", ~Running(c) \/ call[c].mode = "timed", ~Running(c)'
  PROVE  [Execution(c)!Next]_(Execution(c)!vars)
<1>1. CASE call[c].script = NoScript
  <2>1. pc'[c] = "idle" /\ call[c].mode = "timed" /\ pc[c] # "idle"
    BY <1>1 DEF Concludes, Ends, Becomes, TypeOK, ToldInv, Told
  <2> QED
    BY <2>1, CallEnds DEF Execution!Next
<1>2. CASE call[c].script # NoScript
  <2>1. /\ pc'[c] = "recording" /\ call'[c] = call[c] /\ outcome'[c] = how
        /\ call[c].mode # "timed" /\ pc[c] # "idle" /\ ~Running(c)
    BY <1>2 DEF Concludes, Becomes, TypeOK, ToldInv, Told
  <2>2. CASE how = outcome[c]
    BY <2>1, <2>2 DEF Execution!vars
  <2>3. CASE outcome[c] = "none" /\ how = "failed"
    BY <2>1, <2>3, CallFails DEF Execution!Next
  <2> QED
    BY <2>1, <2>2, <2>3
<1> QED
  BY <1>1, <1>2

\* What a caller does is nothing to another one.
LEMMA OthersStand ==
  ASSUME TypeOK, NEW c \in Callers, NEW d \in Callers, c # d, Execute(d) \/ Proceed(d)
  PROVE  Same(c)
<1>1. pc'[c] = pc[c] /\ call'[c] = call[c] /\ outcome'[c] = outcome[c]
  <2>1. ASSUME NEW state, NEW what, NEW how, Becomes(d, state, what, how)
        PROVE  pc'[c] = pc[c] /\ call'[c] = call[c] /\ outcome'[c] = outcome[c]
    BY <2>1 DEF Becomes, TypeOK
  <2> QED
    BY <2>1 DEF Execute, Proceed, Fetch, Start, FailsAtOnce, Submit, Receive, TimesOut,
                Record, Concludes, Ends
<1>2. CASE TimesOut(d)
  <2>1. ASSUME NEW w \in Workers PROVE worker'[w].owner = c <=> worker[w].owner = c
    BY <1>2, SandboxAssumption DEF TimesOut, Disown, TypeOK
  <2> QED
    BY <1>1, <2>1 DEF Same, Running
<1>3. CASE ~TimesOut(d)
  <2>1. worker' = worker
    BY <1>3 DEF Execute, Proceed, Fetch, Start, FailsAtOnce, Submit, Receive, Record, poolVars
  <2> QED
    BY <1>1, <2>1 DEF Same, Running
<1> QED
  BY <1>2, <1>3

LEMMA ProceedIsAbstract ==
  ASSUME TypeOK, TypeOK', OwnerInv, OwnerInv', ToldInv, NEW c \in Callers, Proceed(c)
  PROVE  [Execution(c)!Next]_(Execution(c)!vars)
<1>0. pc[c] # "waiting" \/ outcome[c] # "none" => ~Running(c)
  BY NotWaiting DEF OwnsNothing, Running
<1>1. CASE FailsAtOnce(c)
  <2>1. worker' = worker /\ outcome[c] = "none" /\ pc[c] = "ready"
    BY <1>1 DEF FailsAtOnce, poolVars, ToldInv, Told
  <2>2. ~Running(c) /\ ~Running(c)'
    BY <1>0, <2>1 DEF Running
  <2> QED
    BY <1>1, <2>1, <2>2, CallConcludes DEF FailsAtOnce
<1>2. CASE Submit(c)
  <2>1. /\ worker' = worker /\ outcome[c] = "none" /\ pc[c] = "ready"
        /\ pc'[c] = "waiting" /\ call'[c] = call[c] /\ outcome'[c] = "none"
    BY <1>2 DEF Submit, ToldInv, Told, Becomes, TypeOK
  <2>2. Running(c)' <=> Running(c)
    BY <2>1 DEF Running
  <2> QED
    BY <2>1, <2>2 DEF Execution!vars
<1>3. CASE Receive(c)
  <2>1. worker' = worker /\ outcome[c] # "none" /\ pc[c] = "waiting"
    BY <1>3 DEF Receive, poolVars
  <2>2. ~Running(c) /\ ~Running(c)'
    BY <1>0, <2>1 DEF Running
  <2> QED
    BY <1>3, <2>1, <2>2, CallConcludes DEF Receive
<1>4. CASE TimesOut(c)
  <2>1. pc[c] = "waiting" /\ call[c].mode = "timed" /\ Concludes(c, "failed")
    BY <1>4 DEF TimesOut
  <2>2. ~Running(c)'
    <3>1. \A w \in Workers : worker'[w].owner # c
      BY <1>4, OwnerDisown DEF TimesOut
    <3> QED
      BY <3>1 DEF Running
  <2> QED
    BY <2>1, <2>2, CallConcludes
<1>5. CASE Record(c)
  <2>1. pc[c] = "recording" /\ outcome[c] # "none" /\ pc'[c] = "idle"
    BY <1>5 DEF Record, Ends, Becomes, TypeOK, ToldInv, Told
  <2> QED
    BY <2>1, CallEnds DEF Execution!Next
<1> QED
  BY <1>1, <1>2, <1>3, <1>4, <1>5 DEF Proceed

LEMMA ExecuteIsAbstract ==
  ASSUME TypeOK, TypeOK', OwnerInv, NEW c \in Callers, Execute(c)
  PROVE  [Execution(c)!Next]_(Execution(c)!vars)
<1>1. pc[c] = "idle" /\ pc'[c] = "ready" /\ outcome'[c] = "none" /\ worker' = worker
  BY DEF Execute, Fetch, Start, Becomes, TypeOK, poolVars
<1>2. ~Running(c)'
  BY <1>1, NotWaiting DEF OwnsNothing, Running
<1> QED
  BY <1>1, <1>2, CallIsAsked DEF Execution!Next

LEMMA TakeIsAbstract ==
  ASSUME TypeOK, OwnerInv, NEW c \in Callers, NEW w \in Workers, Take(w)
  PROVE  [Execution(c)!Next]_(Execution(c)!vars)
<1>1. /\ queue \in Seq(Items) /\ queue # << >> /\ 1 \in DOMAIN queue /\ Head(queue) = queue[1]
      /\ queue[1] \in Items
  <2>1. queue \in Seq(Items) /\ queue # << >>
    BY DEF Take, TypeOK, Items, Owners
  <2>2. Len(queue) \in Nat \ {0} /\ DOMAIN queue = 1..Len(queue)
    BY <2>1, EmptySeq, LenProperties
  <2>3. 1 \in 1..Len(queue)
    BY <2>2
  <2>4. queue[1] \in Items
    BY <2>1, <2>3, ElementOfSeq
  <2>5. Head(queue) = queue[1]
    BY <2>1
  <2> QED
    BY <2>1, <2>2, <2>3, <2>4, <2>5
<1>2. /\ worker'[w] = queue[1] /\ worker[w].owner = Nobody
      /\ \A v \in Workers \ {w} : worker'[v] = worker[v]
      /\ pc' = pc /\ call' = call /\ outcome' = outcome
  BY <1>1 DEF Take, TypeOK, callVars, Idle, Item
<1>3. CASE queue[1].owner = c
  <2>1. /\ pc[c] = "waiting" /\ outcome[c] = "none" /\ call[c].code = queue[1].code
        /\ ~Running(c) /\ Running(c)'
    BY <1>1, <1>2, <1>3 DEF OwnerInv, Owned, Once, Awaits, Running
  <2> QED
    BY <1>1, <1>2, <2>1, CallIsRun DEF Items, Execution!Next
<1>4. CASE queue[1].owner # c
  <2>1. Running(c)' <=> Running(c)
    BY <1>2, <1>4, SandboxAssumption DEF Running
  <2> QED
    BY <1>2, <2>1, CallStutters DEF Same
<1> QED
  BY <1>3, <1>4

LEMMA CannotSendIsAbstract ==
  ASSUME TypeOK, OwnerInv, NEW c \in Callers, CannotSend
  PROVE  [Execution(c)!Next]_(Execution(c)!vars)
<1>1. /\ 1 \in DOMAIN queue /\ Head(queue) = queue[1]
      /\ worker' = worker /\ pc' = pc /\ call' = call
  BY TailProperties DEF CannotSend
<1>2. CASE queue[1].owner = c
  <2>1. pc[c] = "waiting" /\ outcome[c] = "none"
    BY <1>1, <1>2 DEF OwnerInv, Owned, Awaits
  <2>2. outcome'[c] = "failed"
    BY <1>1, <1>2, SandboxAssumption DEF CannotSend, Settles, TypeOK
  <2> QED
    BY <1>1, <2>1, <2>2, CallFails DEF Execution!Next
<1>3. CASE queue[1].owner # c
  <2>1. outcome'[c] = outcome[c] /\ (Running(c)' <=> Running(c))
    BY <1>1, <1>3 DEF CannotSend, Settles, TypeOK, Running
  <2> QED
    BY <1>1, <2>1, CallStutters DEF Same
<1> QED
  BY <1>2, <1>3

LEMMA FinishIsAbstract ==
  ASSUME TypeOK, OwnerInv, NEW c \in Callers, NEW w \in Workers, Finish(w)
  PROVE  [Execution(c)!Next]_(Execution(c)!vars)
<1>1. /\ worker'[w] = Idle /\ Idle.owner = Nobody /\ pc' = pc /\ call' = call
      /\ \A v \in Workers \ {w} : worker'[v] = worker[v]
  BY DEF Finish, TypeOK, Idle, Item
<1>2. CASE worker[w].owner = c
  <2>1. pc[c] = "waiting" /\ outcome[c] = "none" /\ call[c].code = worker[w].code /\ Running(c)
    BY <1>2 DEF OwnerInv, Owned, Awaits, Running
  <2>2. outcome'[c] = IF call[c].code = "good" THEN "success" ELSE "failed"
    BY <1>2, <2>1, SandboxAssumption DEF Finish, Settles, TypeOK
  <2>3. CASE call[c].code = "good"
    BY <1>1, <2>1, <2>2, <2>3, CallSucceeds DEF Execution!Next
  <2>4. CASE call[c].code # "good"
    BY <1>1, <2>1, <2>2, <2>4, CallFails DEF Execution!Next
  <2> QED
    BY <2>3, <2>4
<1>3. CASE worker[w].owner # c
  <2>1. outcome'[c] = outcome[c]
    BY <1>3 DEF Finish, Settles, TypeOK
  <2>2. Running(c)' <=> Running(c)
    BY <1>1, <1>3, SandboxAssumption DEF Running
  <2> QED
    BY <1>1, <2>1, <2>2, CallStutters DEF Same
<1> QED
  BY <1>2, <1>3

\* Every future fails; a call that has its answer keeps it.
LEMMA WorkerDiesIsAbstract ==
  ASSUME TypeOK, OwnerInv, NEW c \in Callers, WorkerDies
  PROVE  [Execution(c)!Next]_(Execution(c)!vars)
<1>1. pc' = pc /\ call' = call
  BY DEF WorkerDies
<1>2. CASE pc[c] = "waiting" /\ outcome[c] = "none"
  <2>1. outcome'[c] = "failed"
    BY <1>2 DEF WorkerDies
  <2> QED
    BY <1>1, <1>2, <2>1, CallFails DEF Execution!Next
<1>3. CASE ~(pc[c] = "waiting" /\ outcome[c] = "none")
  <2>1. outcome'[c] = outcome[c]
    BY <1>3 DEF WorkerDies
  <2>2. ~Running(c) /\ ~Running(c)'
    BY <1>3, NotWaiting, SandboxAssumption DEF OwnsNothing, Running, WorkerDies, Idle, Item
  <2> QED
    BY <1>1, <2>1, <2>2, CallStutters DEF Same
<1> QED
  BY <1>2, <1>3

LEMMA ExecutionStep ==
  ASSUME TypeOK, TypeOK', OwnerInv, OwnerInv', ToldInv, [Next]_vars, NEW c \in Callers
  PROVE  [Execution(c)!Next]_(Execution(c)!vars)
<1>1. ASSUME UNCHANGED <<worker, pc, call, outcome>>
      PROVE  [Execution(c)!Next]_(Execution(c)!vars)
  BY <1>1, CallStutters DEF Same, Running
<1>2. ASSUME NEW s \in Scripts, Manage(s) PROVE [Execution(c)!Next]_(Execution(c)!vars)
  BY <1>1, <1>2 DEF Manage, Create, Update, Publish, Archive, Session, poolVars, callVars
<1>3. ASSUME NEW d \in Callers, Execute(d) \/ Proceed(d)
      PROVE  [Execution(c)!Next]_(Execution(c)!vars)
  BY <1>3, OthersStand, CallStutters, ExecuteIsAbstract, ProceedIsAbstract
<1>4. CASE Shutdown \/ ShutDown \/ UNCHANGED vars
  BY <1>1, <1>4 DEF Shutdown, ShutDown, vars, poolVars, callVars
<1> QED
  BY <1>2, <1>3, <1>4, TakeIsAbstract, CannotSendIsAbstract, FinishIsAbstract, WorkerDiesIsAbstract
     DEF Next, PoolStep

\* For every caller the sandbox implements a call that is run at most once, only when
\* it compiles, and answered with success only by its own code; whatever the other
\* callers, abandoned scripts, time limits and dying workers do.
THEOREM SandboxRunsCallsOnce == Safe => CallsAreRunOnce
<1>1. Init => \A c \in Callers : Execution(c)!Init
  BY DEF Init, Execution!Init, Execution!NoCode
<1>2. TypeOK /\ TypeOK' /\ OwnerInv /\ OwnerInv' /\ ToldInv /\ [Next]_vars =>
        [\A c \in Callers : [Execution(c)!Next]_(Execution(c)!vars)]_vars
  BY ExecutionStep
<1>3. Safe => [](TypeOK /\ OwnerInv /\ ToldInv)
  BY Always, ToldInit, ToldStep, PTL DEF Safe
<1> QED
  BY <1>1, <1>2, <1>3, PTL DEF Safe, CallsAreRunOnce

-----------------------------------------------------------------------------
(* No call is lost: why OthersGetThrough holds                             *)

Queued(c) == \E i \in DOMAIN queue : queue[i].owner = c
Unanswered(c) == pc[c] = "waiting" /\ outcome[c] = "none"

\* The converse of Owned: whoever waits has its script in the pool.
Held(c) == Unanswered(c) => Running(c) \/ Queued(c)

\* A pool that takes nothing more has nothing; a busy worker has a script of the queue.
PoolEmptied ==
  /\ \A w \in Workers : worker[w] = Idle \/ worker[w] \in Items
  /\ pool \in {"broken", "closed"} =>
       queue = << >> /\ \A w \in Workers : worker[w] = Idle

HeldInv == PoolEmptied /\ \A c \in Callers : Held(c)

LEMMA HeldInit == Init => HeldInv
  BY DEF Init, HeldInv, Held, Unanswered, PoolEmptied

\* What becomes of a caller that does not wait is no matter to the others.
LEMMA HeldBecomes ==
  ASSUME TypeOK, HeldInv, NEW c \in Callers, NEW state, NEW what, NEW how,
         Becomes(c, state, what, how), state # "waiting",
         \A d \in Callers \ {c} : Running(d) \/ Queued(d) => (Running(d) \/ Queued(d))'
  PROVE  \A d \in Callers : Held(d)'
<1>1. pc'[c] # "waiting"
  BY DEF Becomes, TypeOK
<1>2. \A d \in Callers \ {c} : pc'[d] = pc[d] /\ outcome'[d] = outcome[d]
  BY DEF Becomes, TypeOK
<1> QED
  BY <1>1, <1>2 DEF HeldInv, Held, Unanswered

LEMMA HeldConcludes ==
  ASSUME TypeOK, HeldInv, NEW c \in Callers, NEW how, Concludes(c, how),
         \A d \in Callers \ {c} : Running(d) \/ Queued(d) => (Running(d) \/ Queued(d))'
  PROVE  \A d \in Callers : Held(d)'
  BY HeldBecomes DEF Concludes, Ends

LEMMA PoolStands ==
  ASSUME HeldInv, UNCHANGED poolVars
  PROVE  PoolEmptied' /\ \A d \in Callers : (Running(d) <=> Running(d)') /\ (Queued(d) <=> Queued(d)')
  BY DEF HeldInv, PoolEmptied, poolVars, Running, Queued

\* Only the script of the caller that gives up loses its owner.
LEMMA HeldDisown ==
  ASSUME TypeOK, NEW c \in Callers, Disown(c), NEW d \in Callers, d # c,
         Running(d) \/ Queued(d)
  PROVE  (Running(d) \/ Queued(d))'
<1>1. CASE Running(d)
  <2>1. PICK w \in Workers : worker[w].owner = d
    BY <1>1 DEF Running
  <2>2. worker'[w].owner = d
    BY <2>1 DEF Disown
  <2> QED
    BY <2>2 DEF Running
<1>2. CASE Queued(d)
  <2>1. PICK i \in DOMAIN queue : queue[i].owner = d
    BY <1>2 DEF Queued
  <2>2. CASE queue' = [j \in DOMAIN queue |-> IF queue[j].owner = c
                                             THEN [queue[j] EXCEPT !.owner = Nobody]
                                             ELSE queue[j]]
    <3>1. i \in DOMAIN queue' /\ queue'[i].owner = d
      BY <2>1, <2>2
    <3> QED
      BY <3>1 DEF Queued
  <2>3. CASE \E j \in DOMAIN queue : queue[j].owner = c /\ queue' = RemoveAt(queue, j)
    <3>1. PICK j \in DOMAIN queue : queue[j].owner = c /\ queue' = RemoveAt(queue, j)
      BY <2>3
    <3>2. queue \in Seq(Items) /\ i # j
      BY <2>1, <3>1 DEF TypeOK, Items, Owners
    <3>3. /\ queue' \in Seq(Items) /\ Len(queue') = Len(queue) - 1
          /\ \A k \in 1..(Len(queue) - 1) : queue'[k] = queue[IF k < j THEN k ELSE k + 1]
      BY <3>1, <3>2, RemoveAtProperties
    <3>4. DOMAIN queue = 1..Len(queue) /\ DOMAIN queue' = 1..(Len(queue) - 1) /\ Len(queue) \in Nat
      BY <3>2, <3>3
    <3>5. CASE i < j
      <4>1. i \in DOMAIN queue' /\ queue'[i] = queue[i]
        BY <3>3, <3>4, <3>5
      <4> QED
        BY <2>1, <4>1 DEF Queued
    <3>6. CASE i > j
      <4>1. i - 1 \in 1..(Len(queue) - 1) /\ ~(i - 1 < j) /\ (i - 1) + 1 = i
        BY <3>4, <3>6
      <4>2. i - 1 \in DOMAIN queue' /\ queue'[i - 1] = queue[i]
        BY <3>3, <3>4, <4>1
      <4> QED
        BY <2>1, <4>2 DEF Queued
    <3> QED
      BY <3>2, <3>4, <3>5, <3>6
  <2> QED
    BY <2>2, <2>3 DEF Disown
<1> QED
  BY <1>1, <1>2

LEMMA HeldTimesOut ==
  ASSUME TypeOK, OwnerInv, HeldInv, NEW c \in Callers, TimesOut(c)
  PROVE  HeldInv'
<1>1. \A d \in Callers : Held(d)'
  BY HeldDisown, HeldConcludes DEF TimesOut
<1>2. queue \in Seq(Items) /\ worker \in [Workers -> Jobs] /\ Disown(c) /\ pool' = pool
  BY DEF TypeOK, TimesOut, Items, Jobs, Owners
<1>3. Idle.owner = Nobody /\ c # Nobody
  BY SandboxAssumption DEF Idle, Item
<1>4. ASSUME NEW w \in Workers
      PROVE  /\ worker'[w] = Idle \/ worker'[w] \in Items
             /\ worker[w] = Idle => worker'[w] = Idle
  <2>1. worker'[w] = worker[w]
        \/ (worker[w].owner = c /\ worker'[w] = [worker[w] EXCEPT !.owner = Nobody])
    BY <1>2 DEF Disown
  <2> QED
    BY <1>3, <2>1 DEF HeldInv, PoolEmptied, Items, Owners
<1>5. ASSUME queue = << >> PROVE queue' = << >>
  <2>1. DOMAIN queue = {}
    BY <1>5
  <2>2. queue' = [i \in DOMAIN queue |-> IF queue[i].owner = c
                                        THEN [queue[i] EXCEPT !.owner = Nobody] ELSE queue[i]]
    BY <1>2, <2>1 DEF Disown
  <2>3. queue' = [i \in {} |-> queue[i]]
    BY <2>1, <2>2
  <2>4. << >> = [i \in {} |-> queue[i]]
    BY <1>5, <1>2
  <2> QED
    BY <2>3, <2>4
<1> QED
  BY <1>1, <1>2, <1>4, <1>5 DEF HeldInv, PoolEmptied

LEMMA HeldSubmit ==
  ASSUME TypeOK, HeldInv, NEW c \in Callers, Submit(c)
  PROVE  HeldInv'
<1>1. /\ queue \in Seq(Items) /\ worker' = worker /\ pool' = pool /\ pool = "up"
      /\ queue' = Append(queue, Item(c, call[c].code))
  BY DEF Submit, TypeOK, Items, Owners
<1>2. /\ \A i \in DOMAIN queue : i \in DOMAIN queue' /\ queue'[i] = queue[i]
      /\ Len(queue) + 1 \in DOMAIN queue'
      /\ queue'[Len(queue) + 1] = Item(c, call[c].code)
  BY <1>1
<1>3. Queued(c)'
  BY <1>2 DEF Queued, Item
<1>4. \A d \in Callers \ {c} : pc'[d] = pc[d] /\ outcome'[d] = outcome[d]
  BY DEF Submit, Becomes, TypeOK
<1>5. \A d \in Callers : Running(d) \/ Queued(d) => (Running(d) \/ Queued(d))'
  BY <1>1, <1>2 DEF Running, Queued
<1>6. \A d \in Callers : Held(d)'
  BY <1>3, <1>4, <1>5 DEF HeldInv, Held, Unanswered
<1> QED
  BY <1>1, <1>6 DEF HeldInv, PoolEmptied

\* The head of the queue moves to the worker that takes it.
LEMMA HeldTake ==
  ASSUME TypeOK, HeldInv, NEW w \in Workers, Take(w)
  PROVE  HeldInv'
<1>1. /\ DOMAIN queue = 1..Len(queue) /\ Len(queue) \in Nat \ {0}
      /\ DOMAIN queue' = 1..(Len(queue) - 1)
      /\ \A i \in DOMAIN queue' : queue'[i] = queue[i + 1] /\ i + 1 \in DOMAIN queue
  BY TailProperties DEF Take
<1>2. /\ worker'[w] = queue[1] /\ worker[w].owner = Nobody /\ queue[1] \in Items
      /\ \A v \in Workers \ {w} : worker'[v] = worker[v]
      /\ UNCHANGED <<pc, outcome, pool>> /\ pool \in {"up", "closing"}
  <2>1. queue \in Seq(Items) /\ 1 \in 1..Len(queue)
    BY <1>1 DEF TypeOK, Items, Owners
  <2>2. queue[1] \in Items
    BY <2>1, ElementOfSeq
  <2> QED
    BY <2>2, TailProperties DEF Take, TypeOK, callVars, Idle, Item
<1>3. ASSUME NEW d \in Callers, Running(d) \/ Queued(d) PROVE (Running(d) \/ Queued(d))'
  <2>1. CASE Running(d)
    BY <1>2, <2>1, SandboxAssumption DEF Running
  <2>2. CASE Queued(d)
    <3>1. PICK i \in DOMAIN queue : queue[i].owner = d
      BY <2>2 DEF Queued
    <3>2. CASE i = 1
      BY <1>2, <3>1, <3>2 DEF Running
    <3>3. CASE i # 1
      <4>1. i - 1 \in DOMAIN queue' /\ queue'[i - 1] = queue[i]
        BY <1>1, <3>3
      <4> QED
        BY <3>1, <4>1 DEF Queued
    <3> QED
      BY <3>2, <3>3
  <2> QED
    BY <1>3, <2>1, <2>2
<1>4. PoolEmptied'
  BY <1>2 DEF HeldInv, PoolEmptied
<1>5. \A d \in Callers : Held(d)'
  BY <1>2, <1>3 DEF HeldInv, Held, Unanswered
<1> QED
  BY <1>4, <1>5 DEF HeldInv

\* Whose script leaves the pool has its answer.
LEMMA HeldCannotSend ==
  ASSUME TypeOK, HeldInv, CannotSend
  PROVE  HeldInv'
<1>1. /\ DOMAIN queue = 1..Len(queue) /\ Len(queue) \in Nat \ {0}
      /\ DOMAIN queue' = 1..(Len(queue) - 1) /\ Head(queue) = queue[1]
      /\ \A i \in DOMAIN queue' : queue'[i] = queue[i + 1] /\ i + 1 \in DOMAIN queue
      /\ UNCHANGED <<pc, pool, worker>> /\ pool \in {"up", "closing"}
  BY TailProperties DEF CannotSend
<1>2. \A d \in Callers : IF queue[1].owner = d THEN outcome'[d] = "failed"
                                              ELSE outcome'[d] = outcome[d]
  BY <1>1, SandboxAssumption DEF CannotSend, Settles, TypeOK
<1>3. ASSUME NEW d \in Callers, Held(d) PROVE Held(d)'
  <2>1. CASE queue[1].owner = d
    BY <1>2, <2>1 DEF Held, Unanswered
  <2>2. CASE queue[1].owner # d
    <3>1. Running(d) => Running(d)'
      BY <1>1 DEF Running
    <3>2. ASSUME Queued(d) PROVE Queued(d)'
      <4>1. PICK i \in DOMAIN queue : queue[i].owner = d
        BY <3>2 DEF Queued
      <4>2. i - 1 \in DOMAIN queue' /\ queue'[i - 1] = queue[i]
        BY <1>1, <2>2, <4>1
      <4> QED
        BY <4>1, <4>2 DEF Queued
    <3> QED
      BY <1>1, <1>2, <1>3, <2>2, <3>1, <3>2 DEF Held, Unanswered
  <2> QED
    BY <2>1, <2>2
<1>4. PoolEmptied'
  BY <1>1 DEF HeldInv, PoolEmptied
<1> QED
  BY <1>3, <1>4 DEF HeldInv

LEMMA HeldFinish ==
  ASSUME TypeOK, HeldInv, NEW w \in Workers, Finish(w)
  PROVE  HeldInv'
<1>1. /\ worker'[w] = Idle /\ \A v \in Workers \ {w} : worker'[v] = worker[v]
      /\ UNCHANGED <<queue, pool, pc>>
  BY DEF Finish, TypeOK
<1>2. \A d \in Callers : IF worker[w].owner = d THEN outcome'[d] # "none"
                                               ELSE outcome'[d] = outcome[d]
  BY SandboxAssumption DEF Finish, Settles, TypeOK
<1>3. ASSUME NEW d \in Callers, Held(d) PROVE Held(d)'
  <2>1. CASE worker[w].owner = d
    BY <1>2, <2>1 DEF Held, Unanswered
  <2>2. CASE worker[w].owner # d
    BY <1>1, <1>2, <1>3, <2>2 DEF Held, Unanswered, Running, Queued
  <2> QED
    BY <2>1, <2>2
<1>4. PoolEmptied'
  BY <1>1 DEF HeldInv, PoolEmptied
<1> QED
  BY <1>3, <1>4 DEF HeldInv

LEMMA HeldStep == TypeOK /\ OwnerInv /\ HeldInv /\ [Next]_vars => HeldInv'
<1> SUFFICES ASSUME TypeOK, OwnerInv, HeldInv, [Next]_vars PROVE HeldInv'
  OBVIOUS
<1>1. ASSUME UNCHANGED <<poolVars, callVars>> PROVE HeldInv'
  BY <1>1, PoolStands DEF HeldInv, Held, Unanswered, callVars
<1>2. ASSUME NEW s \in Scripts, Manage(s) PROVE HeldInv'
  BY <1>1, <1>2 DEF Manage, Create, Update, Publish, Archive, Session
<1>3. ASSUME NEW c \in Callers, Execute(c) PROVE HeldInv'
  BY <1>3, PoolStands, HeldBecomes DEF HeldInv, Execute, Fetch, Start
<1>4. ASSUME NEW c \in Callers, Proceed(c) PROVE HeldInv'
  <2>1. CASE FailsAtOnce(c)
    BY <2>1, PoolStands, HeldConcludes DEF HeldInv, FailsAtOnce
  <2>2. CASE Receive(c)
    BY <2>2, PoolStands, HeldConcludes DEF HeldInv, Receive
  <2>3. CASE Record(c)
    BY <2>3, PoolStands, HeldBecomes DEF HeldInv, Record, Ends
  <2> QED
    BY <1>4, <2>1, <2>2, <2>3, HeldSubmit, HeldTimesOut DEF Proceed
<1>5. CASE WorkerDies
  <2>1. \A d \in Callers : Held(d)'
    BY <1>5 DEF WorkerDies, Held, Unanswered
  <2>2. PoolEmptied'
    BY <1>5 DEF WorkerDies, PoolEmptied
  <2> QED
    BY <2>1, <2>2 DEF HeldInv
<1>6. CASE Shutdown \/ ShutDown
  <2>1. \A d \in Callers : Held(d)'
    BY <1>6 DEF Shutdown, ShutDown, HeldInv, Held, Unanswered, Running, Queued, callVars
  <2>2. PoolEmptied'
    BY <1>6 DEF Shutdown, ShutDown, HeldInv, PoolEmptied
  <2> QED
    BY <2>1, <2>2 DEF HeldInv
<1>7. CASE UNCHANGED vars
  BY <1>1, <1>7 DEF vars
<1> QED
  BY <1>2, <1>3, <1>4, <1>5, <1>6, <1>7, HeldTake, HeldCannotSend, HeldFinish DEF Next, PoolStep

\* Whoever waits has its script in the queue of a pool that works, or at a worker.
NothingLost ==
  \A c \in Callers :
    Unanswered(c) => pool \in {"up", "closing"} /\ (Running(c) \/ Queued(c))

\* Nothing a caller waits for gets lost, whatever others give up and whichever worker
\* dies; and a pool that is broken or shut down leaves nobody waiting.
THEOREM NoCallIsLost == Safe => []NothingLost
<1>1. TypeOK /\ HeldInv => NothingLost
  <2> SUFFICES ASSUME TypeOK, HeldInv, NEW c \in Callers, Unanswered(c)
               PROVE  pool \in {"up", "closing"} /\ (Running(c) \/ Queued(c))
    BY DEF NothingLost
  <2>1. Running(c) \/ Queued(c)
    BY DEF HeldInv, Held
  <2>2. Running(c) => \E w \in Workers : worker[w] # Idle
    BY SandboxAssumption DEF Running, Idle, Item
  <2>3. Queued(c) => queue # << >>
    BY DEF Queued
  <2>4. pool \in PoolStates
    BY DEF TypeOK
  <2> QED
    BY <2>1, <2>2, <2>3, <2>4 DEF HeldInv, PoolEmptied, PoolStates
<1> QED
  BY <1>1, Always, HeldInit, HeldStep, PTL DEF Safe

\* What moves the pool on: a script that returns, or a worker free to take the next.
PoolMoves ==
  \/ \E w \in Workers : worker[w].code \in {"good", "bad"}
  \/ pool \in {"up", "closing"} /\ queue # << >> /\ \E w \in Workers : worker[w] = Idle

OnlyEndlessHoldUp ==
  \A c \in Callers : Unanswered(c) /\ call[c].code # "endless" =>
    PoolMoves \/ \A w \in Workers : worker[w].code = "endless"

\* The safety core of OthersGetThrough: while a script that returns is waited for, the
\* guard of Finish or of Take holds, unless endless scripts hold every worker.  Neither
\* abandoned scripts nor a shutdown leave the pool idle over a queue.
THEOREM OnlyEndlessScriptsHoldUp == Safe => []OnlyEndlessHoldUp
<1>1. TypeOK /\ OwnerInv /\ HeldInv /\ NothingLost => OnlyEndlessHoldUp
  <2> SUFFICES ASSUME TypeOK, OwnerInv, HeldInv, NothingLost, NEW c \in Callers,
                      Unanswered(c), call[c].code # "endless",
                      NEW w \in Workers, worker[w].code # "endless"
               PROVE  PoolMoves
    BY DEF OnlyEndlessHoldUp
  <2>0. pool \in {"up", "closing"} /\ (Running(c) \/ Queued(c))
    BY DEF NothingLost
  <2>1. ASSUME NEW v \in Workers, worker[v] # Idle, worker[v].code # "endless" PROVE PoolMoves
    BY <2>1 DEF HeldInv, PoolEmptied, Items, PoolMoves
  <2>2. CASE Running(c)
    <3>1. PICK v \in Workers : worker[v].owner = c
      BY <2>2 DEF Running
    <3>2. worker[v] # Idle /\ worker[v].code = call[c].code
      BY <3>1, SandboxAssumption DEF Idle, Item, OwnerInv, Owned, Awaits
    <3> QED
      BY <2>1, <3>2
  <2>3. CASE Queued(c)
    <3>1. queue # << >>
      BY <2>3 DEF Queued
    <3>2. CASE worker[w] = Idle
      BY <2>0, <3>1, <3>2 DEF PoolMoves
    <3> QED
      BY <2>1, <3>2
  <2> QED
    BY <2>0, <2>2, <2>3
<1> QED
  BY <1>1, NoCallIsLost, Always, HeldInit, HeldStep, PTL DEF Safe

=============================================================================
