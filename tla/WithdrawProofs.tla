--------------------------- MODULE WithdrawProofs ---------------------------
(***************************************************************************)
(* The safety of Withdraw for any number of users, requests and calls in   *)
(* progress, any amounts and any number of crashes.                        *)
(***************************************************************************)
EXTENDS Withdraw, FiniteSetTheorems, TLAPS

\* No transfer of r is on its way or has arrived.
Dead(r) == \A k \in 1 .. Len(chain[r]) : chain[r][k] = "reverted"

\* Only transfer h of r can be, or become, a payment.
OnlyOne(r, h) ==
  /\ h \in 1 .. Len(chain[r])
  /\ \A k \in 1 .. Len(chain[r]) : k # h => chain[r][k] = "reverted"

\* A call that executes an approved request.
Executes == {"log", "load", "transfer", "save", "wait", "confirm", "fail", "markFailed"}

\* What a call j in progress on r can rely on, whatever the other calls do.
JobSound(j, r) ==
  /\ job[j].at # "idle"
  /\ job[j].hash <= Len(chain[r])
  /\ job[j].at \in {"check", "deduct"} =>
       /\ request[r].status = "NONE" /\ job[j].chips > 0
       /\ \A k \in Job : job[k].req = r => k = j
  /\ job[j].at \notin {"check", "deduct"} => request[r].status # "NONE"
  /\ job[j].at \in Executes => request[r].status # "PENDING"
  /\ job[j].at \in Executes \cup {"approve"} => ~job[j].reject
  /\ job[j].at \in {"approve", "log", "load", "transfer"} => job[j].hash = NoHash
  /\ job[j].at \in {"save", "wait", "confirm"} => job[j].hash # NoHash
  /\ job[j].at = "confirm" => chain[r][job[j].hash] = "mined"
  /\ job[j].at = "markRejected" => refunds[r] > 0

Repaying(j, r) == /\ job[j].req = r /\ job[j].at \in {"credit", "repay"}
                  /\ ~job[j].reject

RequestSound(r) ==
  /\ request[r].status = "CONFIRMED" =>
       \E k \in 1 .. Len(chain[r]) : chain[r][k] = "mined"
  /\ request[r].status = "FAILED" =>
       refunds[r] > 0 \/ r \in owed \/ \E j \in Job : Repaying(j, r)
  /\ r \in void => request[r].status # "NONE"

\* What one call relies on when it is the only one that acts on r.
Relies(j, r) ==
  /\ job[j].at = "approve" => request[r].status = "PENDING" /\ Dead(r) /\ refunds[r] = 0
  /\ job[j].at \in {"transfer", "markFailed"} =>
       request[r].status = "PROCESSING" /\ Dead(r) /\ refunds[r] = 0
  /\ job[j].at \in {"save", "wait", "confirm"} =>
       request[r].status = "PROCESSING" /\ OnlyOne(r, job[j].hash) /\ refunds[r] = 0
  /\ job[j].at \in {"wait", "confirm"} => request[r].hash # NoHash
  /\ job[j].at \in {"credit", "repay"} =>
       /\ request[r].status = IF job[j].reject THEN "PENDING" ELSE "FAILED"
       /\ Dead(r) /\ refunds[r] = 0
  /\ job[j].at = "markRejected" =>
       request[r].status = "PENDING" /\ Dead(r) /\ refunds[r] = 1

Acting(j, r) == job[j].req = r /\ job[j].at \in Committed

\* Where r stands while no call acts on it.
Rests(r) ==
  /\ request[r].status \in {"NONE", "PENDING"} => Dead(r) /\ refunds[r] = 0
  /\ request[r].status = "PROCESSING" =>
       /\ refunds[r] = 0
       /\ \/ Dead(r)
          \/ /\ request[r].hash # NoHash /\ \A j \in Job : job[j].req # r
             /\ \E h \in Nat : OnlyOne(r, h)
  /\ request[r].status = "CONFIRMED" =>
       refunds[r] = 0 /\ \E h \in Nat : OnlyOne(r, h) /\ chain[r][h] = "mined"
  /\ request[r].status = "FAILED" => Dead(r) /\ refunds[r] \in {0, 1}

\* Until a mishap one call at a time acts on a request.
PromiseSound(r) ==
  r \notin void =>
    /\ \A j, k \in Job : Acting(j, r) /\ Acting(k, r) => j = k
    /\ \A j \in Job : Acting(j, r) => Relies(j, r)
    /\ (\A j \in Job : ~Acting(j, r)) => Rests(r)

Good(r) ==
  /\ \A j \in Job : job[j].req = r => JobSound(j, r)
  /\ RequestSound(r)
  /\ PromiseSound(r)

IInv ==
  /\ TypeOK
  /\ \A j \in Job : job[j].req = NoRequest => job[j] = Idle
  /\ \A r \in Request : Good(r)

----------------------------------------------------------------------------

LEMMA IdleType == Idle \in Jobs /\ Idle.req = NoRequest /\ Idle.at = "idle"
BY DEF Idle, Jobs, At, NoHash

LEMMA InitIInv == Init => IInv
<1> SUFFICES ASSUME Init PROVE IInv
  OBVIOUS
<1>1. TypeOK
  <2>1. chips \in [User -> Nat]
    BY AmountAssumption DEF Init
  <2>4. job \in [Job -> Jobs] /\ crashes \in 0 .. MaxCrashes
    BY IdleType, CrashAssumption DEF Init
  <2>2. request \in [Request -> [status : Status, amount : Nat, hash : Nat]]
    BY DEF Init, Status, NoHash
  <2>3. chain \in [Request -> Seq(Transfers)]
    BY DEF Init
  <2> QED BY <2>1, <2>2, <2>3, <2>4 DEF Init, TypeOK
<1>2. ASSUME NEW r \in Request PROVE Good(r)
  BY RequestAssumption DEF Init, Idle, Good, RequestSound, PromiseSound, Acting, Committed,
     Rests, Dead
<1> QED BY <1>1, <1>2 DEF IInv, Init

\* Nothing that a promise about s rests on changes.
Same(s) ==
  /\ request'[s] = request[s] /\ chain'[s] = chain[s] /\ refunds'[s] = refunds[s]
  /\ s \in void' <=> s \in void
  /\ s \in owed => s \in owed'
  /\ \A j \in Job : job[j].req = s \/ job'[j].req = s => job'[j] = job[j]

LEMMA SameGood ==
  ASSUME NEW r \in Request, Good(r), Same(r)
  PROVE  Good(r)'
<1>1. Dead(r)' = Dead(r) /\ \A h : OnlyOne(r, h)' = OnlyOne(r, h)
  BY DEF Same, Dead, OnlyOne
<1>2. \A j \in Job : job'[j].req = r => JobSound(j, r)'
  BY DEF Same, Good, JobSound
<1>3. RequestSound(r)'
  BY DEF Same, Good, RequestSound, Repaying
<1>4. \A j \in Job : Acting(j, r)' = Acting(j, r)
  BY DEF Same, Acting
<1>5. \A j \in Job : Acting(j, r) => Relies(j, r)' = Relies(j, r)
  BY <1>1 DEF Same, Acting, Relies
<1>6. Rests(r)' = Rests(r)
  BY <1>1 DEF Same, Rests
<1>7. PromiseSound(r)'
  BY <1>4, <1>5, <1>6 DEF Good, PromiseSound, Same
<1> QED BY <1>2, <1>3, <1>7 DEF Good

\* A call works on a request until it ends.
LEMMA WorksOn ==
  ASSUME IInv, NEW j \in Job, job[j].at # "idle"
  PROVE  /\ job[j].req \in Request
         /\ Good(job[j].req) /\ JobSound(j, job[j].req)
         /\ TypeOK
BY DEF IInv, TypeOK, Jobs, Idle, Good

\* A step of one call on one request.
LEMMA OneRequest ==
  ASSUME IInv, TypeOK', NEW j \in Job, NEW r \in Request, job[j].req \in {r, NoRequest},
         NEW v, v.req = r \/ v = Idle, job' = [job EXCEPT ![j] = v],
         \A s \in Request \ {r} :
           request'[s] = request[s] /\ chain'[s] = chain[s] /\ refunds'[s] = refunds[s],
         void \subseteq void', void' \subseteq void \cup {r}, owed \subseteq owed',
         JobSound(j, r)' \/ v = Idle,
         \A k \in Job \ {j} : job[k].req = r => JobSound(k, r)',
         RequestSound(r)', PromiseSound(r)'
  PROVE  IInv'
<1>1. /\ job'[j] = v /\ \A k \in Job \ {j} : job'[k] = job[k]
      /\ Idle.req = NoRequest /\ NoRequest \notin Request
  BY RequestAssumption DEF IInv, TypeOK, Idle
<1>2. \A k \in Job : job'[k].req = NoRequest => job'[k] = Idle
  BY <1>1 DEF IInv
<1>3. ASSUME NEW s \in Request, s # r PROVE Same(s)
  BY <1>1, <1>3 DEF Same
<1>4. Good(r)'
  BY <1>1 DEF Good
<1>5. \A s \in Request : Good(s)'
  BY <1>3, <1>4, SameGood DEF IInv
<1> QED BY <1>2, <1>5 DEF IInv

\* What the requests do as the calls on them go on: nothing is taken back.
Onward(r) ==
  /\ request[r].status # "NONE" => request'[r].status # "NONE"
  /\ request[r].status \notin {"NONE", "PENDING"} =>
       request'[r].status \notin {"NONE", "PENDING"}
  /\ Len(chain'[r]) >= Len(chain[r])
  /\ \A k \in 1 .. Len(chain[r]) : chain[r][k] # "sent" => chain'[r][k] = chain[r][k]
  /\ refunds'[r] >= refunds[r]

LEMMA OnwardOthers ==
  ASSUME IInv, TypeOK', NEW j \in Job, NEW k \in Job \ {j}, NEW r \in Request,
         job[j].req = r, job[k].req = r, job'[k] = job[k], Onward(r)
  PROVE  JobSound(k, r)'
<1>1. JobSound(k, r) /\ TypeOK /\ job[k] \in Jobs
  BY DEF IInv, Good, TypeOK
<1>2. job[k].at \notin {"check", "deduct"}
  BY <1>1 DEF JobSound
<1>3. /\ chain[r] \in Seq(Transfers) /\ chain'[r] \in Seq(Transfers)
      /\ refunds[r] \in Nat /\ refunds'[r] \in Nat
      /\ request[r].status \in Status /\ job[k].hash \in Nat
  BY <1>1 DEF TypeOK, Jobs
<1>4. Len(chain[r]) \in Nat /\ Len(chain'[r]) \in Nat
  BY <1>3
<1>5. job[k].at = "confirm" => chain'[r][job[k].hash] = "mined"
  BY <1>1, <1>3, <1>4 DEF JobSound, Onward, NoHash
<1> QED BY <1>1, <1>2, <1>3, <1>4, <1>5 DEF JobSound, Onward, Executes

\* A step of call j on its request r.
LEMMA StepSound ==
  ASSUME IInv, TypeOK', NEW j \in Job, NEW r \in Request, job[j].req = r,
         NEW v, v.req = r \/ v = Idle, job' = [job EXCEPT ![j] = v],
         \A s \in Request \ {r} :
           request'[s] = request[s] /\ chain'[s] = chain[s] /\ refunds'[s] = refunds[s],
         void \subseteq void', void' \subseteq void \cup {r}, owed \subseteq owed',
         Onward(r), v = Idle \/ JobSound(j, r)', RequestSound(r)', PromiseSound(r)'
  PROVE  IInv'
<1>1. \A k \in Job \ {j} : job'[k] = job[k]
  BY DEF IInv, TypeOK
<1>2. \A k \in Job \ {j} : job[k].req = r => JobSound(k, r)'
  BY <1>1, OnwardOthers
<1> QED BY <1>2, OneRequest

\* As long as nothing goes wrong, a call that acts on r acts alone.
LEMMA ActsAlone ==
  ASSUME NEW r \in Request, Good(r), r \notin void, NEW j \in Job, Acting(j, r)
  PROVE  Relies(j, r) /\ \A k \in Job \ {j} : ~Acting(k, r)
BY DEF Good, PromiseSound

\* The call that acts is still at work, or leaves r at rest.
LEMMA ActorPromise ==
  ASSUME NEW r \in Request, NEW j \in Job, \A k \in Job \ {j} : job'[k] = job[k],
         r \notin void' => /\ \A k \in Job \ {j} : ~Acting(k, r)
                           /\ Acting(j, r)' => Relies(j, r)'
                           /\ ~(Acting(j, r)') => Rests(r)'
  PROVE  PromiseSound(r)'
<1>1. \A k \in Job \ {j} : Acting(k, r)' = Acting(k, r)
  BY DEF Acting
<1> QED BY <1>1 DEF PromiseSound

\* A call that does not act changes nothing that others rely on.
LEMMA BystanderPromise ==
  ASSUME NEW r \in Request, Good(r), NEW j \in Job, job[j].req = r,
         \A k \in Job \ {j} : job'[k] = job[k],
         ~Acting(j, r), ~(Acting(j, r)'),
         request'[r] = request[r], chain'[r] = chain[r], refunds'[r] = refunds[r],
         r \in void => r \in void'
  PROVE  PromiseSound(r)'
<1>1. Dead(r)' = Dead(r) /\ \A h : OnlyOne(r, h)' = OnlyOne(r, h)
  BY DEF Dead, OnlyOne
<1>2. \A k \in Job : Acting(k, r)' = Acting(k, r)
  BY DEF Acting
<1>3. \A k \in Job : Acting(k, r) /\ Relies(k, r) => Relies(k, r)'
  <2> SUFFICES ASSUME NEW k \in Job, Acting(k, r), Relies(k, r) PROVE Relies(k, r)'
    OBVIOUS
  <2>1. job'[k] = job[k]
    OBVIOUS
  <2> QED BY <1>1, <2>1 DEF Relies
<1>4. Rests(r) => Rests(r)'
  BY <1>1 DEF Rests
<1> QED BY <1>2, <1>3, <1>4 DEF Good, PromiseSound

LEMMA GoesTo ==
  ASSUME IInv, NEW j \in Job, NEW r \in Request, job[j].req = r, NEW at \in At,
         Goto(j, at)
  PROVE  \E v \in Jobs :
           /\ job' = [job EXCEPT ![j] = v] /\ job' \in [Job -> Jobs] /\ job'[j] = v
           /\ v.req = r /\ v.at = at
           /\ v.hash = job[j].hash /\ v.chips = job[j].chips /\ v.reject = job[j].reject
<1> DEFINE v == [job[j] EXCEPT !.at = at]
<1>1. job \in [Job -> Jobs] /\ job[j] \in Jobs /\ job' = [job EXCEPT ![j] = v]
  BY DEF IInv, TypeOK, Goto
<1>2. /\ v \in Jobs /\ v.req = r /\ v.at = at /\ v.hash = job[j].hash
      /\ v.chips = job[j].chips /\ v.reject = job[j].reject
  BY <1>1 DEF Jobs
<1> HIDE DEF v
<1> QED BY <1>1, <1>2

LEMMA EndsAll ==
  ASSUME IInv, NEW j \in Job, End(j)
  PROVE  /\ job' = [job EXCEPT ![j] = Idle] /\ job' \in [Job -> Jobs]
         /\ job'[j] = Idle /\ \A r \in Request : ~(Acting(j, r)')
BY IdleType, RequestAssumption DEF IInv, TypeOK, End, Acting

LEMMA StatusWritten ==
  ASSUME TypeOK, NEW r \in Request, NEW st \in Status,
         request' = [request EXCEPT ![r].status = st]
  PROVE  /\ request' \in [Request -> [status : Status, amount : Nat, hash : Nat]]
         /\ request'[r].status = st /\ request'[r].hash = request[r].hash
         /\ request'[r].amount = request[r].amount
         /\ \A s \in Request \ {r} : request'[s] = request[s]
<1> DEFINE w == [request[r] EXCEPT !.status = st]
<1>1. /\ request[r] \in [status : Status, amount : Nat, hash : Nat]
      /\ request' = [request EXCEPT ![r] = w]
  BY DEF TypeOK
<1>2. /\ w \in [status : Status, amount : Nat, hash : Nat] /\ w.status = st
      /\ w.hash = request[r].hash /\ w.amount = request[r].amount
  BY <1>1
<1> HIDE DEF w
<1> QED BY <1>1, <1>2 DEF TypeOK

\* Types and the history of r as arithmetic needs them.
LEMMA Measures ==
  ASSUME TypeOK, NEW r \in Request
  PROVE  /\ chain[r] \in Seq(Transfers) /\ Len(chain[r]) \in Nat
         /\ refunds[r] \in Nat /\ request[r].status \in Status
         /\ request[r].amount \in Nat /\ request[r].hash \in Nat
BY DEF TypeOK

LEMMA CheckAvailableSound ==
  ASSUME IInv, NEW j \in Job, NEW r \in Request, job[j].req = r, CheckAvailable(j)
  PROVE  IInv'
<1>1. Good(r) /\ JobSound(j, r) /\ TypeOK /\ job[j] \in Jobs
  BY WorksOn DEF CheckAvailable, TypeOK
<1>2. PICK v \in Jobs :
        /\ job' = [job EXCEPT ![j] = v]
        /\ \/ v = Idle
           \/ v = [job[j] EXCEPT !.at = "deduct"]
  BY <1>1, IdleType DEF CheckAvailable, Goto, End, Jobs, At
<1>3. /\ UNCHANGED <<chips, cooling, request, chain, refunds, void, owed, crashes>>
      /\ job[j].at = "check"
  BY DEF CheckAvailable
<1>4. v = Idle \/ (v.req = r /\ v.at = "deduct" /\ v.hash = job[j].hash /\ v.chips = job[j].chips)
  BY <1>1, <1>2 DEF Jobs
<1>5. TypeOK'
  BY <1>1, <1>2, <1>3 DEF TypeOK
<1>6. job'[j] = v /\ \A k \in Job \ {j} : job'[k] = job[k]
  BY <1>1, <1>2 DEF TypeOK
<1>7. v = Idle \/ JobSound(j, r)'
  BY <1>1, <1>3, <1>4, <1>6 DEF JobSound, Executes
<1>8. RequestSound(r)'
  BY <1>1, <1>3 DEF RequestSound, JobSound, Good
<1>9. PromiseSound(r)'
  <2>1. ~Acting(j, r) /\ ~(Acting(j, r)')
    BY <1>3, <1>4, <1>6, IdleType DEF Acting, Committed
  <2> QED BY <1>1, <1>3, <1>6, <2>1, BystanderPromise
<1>10. Onward(r)
  BY <1>1, <1>3 DEF Onward, TypeOK
<1> QED BY <1>2, <1>3, <1>4, <1>5, <1>7, <1>8, <1>9, <1>10, StepSound

\* If the wallet has less by now, the request is void from the start.
LEMMA DeductSound ==
  ASSUME IInv, NEW j \in Job, NEW r \in Request, job[j].req = r, Deduct(j)
  PROVE  IInv'
<1> DEFINE u == Owner[r]
           a == job[j].chips
<1>1. Good(r) /\ JobSound(j, r) /\ TypeOK /\ job[j] \in Jobs
  BY WorksOn DEF Deduct, TypeOK
<1>2. PICK v \in Jobs : v = [job[j] EXCEPT !.at = "cool"]
  BY <1>1 DEF Jobs, At
<1>3. /\ job[j].at = "deduct"
      /\ chips' = [chips EXCEPT ![u] = IF a > @ THEN 0 ELSE @ - a]
      /\ request' = [request EXCEPT ![r].status = "PENDING", ![r].amount = a]
      /\ job' = [job EXCEPT ![j] = v]
      /\ void \subseteq void' /\ void' \subseteq void \cup {r}
      /\ UNCHANGED <<cooling, chain, refunds, owed, crashes>>
  BY <1>2 DEF Deduct, VoidIf, Goto
<1>4. v.req = r /\ v.at = "cool" /\ v.hash = job[j].hash
  BY <1>1, <1>2 DEF Jobs
<1>5. job'[j] = v /\ \A k \in Job \ {j} : job'[k] = job[k]
  BY <1>1, <1>3 DEF TypeOK
<1>6. /\ request'[r].status = "PENDING"
      /\ \A s \in Request \ {r} : request'[s] = request[s]
  BY <1>1, <1>3 DEF TypeOK
<1>7. TypeOK'
  <2>1. a \in Nat /\ job' \in [Job -> Jobs]
    BY <1>1, <1>3 DEF Jobs, TypeOK
  <2>2. chips' \in [User -> Nat]
    <3>1. \A x \in Nat : (IF a > x THEN 0 ELSE x - a) \in Nat
      BY <2>1
    <3> QED BY <1>1, <1>3, <3>1 DEF TypeOK
  <2>3. request' \in [Request -> [status : Status, amount : Nat, hash : Nat]]
    <3>1. PICK w \in [status : Status, amount : Nat, hash : Nat] :
            w = [request[r] EXCEPT !.status = "PENDING", !.amount = a]
      BY <1>1, <2>1 DEF TypeOK, Status
    <3>2. request' = [request EXCEPT ![r] = w]
      BY <1>1, <1>3, <3>1 DEF TypeOK
    <3> QED BY <1>1, <3>2 DEF TypeOK
  <2> QED BY <1>1, <1>3, <2>1, <2>2, <2>3 DEF TypeOK
<1>8. JobSound(j, r)'
  BY <1>1, <1>3, <1>4, <1>5, <1>6 DEF JobSound, Executes
<1>9. RequestSound(r)'
  BY <1>6 DEF RequestSound
<1>10. PromiseSound(r)'
  <2>1. \A k \in Job : ~Acting(k, r) /\ ~(Acting(k, r)')
    BY <1>1, <1>3, <1>4, <1>5 DEF JobSound, Acting, Committed
  <2>2. r \notin void' => Rests(r)'
    <3>1. r \notin void' => Rests(r) /\ request[r].status = "NONE"
      BY <1>1, <1>3, <2>1 DEF Good, PromiseSound, JobSound
    <3> QED BY <1>3, <1>6, <3>1 DEF Rests, Dead
  <2> QED BY <2>1, <2>2 DEF PromiseSound
<1>11. Onward(r)
  BY <1>1, <1>3, <1>6 DEF Onward, TypeOK, JobSound
<1> QED BY <1>3, <1>4, <1>6, <1>7, <1>8, <1>9, <1>10, <1>11, StepSound

LEMMA SetCooldownSound ==
  ASSUME IInv, NEW j \in Job, NEW r \in Request, job[j].req = r, SetCooldown(j)
  PROVE  IInv'
<1>1. Good(r) /\ JobSound(j, r) /\ TypeOK
  BY WorksOn DEF SetCooldown
<1>2. /\ job[j].at = "cool" /\ End(j) /\ Owner[r] \in User
      /\ cooling' = cooling \cup {Owner[r]}
      /\ UNCHANGED <<chips, request, chain, refunds, void, owed, crashes>>
  BY RequestAssumption DEF SetCooldown
<1>3. /\ job' = [job EXCEPT ![j] = Idle] /\ job' \in [Job -> Jobs]
      /\ ~(Acting(j, r)') /\ \A k \in Job \ {j} : job'[k] = job[k]
  BY <1>1, <1>2, EndsAll DEF TypeOK
<1>4. TypeOK'
  BY <1>1, <1>2, <1>3 DEF TypeOK
<1>5. Onward(r)
  BY <1>1, <1>2, Measures DEF Onward
<1>6. RequestSound(r)'
  BY <1>1, <1>2, <1>3 DEF Good, RequestSound, Repaying
<1>7. PromiseSound(r)'
  <2>1. ~Acting(j, r)
    BY <1>2 DEF Acting, Committed
  <2> QED BY <1>1, <1>2, <1>3, <2>1, BystanderPromise
<1> QED BY <1>2, <1>3, <1>4, <1>5, <1>6, <1>7, StepSound

LEMMA ApproveSound ==
  ASSUME IInv, NEW j \in Job, NEW r \in Request, job[j].req = r, Approve(j)
  PROVE  IInv'
<1>1. Good(r) /\ JobSound(j, r) /\ TypeOK
  BY WorksOn DEF Approve
<1>2. /\ job[j].at = "approve" /\ Goto(j, "log")
      /\ request' = [request EXCEPT ![r].status = "PROCESSING"]
      /\ UNCHANGED <<chips, cooling, chain, refunds, void, owed, crashes>>
  BY DEF Approve
<1>3. PICK v \in Jobs :
        /\ job' = [job EXCEPT ![j] = v] /\ job' \in [Job -> Jobs] /\ job'[j] = v
        /\ v.req = r /\ v.at = "log" /\ v.hash = job[j].hash /\ v.reject = job[j].reject
  BY <1>2, GoesTo DEF At
<1>4. \A k \in Job \ {j} : job'[k] = job[k]
  BY <1>1, <1>3 DEF TypeOK
<1>5. /\ request' \in [Request -> [status : Status, amount : Nat, hash : Nat]]
      /\ request'[r].status = "PROCESSING"
      /\ \A s \in Request \ {r} : request'[s] = request[s]
  BY <1>1, <1>2, StatusWritten DEF Status
<1>6. TypeOK'
  BY <1>1, <1>2, <1>3, <1>5 DEF TypeOK
<1>7. Onward(r)
  BY <1>1, <1>2, <1>5, Measures DEF Onward
<1>8. JobSound(j, r)'
  BY <1>1, <1>2, <1>3, <1>5 DEF JobSound, Executes
<1>9. RequestSound(r)'
  BY <1>5 DEF RequestSound
<1>10. PromiseSound(r)'
  <2>1. Acting(j, r) /\ ~(Acting(j, r)')
    BY <1>2, <1>3 DEF Acting, Committed
  <2>2. ASSUME r \notin void'
        PROVE  Rests(r)' /\ \A k \in Job \ {j} : ~Acting(k, r)
    <3>1. Relies(j, r) /\ \A k \in Job \ {j} : ~Acting(k, r)
      BY <1>1, <1>2, <2>1, <2>2, ActsAlone
    <3>2. Dead(r) /\ refunds[r] = 0
      BY <1>2, <3>1 DEF Relies
    <3> QED BY <1>2, <1>5, <3>1, <3>2 DEF Rests, Dead
  <2> QED BY <1>4, <2>1, <2>2, ActorPromise
<1> QED BY <1>2, <1>3, <1>5, <1>6, <1>7, <1>8, <1>9, <1>10, StepSound

LEMMA LogApprovalSound ==
  ASSUME IInv, NEW j \in Job, NEW r \in Request, job[j].req = r, LogApproval(j)
  PROVE  IInv'
<1>1. Good(r) /\ JobSound(j, r) /\ TypeOK
  BY WorksOn DEF LogApproval
<1>2. /\ job[j].at = "log" /\ Goto(j, "load")
      /\ UNCHANGED <<chips, cooling, request, chain, refunds, void, owed, crashes>>
  BY DEF LogApproval
<1>3. PICK v \in Jobs :
        /\ job' = [job EXCEPT ![j] = v] /\ job' \in [Job -> Jobs] /\ job'[j] = v
        /\ v.req = r /\ v.at = "load" /\ v.hash = job[j].hash /\ v.reject = job[j].reject
  BY <1>2, GoesTo DEF At
<1>4. \A k \in Job \ {j} : job'[k] = job[k]
  BY <1>1, <1>3 DEF TypeOK
<1>5. TypeOK'
  BY <1>1, <1>2, <1>3 DEF TypeOK
<1>6. Onward(r)
  BY <1>1, <1>2, Measures DEF Onward
<1>7. JobSound(j, r)'
  BY <1>1, <1>2, <1>3 DEF JobSound, Executes
<1>8. RequestSound(r)'
  BY <1>1, <1>2, <1>4 DEF Good, RequestSound, Repaying
<1>9. PromiseSound(r)'
  <2>1. ~Acting(j, r) /\ ~(Acting(j, r)')
    BY <1>2, <1>3 DEF Acting, Committed
  <2> QED BY <1>1, <1>2, <1>4, <2>1, BystanderPromise
<1> QED BY <1>2, <1>3, <1>5, <1>6, <1>7, <1>8, <1>9, StepSound

LEMMA MarkRejectedSound ==
  ASSUME IInv, NEW j \in Job, NEW r \in Request, job[j].req = r, MarkRejected(j)
  PROVE  IInv'
<1>1. Good(r) /\ JobSound(j, r) /\ TypeOK
  BY WorksOn DEF MarkRejected
<1>2. /\ job[j].at = "markRejected" /\ End(j)
      /\ request' = [request EXCEPT ![r].status = "FAILED"]
      /\ UNCHANGED <<chips, cooling, chain, refunds, void, owed, crashes>>
  BY DEF MarkRejected
<1>3. /\ job' = [job EXCEPT ![j] = Idle] /\ job' \in [Job -> Jobs]
      /\ ~(Acting(j, r)') /\ \A k \in Job \ {j} : job'[k] = job[k]
  BY <1>1, <1>2, EndsAll DEF TypeOK
<1>4. /\ request' \in [Request -> [status : Status, amount : Nat, hash : Nat]]
      /\ request'[r].status = "FAILED"
      /\ \A s \in Request \ {r} : request'[s] = request[s]
  BY <1>1, <1>2, StatusWritten DEF Status
<1>5. TypeOK'
  BY <1>1, <1>2, <1>3, <1>4 DEF TypeOK
<1>6. Onward(r)
  BY <1>1, <1>2, <1>4, Measures DEF Onward
<1>7. RequestSound(r)'
  BY <1>1, <1>2, <1>4 DEF RequestSound, JobSound
<1>8. PromiseSound(r)'
  <2>1. Acting(j, r)
    BY <1>2 DEF Acting, Committed
  <2>2. ASSUME r \notin void'
        PROVE  Rests(r)' /\ \A k \in Job \ {j} : ~Acting(k, r)
    <3>1. Relies(j, r) /\ \A k \in Job \ {j} : ~Acting(k, r)
      BY <1>1, <1>2, <2>1, <2>2, ActsAlone
    <3>2. Dead(r) /\ refunds[r] = 1
      BY <1>2, <3>1 DEF Relies
    <3> QED BY <1>2, <1>4, <3>1, <3>2 DEF Rests, Dead
  <2> QED BY <1>3, <2>1, <2>2, ActorPromise
<1> QED BY <1>2, <1>3, <1>4, <1>5, <1>6, <1>7, <1>8, StepSound

LEMMA ReadBalanceSound ==
  ASSUME IInv, NEW j \in Job, NEW r \in Request, job[j].req = r, ReadBalance(j)
  PROVE  IInv'
<1> DEFINE c == chips[Owner[r]]
           v == [job[j] EXCEPT !.at = "repay", !.chips = c]
<1>1. Good(r) /\ JobSound(j, r) /\ TypeOK /\ job[j] \in Jobs /\ job \in [Job -> Jobs]
  BY WorksOn DEF ReadBalance, TypeOK
<1>2. /\ job[j].at = "credit" /\ job' = [job EXCEPT ![j] = v]
      /\ UNCHANGED <<chips, cooling, request, chain, refunds, void, owed, crashes>>
  BY <1>1 DEF ReadBalance
<1>3. c \in Nat
  BY <1>1, RequestAssumption DEF TypeOK
<1>4. v \in Jobs /\ v.req = r /\ v.at = "repay" /\ v.hash = job[j].hash /\ v.reject = job[j].reject
  BY <1>1, <1>3 DEF Jobs, At
<1> HIDE DEF v
<1>5. job'[j] = v /\ \A k \in Job \ {j} : job'[k] = job[k]
  BY <1>1, <1>2
<1>6. TypeOK'
  BY <1>1, <1>2, <1>4 DEF TypeOK
<1>7. Onward(r)
  BY <1>1, <1>2, Measures DEF Onward
<1>8. JobSound(j, r)'
  BY <1>1, <1>2, <1>4, <1>5 DEF JobSound, Executes
<1>9. RequestSound(r)'
  BY <1>1, <1>2, <1>4, <1>5 DEF Good, RequestSound, Repaying
<1>10. PromiseSound(r)'
  <2>1. Acting(j, r) /\ Acting(j, r)'
    BY <1>2, <1>4, <1>5 DEF Acting, Committed
  <2>2. ASSUME r \notin void'
        PROVE  Relies(j, r)' /\ \A k \in Job \ {j} : ~Acting(k, r)
    <3>1. Relies(j, r) /\ \A k \in Job \ {j} : ~Acting(k, r)
      BY <1>1, <1>2, <2>1, <2>2, ActsAlone
    <3> QED BY <1>2, <1>4, <1>5, <3>1 DEF Relies, Dead
  <2> QED BY <1>5, <2>1, <2>2, ActorPromise
<1> QED BY <1>2, <1>4, <1>6, <1>7, <1>8, <1>9, <1>10, StepSound

LEMMA RepaySound ==
  ASSUME IInv, NEW j \in Job, NEW r \in Request, job[j].req = r, Repay(j)
  PROVE  IInv'
<1>1. Good(r) /\ JobSound(j, r) /\ TypeOK /\ job[j] \in Jobs
  BY WorksOn DEF Repay, TypeOK
<1>2. /\ job[j].at = "repay"
      /\ chips' = [chips EXCEPT ![Owner[r]] = job[j].chips + request[r].amount]
      /\ refunds' = [refunds EXCEPT ![r] = refunds[r] + 1]
      /\ IF job[j].reject THEN Goto(j, "markRejected") ELSE End(j)
      /\ void \subseteq void' /\ void' \subseteq void \cup {r}
      /\ UNCHANGED <<cooling, request, chain, owed, crashes>>
  BY <1>1 DEF Repay, VoidIf, TypeOK
<1>0. \E v \in Jobs :
        /\ job' = [job EXCEPT ![j] = v] /\ job' \in [Job -> Jobs] /\ job'[j] = v
        /\ \/ ~job[j].reject /\ v = Idle
           \/ /\ job[j].reject /\ v.req = r /\ v.at = "markRejected" /\ v.reject
              /\ v.hash = job[j].hash
  <2>1. ASSUME job[j].reject PROVE <1>0
    BY <1>2, <2>1, GoesTo DEF At
  <2>2. ASSUME ~job[j].reject PROVE <1>0
    BY <1>2, <2>2, EndsAll, IdleType
  <2> QED BY <2>1, <2>2
<1>3. PICK v \in Jobs :
        /\ job' = [job EXCEPT ![j] = v] /\ job' \in [Job -> Jobs] /\ job'[j] = v
        /\ \/ ~job[j].reject /\ v = Idle
           \/ /\ job[j].reject /\ v.req = r /\ v.at = "markRejected" /\ v.reject
              /\ v.hash = job[j].hash
  BY <1>0
<1>4. \A k \in Job \ {j} : job'[k] = job[k]
  BY <1>1, <1>3 DEF TypeOK
<1>5. /\ refunds[r] \in Nat /\ refunds'[r] = refunds[r] + 1 /\ refunds' \in [Request -> Nat]
      /\ \A s \in Request \ {r} : refunds'[s] = refunds[s]
  <2>1. refunds[r] \in Nat /\ refunds[r] + 1 \in Nat /\ refunds \in [Request -> Nat]
    BY <1>1 DEF TypeOK
  <2> QED BY <1>2, <2>1
<1>6. TypeOK'
  <2>1. job[j].chips + request[r].amount \in Nat /\ Owner[r] \in User
    BY <1>1, Measures, RequestAssumption DEF Jobs
  <2>2. chips' \in [User -> Nat]
    BY <1>1, <1>2, <2>1 DEF TypeOK
  <2> QED BY <1>1, <1>2, <1>3, <1>5, <2>2 DEF TypeOK
<1>7. Onward(r)
  BY <1>1, <1>2, <1>5, Measures DEF Onward
<1>8. v = Idle \/ JobSound(j, r)'
  BY <1>1, <1>2, <1>3, <1>5 DEF JobSound, Executes
<1>9. RequestSound(r)'
  <2>1. r \in void' => request[r].status # "NONE"
    BY <1>1, <1>2 DEF JobSound
  <2> QED BY <1>1, <1>2, <1>5, <2>1 DEF Good, RequestSound
<1>10. PromiseSound(r)'
  <2>1. Acting(j, r)
    BY <1>2 DEF Acting, Committed
  <2>2. ASSUME r \notin void'
        PROVE  /\ \A k \in Job \ {j} : ~Acting(k, r)
               /\ Acting(j, r)' => Relies(j, r)'
               /\ ~(Acting(j, r)') => Rests(r)'
    <3>1. Relies(j, r) /\ \A k \in Job \ {j} : ~Acting(k, r)
      BY <1>1, <1>2, <2>1, <2>2, ActsAlone
    <3>2. /\ request[r].status = IF job[j].reject THEN "PENDING" ELSE "FAILED"
          /\ Dead(r)' /\ refunds'[r] = 1
      BY <1>2, <1>5, <3>1 DEF Relies, Dead
    <3>3. ASSUME job[j].reject PROVE Acting(j, r)' /\ Relies(j, r)'
      BY <1>2, <1>3, <3>2, <3>3 DEF Acting, Committed, Relies, Idle
    <3>4. ASSUME ~job[j].reject PROVE ~(Acting(j, r)') /\ Rests(r)'
      BY <1>2, <1>3, <3>2, <3>4, IdleType DEF Acting, Committed, Rests
    <3> QED BY <3>1, <3>3, <3>4
  <2> QED BY <1>4, <2>2, ActorPromise
<1> QED BY <1>2, <1>3, <1>5, <1>6, <1>7, <1>8, <1>9, <1>10, StepSound

\* A call that finds r in the status it needs, and goes on to act on it, is the
\* only one, or r is void.
LEMMA CommitAlone ==
  ASSUME NEW r \in Request, Good(r), NEW j \in Job, ~Acting(j, r), Commit(j, r), TypeOK
  PROVE  /\ void \subseteq void' /\ void' \subseteq void \cup {r}
         /\ r \notin void' => Rests(r) /\ \A k \in Job \ {j} : ~Acting(k, r)
<1>1. void \subseteq void' /\ void' \subseteq void \cup {r}
  BY DEF Commit, VoidIf
<1>2. ASSUME r \notin void' PROVE r \notin void /\ \A k \in Job \ {j} : ~Acting(k, r)
  BY <1>2 DEF Commit, VoidIf, On, Acting
<1> QED BY <1>1, <1>2 DEF Good, PromiseSound

LEMMA LoadSound ==
  ASSUME IInv, NEW j \in Job, NEW r \in Request, job[j].req = r, Load(j)
  PROVE  IInv'
<1>1. Good(r) /\ JobSound(j, r) /\ TypeOK
  BY WorksOn DEF Load
<1>2. /\ job[j].at = "load"
      /\ UNCHANGED <<chips, cooling, request, chain, refunds, owed, crashes>>
      /\ ~Acting(j, r)
  BY DEF Load, Acting, Committed
<1>3. \E v \in Jobs :
        /\ job' = [job EXCEPT ![j] = v] /\ job' \in [Job -> Jobs] /\ job'[j] = v
        /\ v.req = r /\ v.hash = job[j].hash /\ v.reject = job[j].reject
        /\ \/ request[r].status = "PROCESSING" /\ v.at = "transfer" /\ Commit(j, r)
           \/ request[r].status # "PROCESSING" /\ v.at = "fail" /\ void' = void
  <2>1. ASSUME request[r].status = "PROCESSING" PROVE <1>3
    <3>1. Goto(j, "transfer") /\ Commit(j, r)
      BY <2>1 DEF Load
    <3> QED BY <2>1, <3>1, GoesTo DEF At
  <2>2. ASSUME request[r].status # "PROCESSING" PROVE <1>3
    <3>1. Goto(j, "fail") /\ void' = void
      BY <2>2 DEF Load
    <3> QED BY <2>2, <3>1, GoesTo DEF At
  <2> QED BY <2>1, <2>2
<1>4. PICK v \in Jobs :
        /\ job' = [job EXCEPT ![j] = v] /\ job' \in [Job -> Jobs] /\ job'[j] = v
        /\ v.req = r /\ v.hash = job[j].hash /\ v.reject = job[j].reject
        /\ \/ request[r].status = "PROCESSING" /\ v.at = "transfer" /\ Commit(j, r)
           \/ request[r].status # "PROCESSING" /\ v.at = "fail" /\ void' = void
  BY <1>3
<1>5. \A k \in Job \ {j} : job'[k] = job[k]
  BY <1>1, <1>4 DEF TypeOK
<1>6. void \subseteq void' /\ void' \subseteq void \cup {r}
  BY <1>1, <1>2, <1>4, CommitAlone
<1>7. TypeOK'
  BY <1>1, <1>2, <1>4, <1>6 DEF TypeOK
<1>8. Onward(r)
  BY <1>1, <1>2, Measures DEF Onward
<1>9. JobSound(j, r)'
  BY <1>1, <1>2, <1>4 DEF JobSound, Executes
<1>10. RequestSound(r)'
  BY <1>1, <1>2, <1>4, <1>5, <1>6 DEF Good, RequestSound, Repaying, JobSound
<1>11. PromiseSound(r)'
  <2>1. ASSUME request[r].status = "PROCESSING" PROVE PromiseSound(r)'
    <3>1. v.at = "transfer" /\ Acting(j, r)'
      BY <1>4, <2>1 DEF Acting, Committed
    <3>2. ASSUME r \notin void' PROVE Relies(j, r)' /\ \A k \in Job \ {j} : ~Acting(k, r)
      <4>1. Rests(r) /\ \A k \in Job \ {j} : ~Acting(k, r)
        BY <1>1, <1>2, <1>4, <2>1, <3>2, CommitAlone
      <4>2. Dead(r) /\ refunds[r] = 0
        BY <2>1, <4>1 DEF Rests
      <4> QED BY <1>2, <1>4, <2>1, <3>1, <4>1, <4>2 DEF Relies, Dead
    <3> QED BY <1>5, <3>1, <3>2, ActorPromise
  <2>2. ASSUME request[r].status # "PROCESSING" PROVE PromiseSound(r)'
    <3>1. ~(Acting(j, r)') /\ void' = void
      BY <1>4, <2>2 DEF Acting, Committed
    <3> QED BY <1>1, <1>2, <1>5, <3>1, BystanderPromise
  <2> QED BY <2>1, <2>2
<1> QED BY <1>2, <1>4, <1>6, <1>7, <1>8, <1>9, <1>10, <1>11, StepSound

LEMMA TransferSound ==
  ASSUME IInv, NEW j \in Job, NEW r \in Request, job[j].req = r, Transfer(j)
  PROVE  IInv'
<1>0. PICK n \in Nat : n = Len(chain[r]) + 1
  <2>1. chain[r] \in Seq(Transfers)
    BY DEF IInv, TypeOK
  <2> QED BY <2>1
<1> DEFINE v == [job[j] EXCEPT !.at = "save", !.hash = n]
<1>1. /\ Good(r) /\ JobSound(j, r) /\ TypeOK /\ job[j] \in Jobs /\ job \in [Job -> Jobs]
      /\ chain \in [Request -> Seq(Transfers)] /\ chain[r] \in Seq(Transfers)
      /\ Len(chain[r]) \in Nat
  BY WorksOn DEF Transfer, TypeOK
<1>2. /\ job[j].at = "transfer" /\ job' = [job EXCEPT ![j] = v]
      /\ chain' = [chain EXCEPT ![r] = Append(chain[r], "sent")]
      /\ UNCHANGED <<chips, cooling, request, refunds, void, owed, crashes>>
  BY <1>0, <1>1 DEF Transfer
<1>3. v \in Jobs /\ v.req = r /\ v.at = "save" /\ v.hash = n /\ v.reject = job[j].reject
  BY <1>0, <1>1 DEF Jobs, At
<1> HIDE DEF v
<1>4. /\ job'[j] = v /\ \A k \in Job \ {j} : job'[k] = job[k]
      /\ \A s \in Request \ {r} : chain'[s] = chain[s]
      /\ chain'[r] = Append(chain[r], "sent")
  BY <1>1, <1>2
<1>5. /\ chain'[r] \in Seq(Transfers) /\ Len(chain'[r]) = n
      /\ \A k \in 1 .. Len(chain[r]) : chain'[r][k] = chain[r][k]
  BY <1>0, <1>1, <1>4 DEF Transfers
<1>6. TypeOK'
  <2>1. chain' \in [Request -> Seq(Transfers)]
    BY <1>1, <1>2, <1>4, <1>5
  <2> QED BY <1>1, <1>2, <1>3, <2>1 DEF TypeOK
<1>7. Onward(r)
  BY <1>0, <1>1, <1>2, <1>5, Measures DEF Onward
<1>8. JobSound(j, r)'
  BY <1>0, <1>1, <1>2, <1>3, <1>4, <1>5 DEF JobSound, Executes, NoHash
<1>9. RequestSound(r)'
  <2>1. ASSUME request[r].status = "CONFIRMED"
        PROVE  \E k \in 1 .. n : chain'[r][k] = "mined"
    <3>1. PICK k \in 1 .. Len(chain[r]) : chain[r][k] = "mined"
      BY <1>1, <2>1 DEF Good, RequestSound
    <3>2. k \in 1 .. n
      BY <1>0, <1>1, <3>1
    <3>3. chain'[r][k] = "mined"
      BY <1>5, <3>1
    <3> QED BY <3>2, <3>3
  <2> QED BY <1>1, <1>2, <1>4, <1>5, <2>1 DEF Good, RequestSound, Repaying
<1>10. PromiseSound(r)'
  <2>1. Acting(j, r) /\ Acting(j, r)'
    BY <1>2, <1>3, <1>4 DEF Acting, Committed
  <2>2. ASSUME r \notin void'
        PROVE  Relies(j, r)' /\ \A k \in Job \ {j} : ~Acting(k, r)
    <3>1. Relies(j, r) /\ \A k \in Job \ {j} : ~Acting(k, r)
      BY <1>1, <1>2, <2>1, <2>2, ActsAlone
    <3>2. request[r].status = "PROCESSING" /\ Dead(r) /\ refunds[r] = 0
      BY <1>2, <3>1 DEF Relies
    <3>3. OnlyOne(r, n)'
      BY <1>0, <1>1, <1>5, <3>2 DEF OnlyOne, Dead
    <3>4. OnlyOne(r, job[j].hash)'
      BY <1>3, <1>4, <3>3
    <3> QED BY <1>2, <1>3, <1>4, <3>1, <3>2, <3>4 DEF Relies
  <2> QED BY <1>4, <2>1, <2>2, ActorPromise
<1> QED BY <1>2, <1>3, <1>4, <1>6, <1>7, <1>8, <1>9, <1>10, StepSound

LEMMA SaveHashSound ==
  ASSUME IInv, NEW j \in Job, NEW r \in Request, job[j].req = r, SaveHash(j)
  PROVE  IInv'
<1> DEFINE w == [request[r] EXCEPT !.hash = job[j].hash]
<1>1. Good(r) /\ JobSound(j, r) /\ TypeOK /\ job[j] \in Jobs
  BY WorksOn DEF SaveHash, TypeOK
<1>2. /\ job[j].at = "save" /\ Goto(j, "wait") /\ job[j].hash \in Nat /\ job[j].hash # NoHash
      /\ request' = [request EXCEPT ![r] = w]
      /\ w \in [status : Status, amount : Nat, hash : Nat]
      /\ w.status = request[r].status /\ w.hash = job[j].hash
      /\ UNCHANGED <<chips, cooling, chain, refunds, void, owed, crashes>>
  <2>1. request[r] \in [status : Status, amount : Nat, hash : Nat]
    BY <1>1 DEF TypeOK
  <2> QED BY <1>1, <2>1 DEF SaveHash, JobSound, Jobs
<1> HIDE DEF w
<1>3. PICK v \in Jobs :
        /\ job' = [job EXCEPT ![j] = v] /\ job' \in [Job -> Jobs] /\ job'[j] = v
        /\ v.req = r /\ v.at = "wait" /\ v.hash = job[j].hash /\ v.reject = job[j].reject
  BY <1>2, GoesTo DEF At
<1>4. /\ \A k \in Job \ {j} : job'[k] = job[k]
      /\ request'[r] = w /\ \A s \in Request \ {r} : request'[s] = request[s]
      /\ request' \in [Request -> [status : Status, amount : Nat, hash : Nat]]
  BY <1>1, <1>2, <1>3 DEF TypeOK
<1>5. TypeOK'
  BY <1>1, <1>2, <1>3, <1>4 DEF TypeOK
<1>6. Onward(r)
  BY <1>1, <1>2, <1>4, Measures DEF Onward
<1>7. JobSound(j, r)'
  BY <1>1, <1>2, <1>3, <1>4 DEF JobSound, Executes
<1>8. RequestSound(r)'
  BY <1>1, <1>2, <1>3, <1>4 DEF Good, RequestSound, Repaying
<1>9. PromiseSound(r)'
  <2>1. Acting(j, r) /\ Acting(j, r)'
    BY <1>2, <1>3 DEF Acting, Committed
  <2>2. ASSUME r \notin void'
        PROVE  Relies(j, r)' /\ \A k \in Job \ {j} : ~Acting(k, r)
    <3>1. Relies(j, r) /\ \A k \in Job \ {j} : ~Acting(k, r)
      BY <1>1, <1>2, <2>1, <2>2, ActsAlone
    <3> QED BY <1>2, <1>3, <1>4, <3>1 DEF Relies, OnlyOne
  <2> QED BY <1>4, <2>1, <2>2, ActorPromise
<1> QED BY <1>2, <1>3, <1>4, <1>5, <1>6, <1>7, <1>8, <1>9, StepSound

\* A transfer that has reverted pays nobody: if it was the only one, r is unpaid.
LEMMA RevertedIsDead ==
  ASSUME NEW r, NEW h, OnlyOne(r, h), chain[r][h] = "reverted"
  PROVE  Dead(r)
BY DEF OnlyOne, Dead

LEMMA WaitSound ==
  ASSUME IInv, NEW j \in Job, NEW r \in Request, job[j].req = r, Wait(j)
  PROVE  IInv'
<1>1. Good(r) /\ JobSound(j, r) /\ TypeOK
  BY WorksOn DEF Wait
<1>2. /\ job[j].at = "wait"
      /\ UNCHANGED <<chips, cooling, request, chain, refunds, void, owed, crashes>>
  BY DEF Wait
<1>3. \E v \in Jobs :
        /\ job' = [job EXCEPT ![j] = v] /\ job' \in [Job -> Jobs] /\ job'[j] = v
        /\ v.req = r /\ v.hash = job[j].hash /\ v.reject = job[j].reject
        /\ \/ v.at = "confirm" /\ chain[r][job[j].hash] = "mined"
           \/ v.at = "fail" /\ chain[r][job[j].hash] = "reverted"
  <2>1. ASSUME Goto(j, "confirm"), chain[r][job[j].hash] = "mined" PROVE <1>3
    BY <2>1, GoesTo DEF At
  <2>2. ASSUME Goto(j, "fail"), chain[r][job[j].hash] = "reverted" PROVE <1>3
    BY <2>2, GoesTo DEF At
  <2> QED BY <2>1, <2>2 DEF Wait, Own
<1>4. PICK v \in Jobs :
        /\ job' = [job EXCEPT ![j] = v] /\ job' \in [Job -> Jobs] /\ job'[j] = v
        /\ v.req = r /\ v.hash = job[j].hash /\ v.reject = job[j].reject
        /\ \/ v.at = "confirm" /\ chain[r][job[j].hash] = "mined"
           \/ v.at = "fail" /\ chain[r][job[j].hash] = "reverted"
  BY <1>3
<1>5. \A k \in Job \ {j} : job'[k] = job[k]
  BY <1>1, <1>4 DEF TypeOK
<1>6. TypeOK'
  BY <1>1, <1>2, <1>4 DEF TypeOK
<1>7. Onward(r)
  BY <1>1, <1>2, Measures DEF Onward
<1>8. JobSound(j, r)'
  BY <1>1, <1>2, <1>4 DEF JobSound, Executes
<1>9. RequestSound(r)'
  BY <1>1, <1>2, <1>4, <1>5 DEF Good, RequestSound, Repaying
<1>10. PromiseSound(r)'
  <2>1. Acting(j, r)
    BY <1>2 DEF Acting, Committed
  <2>2. ASSUME r \notin void'
        PROVE  /\ \A k \in Job \ {j} : ~Acting(k, r)
               /\ Acting(j, r)' => Relies(j, r)'
               /\ ~(Acting(j, r)') => Rests(r)'
    <3>1. Relies(j, r) /\ \A k \in Job \ {j} : ~Acting(k, r)
      BY <1>1, <1>2, <2>1, <2>2, ActsAlone
    <3>2. /\ request[r].status = "PROCESSING" /\ refunds[r] = 0 /\ request[r].hash # NoHash
          /\ OnlyOne(r, job[j].hash)
      BY <1>2, <3>1 DEF Relies
    <3>3. ASSUME v.at = "confirm" PROVE Acting(j, r)' /\ Relies(j, r)'
      BY <1>2, <1>4, <3>2, <3>3 DEF Acting, Committed, Relies, OnlyOne
    <3>4. ASSUME v.at = "fail", chain[r][job[j].hash] = "reverted"
          PROVE  ~(Acting(j, r)') /\ Rests(r)'
      <4>1. Dead(r)
        BY <3>2, <3>4, RevertedIsDead
      <4> QED BY <1>2, <1>4, <3>2, <3>4, <4>1 DEF Acting, Committed, Rests, Dead
    <3> QED BY <1>4, <3>1, <3>3, <3>4
  <2> QED BY <1>5, <2>2, ActorPromise
<1> QED BY <1>2, <1>4, <1>6, <1>7, <1>8, <1>9, <1>10, StepSound

LEMMA ConfirmSound ==
  ASSUME IInv, NEW j \in Job, NEW r \in Request, job[j].req = r, Confirm(j)
  PROVE  IInv'
<1>1. Good(r) /\ JobSound(j, r) /\ TypeOK /\ job[j] \in Jobs
  BY WorksOn DEF Confirm, TypeOK
<1>2. /\ job[j].at = "confirm" /\ End(j) /\ job[j].hash \in Nat
      /\ request' = [request EXCEPT ![r].status = "CONFIRMED"]
      /\ UNCHANGED <<chips, cooling, chain, refunds, void, owed, crashes>>
  BY <1>1 DEF Confirm, Jobs
<1>3. /\ job' = [job EXCEPT ![j] = Idle] /\ job' \in [Job -> Jobs]
      /\ ~(Acting(j, r)') /\ \A k \in Job \ {j} : job'[k] = job[k]
  BY <1>1, <1>2, EndsAll DEF TypeOK
<1>4. /\ request' \in [Request -> [status : Status, amount : Nat, hash : Nat]]
      /\ request'[r].status = "CONFIRMED"
      /\ \A s \in Request \ {r} : request'[s] = request[s]
  BY <1>1, <1>2, StatusWritten DEF Status
<1>5. TypeOK'
  BY <1>1, <1>2, <1>3, <1>4 DEF TypeOK
<1>6. Onward(r)
  BY <1>1, <1>2, <1>4, Measures DEF Onward
<1>7. RequestSound(r)'
  <2>1. job[j].hash \in 1 .. Len(chain[r]) /\ chain[r][job[j].hash] = "mined"
    BY <1>1, <1>2, Measures DEF JobSound, NoHash
  <2> QED BY <1>2, <1>4, <2>1 DEF RequestSound
<1>8. PromiseSound(r)'
  <2>1. Acting(j, r)
    BY <1>2 DEF Acting, Committed
  <2>2. ASSUME r \notin void'
        PROVE  Rests(r)' /\ \A k \in Job \ {j} : ~Acting(k, r)
    <3>1. Relies(j, r) /\ \A k \in Job \ {j} : ~Acting(k, r)
      BY <1>1, <1>2, <2>1, <2>2, ActsAlone
    <3>2. PICK h \in Nat : h = job[j].hash
      BY <1>2
    <3>3. OnlyOne(r, h)' /\ chain'[r][h] = "mined" /\ refunds'[r] = 0
      BY <1>1, <1>2, <3>1, <3>2 DEF Relies, JobSound, OnlyOne
    <3> QED BY <1>4, <3>1, <3>3 DEF Rests
  <2> QED BY <1>3, <2>1, <2>2, ActorPromise
<1> QED BY <1>2, <1>3, <1>4, <1>5, <1>6, <1>7, <1>8, StepSound

LEMMA ThrowSound ==
  ASSUME IInv, NEW j \in Job, NEW r \in Request, job[j].req = r, Throw(j)
  PROVE  IInv'
<1>1. Good(r) /\ JobSound(j, r) /\ TypeOK
  BY WorksOn DEF Throw
<1>2. /\ job[j].at \in {"load", "transfer", "save", "wait", "confirm"} /\ Goto(j, "fail")
      /\ void \subseteq void' /\ void' \subseteq void \cup {r}
      /\ r \notin void' =>
           r \notin void /\ (job[j].hash = NoHash \/ chain[r][job[j].hash] = "reverted")
      /\ r \in void => r \in void'
      /\ UNCHANGED <<chips, cooling, request, chain, refunds, owed, crashes>>
  BY DEF Throw, VoidIf, Own
<1>3. PICK v \in Jobs :
        /\ job' = [job EXCEPT ![j] = v] /\ job' \in [Job -> Jobs] /\ job'[j] = v
        /\ v.req = r /\ v.at = "fail" /\ v.hash = job[j].hash /\ v.reject = job[j].reject
  BY <1>2, GoesTo DEF At
<1>4. \A k \in Job \ {j} : job'[k] = job[k]
  BY <1>1, <1>3 DEF TypeOK
<1>5. TypeOK'
  BY <1>1, <1>2, <1>3 DEF TypeOK
<1>6. Onward(r)
  BY <1>1, <1>2, Measures DEF Onward
<1>7. JobSound(j, r)'
  BY <1>1, <1>2, <1>3 DEF JobSound, Executes
<1>8. RequestSound(r)'
  BY <1>1, <1>2, <1>3, <1>4 DEF Good, RequestSound, Repaying, JobSound
<1>9. ~(Acting(j, r)')
  BY <1>3 DEF Acting, Committed
<1>10. PromiseSound(r)'
  <2>1. ASSUME job[j].at = "load" PROVE PromiseSound(r)'
    <3>1. ~Acting(j, r)
      BY <2>1 DEF Acting, Committed
    <3> QED BY <1>1, <1>2, <1>4, <1>9, <3>1, BystanderPromise
  <2>2. ASSUME job[j].at # "load" PROVE PromiseSound(r)'
    <3>1. Acting(j, r)
      BY <1>2, <2>2 DEF Acting, Committed
    <3>2. ASSUME r \notin void'
          PROVE  Rests(r)' /\ \A k \in Job \ {j} : ~Acting(k, r)
      <4>1. Relies(j, r) /\ \A k \in Job \ {j} : ~Acting(k, r)
        BY <1>1, <1>2, <3>1, <3>2, ActsAlone
      <4>2. request[r].status = "PROCESSING" /\ refunds[r] = 0
        BY <1>2, <2>2, <4>1 DEF Relies
      <4>3. job[j].at # "transfer" =>
              OnlyOne(r, job[j].hash) /\ chain[r][job[j].hash] = "reverted"
        BY <1>1, <1>2, <2>2, <3>2, <4>1 DEF Relies, JobSound
      <4>4. Dead(r)
        BY <4>1, <4>3, RevertedIsDead DEF Relies
      <4> QED BY <1>2, <4>1, <4>2, <4>4 DEF Rests, Dead
    <3> QED BY <1>4, <1>9, <3>2, ActorPromise
  <2> QED BY <2>1, <2>2
<1> QED BY <1>2, <1>3, <1>5, <1>6, <1>7, <1>8, <1>10, StepSound

LEMMA FailSound ==
  ASSUME IInv, NEW j \in Job, NEW r \in Request, job[j].req = r, Fail(j)
  PROVE  IInv'
<1>1. Good(r) /\ JobSound(j, r) /\ TypeOK
  BY WorksOn DEF Fail
<1>2. /\ job[j].at = "fail" /\ ~Acting(j, r)
      /\ UNCHANGED <<chips, cooling, request, chain, refunds, owed, crashes>>
  BY DEF Fail, Acting, Committed
<1>3. \E v \in Jobs :
        /\ job' = [job EXCEPT ![j] = v] /\ job' \in [Job -> Jobs] /\ job'[j] = v
        /\ \/ v = Idle /\ void' = void
           \/ /\ request[r].status = "PROCESSING" /\ Commit(j, r)
              /\ v.req = r /\ v.at = "markFailed" /\ v.hash = job[j].hash
              /\ v.reject = job[j].reject
  <2>1. ASSUME request[r].status \in {"CONFIRMED", "FAILED"} PROVE <1>3
    <3>1. End(j) /\ void' = void
      BY <2>1 DEF Fail
    <3> QED BY <3>1, EndsAll, IdleType
  <2>2. ASSUME request[r].status \notin {"CONFIRMED", "FAILED"} PROVE <1>3
    <3>1. Goto(j, "markFailed") /\ Commit(j, r)
      BY <2>2 DEF Fail
    <3>2. request[r].status = "PROCESSING"
      BY <1>1, <1>2, <2>2, Measures DEF JobSound, Executes, Status
    <3> QED BY <3>1, <3>2, GoesTo DEF At
  <2> QED BY <2>1, <2>2
<1>4. PICK v \in Jobs :
        /\ job' = [job EXCEPT ![j] = v] /\ job' \in [Job -> Jobs] /\ job'[j] = v
        /\ \/ v = Idle /\ void' = void
           \/ /\ request[r].status = "PROCESSING" /\ Commit(j, r)
              /\ v.req = r /\ v.at = "markFailed" /\ v.hash = job[j].hash
              /\ v.reject = job[j].reject
  BY <1>3
<1>5. \A k \in Job \ {j} : job'[k] = job[k]
  BY <1>1, <1>4 DEF TypeOK
<1>6. void \subseteq void' /\ void' \subseteq void \cup {r}
  BY <1>1, <1>2, <1>4, CommitAlone
<1>7. TypeOK'
  BY <1>1, <1>2, <1>4, <1>6 DEF TypeOK
<1>8. Onward(r)
  BY <1>1, <1>2, Measures DEF Onward
<1>9. v = Idle \/ (v.req = r /\ JobSound(j, r)')
  BY <1>1, <1>2, <1>4 DEF JobSound, Executes
<1>10. RequestSound(r)'
  BY <1>1, <1>2, <1>4, <1>5, <1>6 DEF Good, RequestSound, Repaying, JobSound
<1>11. PromiseSound(r)'
  <2>1. ASSUME v = Idle, void' = void PROVE PromiseSound(r)'
    <3>1. ~(Acting(j, r)')
      BY <1>4, <2>1 DEF Acting, Committed, Idle
    <3> QED BY <1>1, <1>2, <1>5, <2>1, <3>1, BystanderPromise
  <2>2. ASSUME request[r].status = "PROCESSING", Commit(j, r), v.req = r, v.at = "markFailed"
        PROVE  PromiseSound(r)'
    <3>1. Acting(j, r)'
      BY <1>4, <2>2 DEF Acting, Committed
    <3>2. ASSUME r \notin void' PROVE Relies(j, r)' /\ \A k \in Job \ {j} : ~Acting(k, r)
      <4>1. Rests(r) /\ \A k \in Job \ {j} : ~Acting(k, r)
        BY <1>1, <1>2, <2>2, <3>2, CommitAlone
      <4>2. Dead(r) /\ refunds[r] = 0
        BY <2>2, <4>1 DEF Rests
      <4> QED BY <1>2, <1>4, <2>2, <4>1, <4>2 DEF Relies, Dead
    <3> QED BY <1>5, <3>1, <3>2, ActorPromise
  <2> QED BY <1>4, <2>1, <2>2
<1> QED BY <1>2, <1>4, <1>6, <1>7, <1>8, <1>9, <1>10, <1>11, StepSound

LEMMA MarkFailedSound ==
  ASSUME IInv, NEW j \in Job, NEW r \in Request, job[j].req = r, MarkFailed(j)
  PROVE  IInv'
<1>1. Good(r) /\ JobSound(j, r) /\ TypeOK
  BY WorksOn DEF MarkFailed
<1>2. /\ job[j].at = "markFailed" /\ Goto(j, "credit") /\ ~job[j].reject
      /\ request' = [request EXCEPT ![r].status = "FAILED"]
      /\ UNCHANGED <<chips, cooling, chain, refunds, void, owed, crashes>>
  BY <1>1 DEF MarkFailed, JobSound, Executes
<1>3. PICK v \in Jobs :
        /\ job' = [job EXCEPT ![j] = v] /\ job' \in [Job -> Jobs] /\ job'[j] = v
        /\ v.req = r /\ v.at = "credit" /\ v.hash = job[j].hash /\ v.reject = job[j].reject
  BY <1>2, GoesTo DEF At
<1>4. \A k \in Job \ {j} : job'[k] = job[k]
  BY <1>1, <1>3 DEF TypeOK
<1>5. /\ request' \in [Request -> [status : Status, amount : Nat, hash : Nat]]
      /\ request'[r].status = "FAILED"
      /\ \A s \in Request \ {r} : request'[s] = request[s]
  BY <1>1, <1>2, StatusWritten DEF Status
<1>6. TypeOK'
  BY <1>1, <1>2, <1>3, <1>5 DEF TypeOK
<1>7. Onward(r)
  BY <1>1, <1>2, <1>5, Measures DEF Onward
<1>8. JobSound(j, r)'
  BY <1>1, <1>2, <1>3, <1>5 DEF JobSound, Executes
<1>9. RequestSound(r)'
  BY <1>2, <1>3, <1>5 DEF RequestSound, Repaying
<1>10. PromiseSound(r)'
  <2>1. Acting(j, r) /\ Acting(j, r)'
    BY <1>2, <1>3 DEF Acting, Committed
  <2>2. ASSUME r \notin void'
        PROVE  Relies(j, r)' /\ \A k \in Job \ {j} : ~Acting(k, r)
    <3>1. Relies(j, r) /\ \A k \in Job \ {j} : ~Acting(k, r)
      BY <1>1, <1>2, <2>1, <2>2, ActsAlone
    <3>2. Dead(r) /\ refunds[r] = 0
      BY <1>2, <3>1 DEF Relies
    <3> QED BY <1>2, <1>3, <1>5, <3>1, <3>2 DEF Relies, Dead
  <2> QED BY <1>4, <2>1, <2>2, ActorPromise
<1> QED BY <1>2, <1>3, <1>5, <1>6, <1>7, <1>8, <1>9, <1>10, StepSound

LEMMA CreateWithdrawSound ==
  ASSUME IInv, NEW j \in Job, NEW r \in Request, NEW amount \in Amount,
         CreateWithdraw(j, r, amount)
  PROVE  IInv'
<1> DEFINE v == [Idle EXCEPT !.at = "check", !.req = r, !.chips = amount]
<1>1. /\ Good(r) /\ TypeOK /\ job \in [Job -> Jobs] /\ job[j] = Idle
      /\ amount \in Nat /\ amount > 0
  BY AmountAssumption DEF CreateWithdraw, IInv, TypeOK
<1>2. /\ request[r].status = "NONE" /\ job' = [job EXCEPT ![j] = v]
      /\ \A k \in Job : job[k].req # r
      /\ UNCHANGED <<chips, cooling, request, chain, refunds, void, owed, crashes>>
  BY DEF CreateWithdraw, On
<1>3. v \in Jobs /\ v.req = r /\ v.at = "check" /\ v.hash = NoHash /\ v.chips = amount
  BY <1>1 DEF Jobs, At, Idle, NoHash
<1> HIDE DEF v
<1>4. job'[j] = v /\ \A k \in Job \ {j} : job'[k] = job[k]
  BY <1>1, <1>2
<1>5. TypeOK'
  BY <1>1, <1>2, <1>3 DEF TypeOK
<1>6. JobSound(j, r)'
  BY <1>1, <1>2, <1>3, <1>4, Measures DEF JobSound, Executes, NoHash
<1>7. RequestSound(r)'
  BY <1>1, <1>2 DEF Good, RequestSound
<1>8. PromiseSound(r)'
  <2>1. \A k \in Job : ~Acting(k, r) /\ ~(Acting(k, r)')
    BY <1>2, <1>3, <1>4 DEF Acting, Committed
  <2>2. r \notin void' => Rests(r)'
    BY <1>1, <1>2, <2>1 DEF Good, PromiseSound, Rests, Dead
  <2> QED BY <2>1, <2>2 DEF PromiseSound
<1>9. job[j].req \in {r, NoRequest}
  BY <1>1, IdleType
<1>10. \A k \in Job \ {j} : job[k].req = r => JobSound(k, r)'
  BY <1>2
<1> QED BY <1>2, <1>3, <1>5, <1>6, <1>7, <1>8, <1>9, <1>10, OneRequest

LEMMA ProcessWithdrawSound ==
  ASSUME IInv, NEW j \in Job, NEW r \in Request, NEW reject \in BOOLEAN,
         ProcessWithdraw(j, r, reject)
  PROVE  IInv'
<1> DEFINE v == [Idle EXCEPT !.at = IF reject THEN "credit" ELSE "approve",
                             !.req = r, !.reject = reject]
<1>1. Good(r) /\ TypeOK /\ job \in [Job -> Jobs] /\ job[j] = Idle
  BY DEF ProcessWithdraw, IInv, TypeOK
<1>2. /\ request[r].status = "PENDING" /\ job' = [job EXCEPT ![j] = v] /\ Commit(j, r)
      /\ UNCHANGED <<chips, cooling, request, chain, refunds, owed, crashes>>
  BY DEF ProcessWithdraw
<1>3. /\ v \in Jobs /\ v.req = r /\ v.hash = NoHash /\ v.reject = reject
      /\ v.at = IF reject THEN "credit" ELSE "approve"
  BY DEF Jobs, At, Idle, NoHash
<1> HIDE DEF v
<1>4. job'[j] = v /\ \A k \in Job \ {j} : job'[k] = job[k]
  BY <1>1, <1>2
<1>5. ~Acting(j, r)
  BY <1>1, IdleType DEF Acting, Committed
<1>6. void \subseteq void' /\ void' \subseteq void \cup {r}
  BY <1>1, <1>2, <1>5, CommitAlone
<1>7. TypeOK'
  BY <1>1, <1>2, <1>3, <1>6 DEF TypeOK
<1>8. JobSound(j, r)'
  BY <1>1, <1>2, <1>3, <1>4, Measures DEF JobSound, Executes, NoHash
<1>9. RequestSound(r)'
  BY <1>2 DEF RequestSound
<1>10. PromiseSound(r)'
  <2>1. Acting(j, r)'
    BY <1>3, <1>4 DEF Acting, Committed
  <2>2. ASSUME r \notin void' PROVE Relies(j, r)' /\ \A k \in Job \ {j} : ~Acting(k, r)
    <3>1. Rests(r) /\ \A k \in Job \ {j} : ~Acting(k, r)
      BY <1>1, <1>2, <1>5, <2>2, CommitAlone
    <3>2. Dead(r) /\ refunds[r] = 0
      BY <1>2, <3>1 DEF Rests
    <3> QED BY <1>2, <1>3, <1>4, <3>1, <3>2 DEF Relies, Dead
  <2> QED BY <1>4, <2>1, <2>2, ActorPromise
<1>11. job[j].req \in {r, NoRequest}
  BY <1>1, IdleType
<1>12. \A k \in Job \ {j} : job[k].req = r => JobSound(k, r)'
  BY <1>1, <1>2, <1>4 DEF Good, JobSound
<1> QED BY <1>2, <1>3, <1>6, <1>7, <1>8, <1>9, <1>10, <1>11, <1>12, OneRequest

\* A cron tick starts at most one new execution of each request.
LEMMA CheckStaleProcessingSound ==
  ASSUME IInv, CheckStaleProcessing
  PROVE  IInv'
<1> DEFINE New(r) == [Idle EXCEPT !.at = "load", !.req = r]
<1>1. PICK f \in [Stale -> {j \in Job : job[j] = Idle}] :
        /\ \A r, s \in Stale : r # s => f[r] # f[s]
        /\ job' = [j \in Job |-> IF \E r \in Stale : f[r] = j
                                 THEN New(CHOOSE r \in Stale : f[r] = j) ELSE job[j]]
  BY DEF CheckStaleProcessing
<1>2. /\ UNCHANGED <<chips, cooling, request, chain, refunds, void, owed, crashes>>
      /\ TypeOK /\ job \in [Job -> Jobs] /\ Stale \subseteq Request
  BY DEF CheckStaleProcessing, IInv, TypeOK, Stale
<1>3. \A r \in Request : /\ New(r) \in Jobs /\ New(r).req = r /\ New(r).at = "load"
                         /\ New(r).hash = NoHash /\ ~New(r).reject
  BY DEF Jobs, At, Idle, NoHash
<1>4. ASSUME NEW r \in Stale
      PROVE  f[r] \in Job /\ job[f[r]] = Idle /\ job'[f[r]] = New(r)
  <2>1. f[r] \in Job /\ job[f[r]] = Idle
    BY <1>1
  <2>2. (CHOOSE s \in Stale : f[s] = f[r]) = r
    BY <1>1
  <2> QED BY <1>1, <2>1, <2>2
<1>5. ASSUME NEW j \in Job, \A r \in Stale : f[r] # j PROVE job'[j] = job[j]
  BY <1>1, <1>5
<1> HIDE DEF New
<1>6. \A j \in Job : job'[j] = job[j] \/ \E r \in Stale : j = f[r]
  BY <1>5
<1>7. job' \in [Job -> Jobs]
  <2>1. \A j \in Job : job'[j] \in Jobs
    BY <1>2, <1>3, <1>4, <1>6
  <2> QED BY <1>1, <2>1
<1>8. TypeOK'
  BY <1>2, <1>7 DEF TypeOK
<1>9. \A j \in Job : job'[j].req = NoRequest => job'[j] = Idle
  BY <1>2, <1>3, <1>4, <1>6, RequestAssumption DEF IInv
<1>10. ASSUME NEW r \in Request \ Stale PROVE Good(r)'
  <2>1. \A j \in Job : job[j].req = r \/ job'[j].req = r => job'[j] = job[j]
    BY <1>2, <1>3, <1>4, <1>6, IdleType, RequestAssumption
  <2> QED BY <1>2, <2>1, SameGood DEF Same, IInv
<1>11. ASSUME NEW r \in Stale PROVE Good(r)'
  <2>1. PICK j \in Job : j = f[r]
    BY <1>4
  <2>2. /\ r \in Request /\ Good(r) /\ request[r].status = "PROCESSING"
        /\ request[r].hash = NoHash
    BY DEF IInv, Stale
  <2>3. job[j] = Idle /\ job'[j] = New(r)
    BY <1>4, <2>1
  <2>4. \A k \in Job \ {j} : job[k].req = r \/ job'[k].req = r => job'[k] = job[k]
    BY <1>2, <1>3, <1>4, <1>6, <2>1, <2>2, IdleType, RequestAssumption
  <2>5. /\ job[j].req # r /\ job'[j].req = r /\ job'[j].at = "load"
        /\ job'[j].hash = NoHash /\ ~job'[j].reject
    BY <1>3, <2>2, <2>3, IdleType, RequestAssumption
  <2>6. \A k \in Job : job'[k].req = r => JobSound(k, r)'
    <3>1. JobSound(j, r)'
      BY <1>2, <2>2, <2>5, Measures DEF JobSound, Executes, NoHash
    <3>2. ASSUME NEW k \in Job \ {j}, job'[k].req = r PROVE JobSound(k, r)'
      BY <1>2, <2>2, <2>4, <3>2 DEF Good, JobSound
    <3> QED BY <3>1, <3>2
  <2>7. RequestSound(r)'
    BY <1>2, <2>2 DEF RequestSound
  <2>8. PromiseSound(r)'
    <3>1. \A k \in Job : Acting(k, r)' = Acting(k, r)
      BY <2>4, <2>5 DEF Acting, Committed
    <3>2. ASSUME NEW k \in Job, Acting(k, r), Relies(k, r) PROVE Relies(k, r)'
      <4>1. job'[k] = job[k]
        BY <2>4, <2>5, <3>2 DEF Acting
      <4> QED BY <1>2, <3>2, <4>1 DEF Relies, Dead, OnlyOne
    <3>3. Rests(r) => Rests(r)'
      BY <1>2, <2>2 DEF Rests, Dead
    <3> QED BY <1>2, <2>2, <3>1, <3>2, <3>3 DEF Good, PromiseSound
  <2> QED BY <2>6, <2>7, <2>8 DEF Good
<1> QED BY <1>8, <1>9, <1>10, <1>11 DEF IInv

\* A transfer that is mined or reverts had been sent: nobody relies on its absence.
LEMMA MineSound ==
  ASSUME IInv, NEW r \in Request, NEW k \in 1 .. Len(chain[r]),
         NEW state \in {"mined", "reverted"}, Mine(r, k, state)
  PROVE  IInv'
<1>1. /\ TypeOK /\ Good(r) /\ chain \in [Request -> Seq(Transfers)]
      /\ chain[r] \in Seq(Transfers) /\ Len(chain[r]) \in Nat
  BY DEF IInv, TypeOK
<1>2. /\ chain[r][k] = "sent" /\ ~Dead(r)
      /\ UNCHANGED <<chips, cooling, request, job, refunds, void, owed, crashes>>
  BY DEF Mine, Dead
<1>3. /\ chain' = [chain EXCEPT ![r] = [chain[r] EXCEPT ![k] = state]]
  BY <1>1 DEF Mine
<1>4. /\ \A s \in Request \ {r} : chain'[s] = chain[s]
      /\ chain'[r] = [chain[r] EXCEPT ![k] = state]
  BY <1>1, <1>3
<1>5. /\ chain'[r] \in Seq(Transfers) /\ Len(chain'[r]) = Len(chain[r])
      /\ \A n \in 1 .. Len(chain[r]) : n # k => chain'[r][n] = chain[r][n]
  BY <1>1, <1>4 DEF Transfers
<1>6. TypeOK'
  <2>1. chain' \in [Request -> Seq(Transfers)]
    BY <1>1, <1>3, <1>5
  <2> QED BY <1>1, <1>2, <2>1 DEF TypeOK
<1>7. ASSUME NEW j \in Job, job[j].req = r PROVE JobSound(j, r)'
  <2>1. JobSound(j, r) /\ job[j].hash \in Nat
    BY <1>1, <1>7 DEF Good, TypeOK, Jobs
  <2>2. job[j].at = "confirm" => chain'[r][job[j].hash] = "mined"
    BY <1>1, <1>2, <1>5, <2>1 DEF JobSound, NoHash
  <2> QED BY <1>1, <1>2, <1>5, <2>1, <2>2 DEF JobSound
<1>8. RequestSound(r)'
  <2>1. ASSUME request[r].status = "CONFIRMED"
        PROVE  \E n \in 1 .. Len(chain[r]) : chain'[r][n] = "mined"
    <3>1. PICK n \in 1 .. Len(chain[r]) : chain[r][n] = "mined"
      BY <1>1, <2>1 DEF Good, RequestSound
    <3> QED BY <1>2, <1>5, <3>1
  <2> QED BY <1>1, <1>2, <1>5, <2>1 DEF Good, RequestSound, Repaying
<1>9. \A h : OnlyOne(r, h) => h = k /\ OnlyOne(r, h)'
  BY <1>2, <1>5 DEF OnlyOne
<1>10. PromiseSound(r)'
  <2>1. \A j \in Job : Acting(j, r)' = Acting(j, r)
    BY <1>2 DEF Acting
  <2>2. ASSUME NEW j \in Job, Acting(j, r), Relies(j, r) PROVE Relies(j, r)'
    <3>1. job'[j] = job[j]
      BY <1>2
    <3>2. job[j].at \in {"save", "wait", "confirm"}
      BY <1>2, <2>2 DEF Acting, Committed, Relies
    <3> QED BY <1>2, <1>9, <2>2, <3>1, <3>2 DEF Relies
  <2>3. ASSUME Rests(r) PROVE Rests(r)'
    <3>1. request[r].status = "PROCESSING"
      BY <1>1, <1>2, <1>9, <2>3, Measures DEF Rests, Status
    <3> QED BY <1>2, <1>9, <2>3, <3>1 DEF Rests
  <2> QED BY <1>1, <1>2, <2>1, <2>2, <2>3 DEF Good, PromiseSound
<1>11. Good(r)'
  BY <1>2, <1>7, <1>8, <1>10 DEF Good
<1>12. ASSUME NEW s \in Request \ {r} PROVE Good(s)'
  BY <1>2, <1>4, SameGood DEF Same, IInv
<1> QED BY <1>2, <1>6, <1>11, <1>12 DEF IInv

\* Jobs that are lost leave their requests at rest, void or owed.
LEMMA LoseSound ==
  ASSUME IInv, NEW J \in SUBSET Job, Lose(J), cooling' \subseteq cooling,
         J = Job \/ \A j \in J : job[j].at \notin {"wait", "confirm"}
  PROVE  IInv'
<1>1. /\ TypeOK /\ job \in [Job -> Jobs] /\ crashes' \in 0 .. MaxCrashes
      /\ UNCHANGED <<chips, request, chain, refunds>>
      /\ void \subseteq void' /\ owed \subseteq owed'
      /\ \A j \in J : job[j].at \in {"save", "markRejected"} => job[j].req \in void'
      /\ \A j \in J : job[j].at \in {"credit", "repay"} /\ ~job[j].reject
                        => job[j].req \in owed'
      /\ \A r \in void' : r \in void \/ \E j \in J : r = job[j].req /\ job[j].at # "idle"
      /\ \A r \in owed' : r \in owed \/ \E j \in J : r = job[j].req /\ job[j].at # "idle"
  BY CrashAssumption DEF Lose, IInv, TypeOK
<1>2. /\ \A j \in J : job'[j] = Idle
      /\ \A j \in Job \ J : job'[j] = job[j]
      /\ job' \in [Job -> Jobs]
  BY <1>1, IdleType DEF Lose
<1>3. \A j \in Job : job[j].at # "idle" => job[j].req \in Request /\ JobSound(j, job[j].req)
  BY WorksOn
<1>4. TypeOK'
  <2>1. void' \subseteq Request /\ owed' \subseteq Request
    <3>1. void \subseteq Request /\ owed \subseteq Request
      BY <1>1 DEF TypeOK
    <3>2. \A j \in J : job[j].at # "idle" => job[j].req \in Request
      BY <1>3
    <3>3. ASSUME NEW r \in void' PROVE r \in Request
      BY <1>1, <3>1, <3>2
    <3>4. ASSUME NEW r \in owed' PROVE r \in Request
      BY <1>1, <3>1, <3>2
    <3> QED BY <3>3, <3>4
  <2> QED BY <1>1, <1>2, <2>1 DEF TypeOK
<1>5. ASSUME NEW j \in Job, job'[j].req = NoRequest PROVE job'[j] = Idle
  BY <1>2, <1>5 DEF IInv
<1>6. \A j \in J : job'[j].req \notin Request
  BY <1>2, IdleType, RequestAssumption
<1>7. ASSUME NEW r \in Request PROVE Good(r)'
  <2>1. Good(r)
    BY DEF IInv
  <2>2. ASSUME NEW j \in Job, job'[j].req = r PROVE JobSound(j, r)'
    <3>1. j \notin J /\ job'[j] = job[j]
      BY <1>2, <1>6, <2>2
    <3> QED BY <1>1, <1>2, <1>6, <2>1, <2>2, <3>1 DEF Good, JobSound
  <2>3. RequestSound(r)'
    <3>1. ASSUME NEW j \in Job, Repaying(j, r) PROVE r \in owed' \/ Repaying(j, r)'
      BY <1>1, <1>2, <3>1 DEF Repaying
    <3>2. r \in void' => request[r].status # "NONE"
      <4>1. ASSUME NEW j \in J, r = job[j].req, job[j].at \in {"save", "markRejected"}
            PROVE  request[r].status # "NONE"
        BY <1>3, <4>1 DEF JobSound
      <4>2. r \in void' => r \in void \/ \E j \in J : /\ r = job[j].req
                                               /\ job[j].at \in {"save", "markRejected"}
        BY DEF Lose
      <4> QED BY <2>1, <4>1, <4>2 DEF Good, RequestSound
    <3>3. request[r].status = "FAILED" =>
            refunds[r] > 0 \/ r \in owed' \/ \E j \in Job : Repaying(j, r)'
      BY <1>1, <2>1, <3>1 DEF Good, RequestSound
    <3> QED BY <1>1, <2>1, <3>2, <3>3 DEF Good, RequestSound
  <2>4. PromiseSound(r)'
    <3>1. \A j \in Job : Acting(j, r)' => j \notin J /\ job'[j] = job[j] /\ Acting(j, r)
      BY <1>2, <1>6 DEF Acting
    <3>2. ASSUME NEW j \in Job, Relies(j, r), job'[j] = job[j] PROVE Relies(j, r)'
      BY <1>1, <3>2 DEF Relies, Dead, OnlyOne
    <3>3. ASSUME Rests(r) PROVE Rests(r)'
      <4>1. (\A j \in Job : job[j].req # r) => \A j \in Job : job'[j].req # r
        BY <1>2, <1>6
      <4> QED BY <1>1, <3>3, <4>1 DEF Rests, Dead, OnlyOne
    <3>4. ASSUME NEW j \in J, Acting(j, r), Relies(j, r), r \notin void' PROVE Rests(r)'
      <4>1. /\ job[j].req = r /\ job[j].at \in Committed
            /\ job[j].at \notin {"save", "markRejected"}
        BY <1>1, <3>4 DEF Acting
      <4>2. ASSUME job[j].at \in {"wait", "confirm"} PROVE Rests(r)'
        <5>1. \A k \in Job : job'[k].req # r
          BY <1>6, <4>2
        <5>2. PICK h \in Nat : h = job[j].hash
          BY <1>1 DEF Jobs
        <5>3. /\ request[r].status = "PROCESSING" /\ refunds[r] = 0
              /\ request[r].hash # NoHash /\ OnlyOne(r, h)
          BY <3>4, <4>2, <5>2 DEF Relies
        <5> QED BY <1>1, <5>1, <5>3 DEF Rests, OnlyOne
      <4>3. ASSUME job[j].at \in {"approve", "transfer", "markFailed", "credit", "repay"}
            PROVE  Rests(r)'
        <5>1. /\ request[r].status \in {"PENDING", "PROCESSING", "FAILED"}
              /\ Dead(r) /\ refunds[r] = 0
          BY <3>4, <4>3 DEF Relies
        <5> QED BY <1>1, <5>1 DEF Rests, Dead
      <4> QED BY <4>1, <4>2, <4>3 DEF Committed
    <3>5. ASSUME r \notin void', \A j \in Job : ~(Acting(j, r)') PROVE Rests(r)'
      <4>1. ASSUME NEW j \in Job, Acting(j, r) PROVE j \in J /\ Relies(j, r)
        BY <1>1, <1>2, <2>1, <3>5, <4>1 DEF Good, PromiseSound, Acting
      <4> QED BY <1>1, <2>1, <3>3, <3>4, <3>5, <4>1 DEF Good, PromiseSound
    <3>6. r \notin void' => r \notin void
      BY <1>1
    <3> QED BY <2>1, <3>1, <3>2, <3>5, <3>6 DEF Good, PromiseSound
  <2> QED BY <2>2, <2>3, <2>4 DEF Good
<1> QED BY <1>4, <1>5, <1>7 DEF IInv

LEMMA DatabaseFailsSound == ASSUME IInv, NEW j \in Job, DatabaseFails(j) PROVE IInv'
<1>1. Lose({j}) /\ {j} \in SUBSET Job /\ cooling' = cooling
  BY DEF DatabaseFails
<1>2. \A k \in {j} : job[k].at \notin {"wait", "confirm"}
  BY DEF DatabaseFails
<1> QED BY <1>1, <1>2, LoseSound

LEMMA CrashSound == ASSUME IInv, Crash PROVE IInv'
BY LoseSound DEF Crash

\* The wallet and the cooldowns may change at any time: no promise rests on them.
LEMMA AccountsAside ==
  ASSUME IInv, chips' \in [User -> Nat], cooling' \subseteq User,
         UNCHANGED <<request, job, chain, refunds, void, owed, crashes>>
  PROVE  IInv'
<1>1. TypeOK'
  BY DEF IInv, TypeOK
<1>2. \A r \in Request : Good(r)'
  BY SameGood DEF IInv, Same
<1> QED BY <1>1, <1>2 DEF IInv

LEMMA WalletChangesSound == ASSUME IInv, NEW u \in User, WalletChanges(u) PROVE IInv'
<1>1. chips' \in [User -> Nat]
  BY AmountAssumption DEF WalletChanges, IInv, TypeOK
<1> QED BY <1>1, AccountsAside DEF WalletChanges, IInv, TypeOK

LEMMA CooldownEndsSound == ASSUME IInv, NEW u \in User, CooldownEnds(u) PROVE IInv'
BY AccountsAside DEF CooldownEnds, IInv, TypeOK

\* A call that takes a step has a request.
LEMMA StepsOn ==
  ASSUME IInv, NEW j \in Job, Step(j) \/ Throw(j)
  PROVE  job[j].at # "idle" /\ job[j].req \in Request
<1>1. job[j].at # "idle"
  BY DEF Step, Throw, CheckAvailable, Deduct, SetCooldown, Approve, LogApproval, MarkRejected,
     ReadBalance, Repay, Load, Transfer, SaveHash, Wait, Confirm, Fail, MarkFailed
<1> QED BY <1>1, WorksOn

LEMMA NextIInv == IInv /\ [Next]_vars => IInv'
<1> SUFFICES ASSUME IInv, [Next]_vars PROVE IInv'
  OBVIOUS
<1>1. CASE Calls
  BY <1>1, CreateWithdrawSound, ProcessWithdrawSound DEF Calls
<1>2. ASSUME NEW j \in Job, Step(j) \/ Throw(j) PROVE IInv'
  <2>1. PICK r \in Request : job[j].req = r
    BY <1>2, StepsOn
  <2> QED BY <1>2, <2>1, CheckAvailableSound, DeductSound, SetCooldownSound, ApproveSound,
            LogApprovalSound, MarkRejectedSound, ReadBalanceSound, RepaySound, LoadSound,
            TransferSound, SaveHashSound, WaitSound, ConfirmSound, ThrowSound, FailSound,
            MarkFailedSound DEF Step
<1>3. CASE \E u \in User : CooldownEnds(u) \/ WalletChanges(u)
  BY <1>3, CooldownEndsSound, WalletChangesSound
<1>4. CASE Chain
  <2>1. PICK r \in Request :
          \E k \in 1 .. Len(chain[r]) : Mine(r, k, "mined") \/ Mine(r, k, "reverted")
    BY <1>4 DEF Chain
  <2> QED BY <2>1, MineSound
<1>5. CASE UNCHANGED vars
  BY <1>5, AccountsAside DEF vars, IInv, TypeOK
<1> QED BY <1>1, <1>2, <1>3, <1>4, <1>5, CheckStaleProcessingSound, CrashSound,
          DatabaseFailsSound DEF Next

LEMMA IInvInvariance == Spec => []IInv
BY InitIInv, NextIInv, PTL DEF Spec

\* Every row, call and counter of the service stays of its type.
THEOREM TypeCorrect == Spec => []TypeOK
<1>1. IInv => TypeOK
  BY DEF IInv
<1> QED BY <1>1, IInvInvariance, PTL

\* ConfirmedIsPaid: whatever calls overlap, crash or are retried, the status
\* CONFIRMED is only ever written for a transfer that was mined.
THEOREM ConfirmedOnlyIfPaid == Spec => []ConfirmedIsPaid
<1>1. IInv => ConfirmedIsPaid
  <2> SUFFICES ASSUME IInv, NEW r \in Request, request[r].status = "CONFIRMED"
               PROVE  Paid(r) > 0
    BY DEF ConfirmedIsPaid
  <2> DEFINE M == {k \in 1 .. Len(chain[r]) : chain[r][k] = "mined"}
  <2>1. PICK k \in 1 .. Len(chain[r]) : chain[r][k] = "mined"
    BY DEF IInv, Good, RequestSound
  <2>2. IsFiniteSet(1 .. Len(chain[r]))
    BY Measures, FS_Interval DEF IInv
  <2>3. IsFiniteSet(M) /\ M # {}
    BY <2>1, <2>2, FS_Subset
  <2>4. Cardinality(M) \in Nat /\ Cardinality(M) # 0
    BY <2>3, FS_EmptySet, FS_CardinalityType
  <2> QED BY <2>4 DEF Paid
<1> QED BY <1>1, IInvInvariance, PTL

\* FailedIsRefunded: a failed request that nobody works on has its chips back,
\* unless a crash or a failing database call is on record for it.
THEOREM FailedMeansRefunded == Spec => []FailedIsRefunded
<1>1. IInv => FailedIsRefunded
  BY DEF IInv, Good, RequestSound, Repaying, FailedIsRefunded, On
<1> QED BY <1>1, IInvInvariance, PTL

----------------------------------------------------------------------------
(* The service keeps the promise: every step opens, pays, refunds or voids a *)
(* request, changes an account, or shows nothing.                            *)

LEMMA PaidNone == ASSUME NEW r, Dead(r) PROVE Paid(r) = 0
<1>1. {k \in 1 .. Len(chain[r]) : chain[r][k] = "mined"} = {}
  BY DEF Dead
<1> QED BY <1>1, FS_EmptySet DEF Paid

LEMMA CountsOne ==
  ASSUME NEW c, NEW h \in 1 .. Len(c), \A k \in 1 .. Len(c) : k # h => c[k] = "reverted"
  PROVE  Cardinality({k \in 1 .. Len(c) : c[k] = "mined"}) = IF c[h] = "mined" THEN 1 ELSE 0
<1>1. ASSUME c[h] = "mined" PROVE {k \in 1 .. Len(c) : c[k] = "mined"} = {h}
  BY <1>1
<1>2. ASSUME c[h] # "mined" PROVE {k \in 1 .. Len(c) : c[k] = "mined"} = {}
  BY <1>2
<1> QED BY <1>1, <1>2, FS_Singleton, FS_EmptySet

LEMMA PaidOnce ==
  ASSUME NEW r, NEW h, OnlyOne(r, h)
  PROVE  Paid(r) = IF chain[r][h] = "mined" THEN 1 ELSE 0
BY CountsOne DEF OnlyOne, Paid

LEMMA PaidStays == ASSUME NEW r, chain'[r] = chain[r] PROVE Paid(r)' = Paid(r)
BY DEF Paid

LEMMA OutcomeKept ==
  ASSUME NEW r, r \in void' <=> r \in void, chain'[r] = chain[r], refunds'[r] = refunds[r],
         request'[r].status = "NONE" <=> request[r].status = "NONE"
  PROVE  OutcomeOf(r)' = OutcomeOf(r)
BY PaidStays DEF OutcomeOf

LEMMA Stutters ==
  ASSUME \A r \in Request : OutcomeOf(r)' = OutcomeOf(r) /\ AmountOf(r)' = AmountOf(r),
         \A u \in User : AccountOf(u)' = AccountOf(u)
  PROVE  UNCHANGED Promise!vars
BY DEF Promise!vars

LEMMA Opens ==
  ASSUME NEW r \in Request, OutcomeOf(r) = "none", OutcomeOf(r)' = "open",
         AmountOf(r)' > 0, AccountOf(Owner[r]) # Unknown => AmountOf(r)' <= AccountOf(Owner[r]),
         AccountOf(Owner[r])' = Promise!Minus(AccountOf(Owner[r]), AmountOf(r)'),
         \A s \in Request \ {r} : OutcomeOf(s)' = OutcomeOf(s) /\ AmountOf(s)' = AmountOf(s),
         \A u \in User \ {Owner[r]} : AccountOf(u)' = AccountOf(u)
  PROVE  Promise!Open(r)
<1>1. Owner[r] \in User
  BY RequestAssumption
<1> QED BY <1>1 DEF Promise!Open

LEMMA Pays ==
  ASSUME NEW r \in Request, OutcomeOf(r) = "open", OutcomeOf(r)' = "paid",
         \A s \in Request \ {r} : OutcomeOf(s)' = OutcomeOf(s),
         \A s \in Request : AmountOf(s)' = AmountOf(s),
         \A u \in User : AccountOf(u)' = AccountOf(u)
  PROVE  Promise!Pay(r)
BY DEF Promise!Pay

LEMMA Refunds ==
  ASSUME NEW r \in Request, OutcomeOf(r) = "open", OutcomeOf(r)' = "refunded",
         AccountOf(Owner[r])' = Promise!Plus(AccountOf(Owner[r]), AmountOf(r)),
         \A s \in Request \ {r} : OutcomeOf(s)' = OutcomeOf(s),
         \A s \in Request : AmountOf(s)' = AmountOf(s),
         \A u \in User \ {Owner[r]} : AccountOf(u)' = AccountOf(u)
  PROVE  Promise!Refund(r)
<1>1. Owner[r] \in User
  BY RequestAssumption
<1> QED BY <1>1 DEF Promise!Refund

LEMMA Changes ==
  ASSUME NEW u \in User, AccountOf(u) # Unknown, AccountOf(u)' \in Nat,
         \A s \in Request : OutcomeOf(s)' = OutcomeOf(s) /\ AmountOf(s)' = AmountOf(s),
         \A v \in User \ {u} : AccountOf(v)' = AccountOf(v)
  PROVE  Promise!Change(u)
BY DEF Promise!Change

\* Whatever happens to a request when it becomes void, and to its owner's chips,
\* is one step of the promise.
LEMMA Voids ==
  ASSUME void \subseteq void', void' \subseteq Request, void' # void,
         \A r \in Request \ void' : OutcomeOf(r)' = OutcomeOf(r) /\ AmountOf(r)' = AmountOf(r),
         \A u \in User : (\A r \in void' : Owner[r] # u) => chips'[u] = chips[u]
  PROVE  Promise!Next
<1> DEFINE R == void' \ void
<1>1. R # {} /\ R \in SUBSET Request
  OBVIOUS
<1>2. \A r \in Request : OutcomeOf(r)' = IF r \in R THEN "void" ELSE OutcomeOf(r)
  BY DEF OutcomeOf
<1>3. \A r \in Request : AmountOf(r)' = IF r \in R THEN 0 ELSE AmountOf(r)
  BY DEF AmountOf
<1>4. \A u \in User : AccountOf(u)' = IF \E r \in R : Owner[r] = u THEN Unknown
                                      ELSE AccountOf(u)
  BY DEF AccountOf
<1> HIDE DEF R
<1>5. Promise!Void(R)
  BY <1>1, <1>2, <1>3, <1>4 DEF Promise!Void
<1> QED BY <1>1, <1>5 DEF Promise!Next

\* A step that moves neither chips nor tokens shows nothing, or a request is void.
LEMMA Quiet ==
  ASSUME TypeOK', void \subseteq void', UNCHANGED <<chips, chain, refunds>>,
         \A r \in Request : request'[r].amount = request[r].amount,
         \A r \in Request : request'[r].status = "NONE" <=> request[r].status = "NONE"
  PROVE  [Promise!Next]_(Promise!vars)
<1>1. \A r \in Request \ void' : OutcomeOf(r)' = OutcomeOf(r) /\ AmountOf(r)' = AmountOf(r)
  BY OutcomeKept DEF AmountOf
<1>2. ASSUME void' # void PROVE Promise!Next
  BY <1>1, <1>2, Voids DEF TypeOK
<1>3. ASSUME void' = void PROVE UNCHANGED Promise!vars
  <2>1. \A r \in void : OutcomeOf(r)' = OutcomeOf(r) /\ AmountOf(r)' = AmountOf(r)
    BY <1>3 DEF OutcomeOf, AmountOf
  <2>2. \A u \in User : AccountOf(u)' = AccountOf(u)
    BY <1>3 DEF AccountOf
  <2> QED BY <1>1, <1>3, <2>1, <2>2, Stutters
<1> QED BY <1>2, <1>3

LEMMA QuietStatus ==
  ASSUME IInv, TypeOK', NEW j \in Job, job[j].at \notin {"idle", "check", "deduct"},
         NEW st \in Status \ {"NONE"}, request' = [request EXCEPT ![job[j].req].status = st],
         void \subseteq void', UNCHANGED <<chips, chain, refunds>>
  PROVE  [Promise!Next]_(Promise!vars)
<1>1. PICK r \in Request : job[j].req = r
  BY WorksOn
<1>2. request[r].status # "NONE" /\ TypeOK
  BY <1>1, WorksOn DEF JobSound
<1>3. /\ request'[r].status = st /\ request'[r].amount = request[r].amount
      /\ \A s \in Request \ {r} : request'[s] = request[s]
  BY <1>1, <1>2, StatusWritten
<1> QED BY <1>2, <1>3, Quiet

LEMMA DeductKeeps ==
  ASSUME IInv, IInv', NEW j \in Job, Deduct(j)
  PROVE  [Promise!Next]_(Promise!vars)
<1>1. PICK r \in Request : job[j].req = r
  BY WorksOn DEF Deduct
<1>2. PICK a \in Nat : a = job[j].chips
  BY DEF IInv, TypeOK, Jobs
<1>3. /\ Good(r) /\ JobSound(j, r) /\ TypeOK /\ TypeOK' /\ job[j].at = "deduct"
      /\ Owner[r] \in User
  BY <1>1, WorksOn, RequestAssumption DEF Deduct, IInv
<1>4. /\ chips' = [chips EXCEPT ![Owner[r]] = IF a > @ THEN 0 ELSE @ - a]
      /\ request' = [request EXCEPT ![r].status = "PENDING", ![r].amount = a]
      /\ void' = IF a > chips[Owner[r]] THEN void \cup {r} ELSE void
      /\ UNCHANGED <<chain, refunds>>
  BY <1>1, <1>2 DEF Deduct, VoidIf
<1>5. request[r].status = "NONE" /\ r \notin void /\ a > 0
  BY <1>1, <1>2, <1>3 DEF Good, RequestSound, JobSound
<1>6. /\ request'[r].status = "PENDING" /\ request'[r].amount = a
      /\ \A s \in Request \ {r} : request'[s] = request[s]
      /\ \A u \in User \ {Owner[r]} : chips'[u] = chips[u]
  BY <1>3, <1>4 DEF TypeOK
<1>7. \A s \in Request \ {r} : OutcomeOf(s)' = OutcomeOf(s) /\ AmountOf(s)' = AmountOf(s)
  <2> SUFFICES ASSUME NEW s \in Request \ {r}
               PROVE  OutcomeOf(s)' = OutcomeOf(s) /\ AmountOf(s)' = AmountOf(s)
    OBVIOUS
  <2>1. /\ s \in void' <=> s \in void
        /\ request'[s] = request[s] /\ chain'[s] = chain[s] /\ refunds'[s] = refunds[s]
    BY <1>4, <1>6
  <2>2. OutcomeOf(s)' = OutcomeOf(s)
    BY <2>1, OutcomeKept
  <2> QED BY <2>1, <2>2 DEF AmountOf
<1>8. ASSUME a > chips[Owner[r]] PROVE Promise!Next
  <2>1. void' = void \cup {r} /\ void' # void
    BY <1>4, <1>5, <1>8
  <2> QED BY <1>3, <1>6, <1>7, <2>1, Voids DEF TypeOK
<1>9. ASSUME ~(a > chips[Owner[r]]) PROVE Promise!Open(r)
  <2>1. void' = void /\ chips'[Owner[r]] = chips[Owner[r]] - a /\ a <= chips[Owner[r]]
        /\ chips[Owner[r]] \in Nat
    BY <1>3, <1>4, <1>9 DEF TypeOK
  <2>2. OutcomeOf(r) = "none" /\ AmountOf(r)' = a
    BY <1>5, <1>6, <2>1 DEF OutcomeOf, AmountOf
  <2>3. OutcomeOf(r)' = "open"
    <3>1. Dead(r) /\ refunds[r] = 0
      BY <1>1, <1>3, <1>5 DEF Good, PromiseSound, JobSound, Acting, Committed, Rests
    <3>2. Paid(r)' = 0
      BY <1>4, <3>1, PaidNone, PaidStays
    <3> QED BY <1>4, <1>5, <1>6, <2>1, <3>1, <3>2 DEF OutcomeOf
  <2>4. \A u \in User \ {Owner[r]} : AccountOf(u)' = AccountOf(u)
    BY <1>6, <2>1 DEF AccountOf
  <2>5. /\ AccountOf(Owner[r]) # Unknown => a <= AccountOf(Owner[r])
        /\ AccountOf(Owner[r])' = Promise!Minus(AccountOf(Owner[r]), a)
    BY <2>1, UnknownAssumption DEF AccountOf, Promise!Minus
  <2> QED BY <1>5, <1>7, <2>2, <2>3, <2>4, <2>5, Opens
<1> QED BY <1>8, <1>9 DEF Promise!Next

LEMMA RepayKeeps ==
  ASSUME IInv, IInv', NEW j \in Job, Repay(j)
  PROVE  [Promise!Next]_(Promise!vars)
<1>1. PICK r \in Request : job[j].req = r
  BY WorksOn DEF Repay
<1>2. PICK b \in Nat : b = job[j].chips
  BY DEF IInv, TypeOK, Jobs
<1>3. /\ Good(r) /\ JobSound(j, r) /\ TypeOK /\ TypeOK' /\ job[j].at = "repay"
      /\ Owner[r] \in User
  BY <1>1, WorksOn, RequestAssumption DEF Repay, IInv
<1>4. /\ chips' = [chips EXCEPT ![Owner[r]] = b + request[r].amount]
      /\ refunds' = [refunds EXCEPT ![r] = refunds[r] + 1]
      /\ void' = IF b # chips[Owner[r]] THEN void \cup {r} ELSE void
      /\ UNCHANGED <<request, chain>>
  BY <1>1, <1>2, <1>3 DEF Repay, VoidIf, TypeOK
<1>5. /\ chips'[Owner[r]] = b + request[r].amount
      /\ \A u \in User \ {Owner[r]} : chips'[u] = chips[u]
      /\ refunds'[r] = refunds[r] + 1
      /\ \A s \in Request \ {r} : refunds'[s] = refunds[s]
  BY <1>3, <1>4 DEF TypeOK
<1>6. \A s \in Request \ {r} : OutcomeOf(s)' = OutcomeOf(s) /\ AmountOf(s)' = AmountOf(s)
  <2>1. \A s \in Request \ {r} : s \in void' <=> s \in void
    BY <1>4
  <2> QED BY <1>4, <1>5, <2>1, OutcomeKept DEF AmountOf
<1>7. ASSUME void' # void PROVE Promise!Next
  <2>1. void' = void \cup {r}
    BY <1>4, <1>7
  <2> QED BY <1>3, <1>5, <1>6, <1>7, <2>1, Voids DEF TypeOK
<1>8. ASSUME void' = void, r \in void PROVE UNCHANGED Promise!vars
  <2>1. OutcomeOf(r)' = OutcomeOf(r) /\ AmountOf(r)' = AmountOf(r)
    BY <1>8 DEF OutcomeOf, AmountOf
  <2>2. \A u \in User : AccountOf(u)' = AccountOf(u)
    BY <1>5, <1>8 DEF AccountOf
  <2> QED BY <1>6, <2>1, <2>2, Stutters
<1>9. ASSUME void' = void, r \notin void PROVE Promise!Refund(r)
  <2>1. Relies(j, r)
    <3>1. Acting(j, r)
      BY <1>1, <1>3 DEF Acting, Committed
    <3> QED BY <1>3, <1>9, <3>1, ActsAlone
  <2>2. Dead(r) /\ refunds[r] = 0 /\ request[r].status # "NONE" /\ b = chips[Owner[r]]
    BY <1>3, <1>4, <1>9, <2>1 DEF Relies
  <2>3. Paid(r) = 0 /\ Paid(r)' = 0 /\ refunds'[r] = 1
    BY <1>4, <1>5, <2>2, PaidNone, PaidStays
  <2>4. OutcomeOf(r) = "open" /\ OutcomeOf(r)' = "refunded"
    BY <1>4, <1>9, <2>2, <2>3 DEF OutcomeOf
  <2>5. AmountOf(r) = request[r].amount /\ AmountOf(r)' = AmountOf(r)
    BY <1>4, <1>9 DEF AmountOf
  <2>6. \A u \in User \ {Owner[r]} : AccountOf(u)' = AccountOf(u)
    BY <1>5, <1>9 DEF AccountOf
  <2>7. AccountOf(Owner[r])' = Promise!Plus(AccountOf(Owner[r]), AmountOf(r))
    BY <1>2, <1>5, <1>9, <2>2, <2>5, UnknownAssumption DEF AccountOf, Promise!Plus
  <2> QED BY <1>6, <2>4, <2>5, <2>6, <2>7, Refunds
<1> QED BY <1>7, <1>8, <1>9 DEF Promise!Next

\* A request with a transfer on its way is open, and no other transfer pays it.
LEMMA SentIsOpen ==
  ASSUME IInv, NEW r \in Request \ void, NEW k \in 1 .. Len(chain[r]), chain[r][k] = "sent"
  PROVE  OnlyOne(r, k) /\ request[r].status = "PROCESSING" /\ refunds[r] = 0
<1>1. Good(r) /\ ~Dead(r) /\ request[r].status \in Status
  BY DEF IInv, Dead, TypeOK
<1>2. \A h : OnlyOne(r, h) => h = k
  BY DEF OnlyOne
<1>3. ASSUME NEW j \in Job, Acting(j, r)
      PROVE  OnlyOne(r, k) /\ request[r].status = "PROCESSING" /\ refunds[r] = 0
  <2>1. Relies(j, r)
    BY <1>1, <1>3, ActsAlone
  <2> QED BY <1>1, <1>2, <1>3, <2>1 DEF Relies, Acting, Committed
<1>4. ASSUME Rests(r)
      PROVE  OnlyOne(r, k) /\ request[r].status = "PROCESSING" /\ refunds[r] = 0
  BY <1>1, <1>2, <1>4 DEF Rests, Status
<1> QED BY <1>1, <1>3, <1>4 DEF Good, PromiseSound

LEMMA MineKeeps ==
  ASSUME IInv, NEW r \in Request, NEW k \in 1 .. Len(chain[r]),
         NEW state \in {"mined", "reverted"}, Mine(r, k, state)
  PROVE  [Promise!Next]_(Promise!vars)
<1>1. /\ TypeOK /\ chain[r] \in Seq(Transfers) /\ chain[r][k] = "sent"
      /\ chain' = [chain EXCEPT ![r] = [chain[r] EXCEPT ![k] = state]]
      /\ UNCHANGED <<chips, cooling, request, job, refunds, void, owed, crashes>>
  BY DEF IInv, TypeOK, Mine
<1>2. /\ \A s \in Request \ {r} : chain'[s] = chain[s]
      /\ chain'[r] = [chain[r] EXCEPT ![k] = state]
  BY <1>1 DEF TypeOK
<1>3. Len(chain'[r]) = Len(chain[r]) /\ chain'[r][k] = state
      /\ \A n \in 1 .. Len(chain[r]) : n # k => chain'[r][n] = chain[r][n]
  BY <1>1, <1>2
<1>4. /\ \A s \in Request \ {r} : OutcomeOf(s)' = OutcomeOf(s)
      /\ \A s \in Request : AmountOf(s)' = AmountOf(s)
      /\ \A u \in User : AccountOf(u)' = AccountOf(u)
  BY <1>1, <1>2, OutcomeKept DEF AmountOf, AccountOf
<1>5. ASSUME r \in void PROVE UNCHANGED Promise!vars
  <2>1. OutcomeOf(r)' = OutcomeOf(r)
    BY <1>1, <1>5 DEF OutcomeOf
  <2> QED BY <1>4, <2>1, Stutters
<1>6. ASSUME r \notin void PROVE Promise!Pay(r) \/ UNCHANGED Promise!vars
  <2>1. OnlyOne(r, k) /\ request[r].status = "PROCESSING" /\ refunds[r] = 0
    BY <1>1, <1>6, SentIsOpen
  <2>2. OnlyOne(r, k)'
    BY <1>3, <2>1 DEF OnlyOne
  <2>3. Paid(r) = 0
    BY <1>1, <2>1, PaidOnce
  <2>4. Paid(r)' = IF state = "mined" THEN 1 ELSE 0
    BY <1>3, <2>2, CountsOne DEF OnlyOne, Paid
  <2>5. OutcomeOf(r) = "open"
    BY <1>6, <2>1, <2>3 DEF OutcomeOf
  <2>6. OutcomeOf(r)' = IF state = "mined" THEN "paid" ELSE "open"
    BY <1>1, <1>6, <2>1, <2>4 DEF OutcomeOf
  <2> QED BY <1>4, <2>5, <2>6, Pays, Stutters
<1> QED BY <1>5, <1>6 DEF Promise!Next

LEMMA WalletChangesKeeps ==
  ASSUME IInv, IInv', NEW u \in User, WalletChanges(u)
  PROVE  [Promise!Next]_(Promise!vars)
<1>1. /\ TypeOK /\ TypeOK' /\ \A v \in User \ {u} : chips'[v] = chips[v]
      /\ UNCHANGED <<cooling, request, job, chain, refunds, void, owed, crashes>>
  BY DEF IInv, TypeOK, WalletChanges
<1>2. \A r \in Request : OutcomeOf(r)' = OutcomeOf(r) /\ AmountOf(r)' = AmountOf(r)
  BY <1>1, OutcomeKept DEF AmountOf
<1>3. \A v \in User \ {u} : AccountOf(v)' = AccountOf(v)
  BY <1>1 DEF AccountOf
<1>4. ASSUME AccountOf(u) = Unknown PROVE AccountOf(u)' = AccountOf(u)
  BY <1>1, <1>4, UnknownAssumption DEF AccountOf, TypeOK
<1>5. ASSUME AccountOf(u) # Unknown PROVE AccountOf(u)' \in Nat
  BY <1>1, <1>5 DEF AccountOf, TypeOK
<1> QED BY <1>2, <1>3, <1>4, <1>5, Changes, Stutters DEF Promise!Next

LEMMA StepKeeps ==
  ASSUME IInv, IInv', NEW j \in Job, Step(j) \/ Throw(j)
  PROVE  [Promise!Next]_(Promise!vars)
<1>1. TypeOK /\ TypeOK' /\ job[j].at # "idle"
  BY StepsOn DEF IInv
<1>2. CASE \/ CheckAvailable(j) \/ SetCooldown(j) \/ LogApproval(j) \/ ReadBalance(j)
           \/ Load(j) \/ Wait(j) \/ Throw(j) \/ Fail(j)
  <2>1. void \subseteq void' /\ UNCHANGED <<chips, request, chain, refunds>>
    BY <1>2 DEF CheckAvailable, SetCooldown, LogApproval, ReadBalance, Load, Wait, Throw, Fail,
       Commit, VoidIf
  <2> QED BY <1>1, <2>1, Quiet
<1>3. CASE Approve(j) \/ MarkRejected(j) \/ Confirm(j) \/ MarkFailed(j)
  <2>1. /\ job[j].at \notin {"idle", "check", "deduct"}
        /\ \E st \in Status \ {"NONE"} : request' = [request EXCEPT ![job[j].req].status = st]
        /\ void \subseteq void' /\ UNCHANGED <<chips, chain, refunds>>
    BY <1>3 DEF Approve, MarkRejected, Confirm, MarkFailed, Status
  <2> QED BY <1>1, <2>1, QuietStatus
<1>4. CASE SaveHash(j)
  <2>1. /\ request' = [request EXCEPT ![job[j].req].hash = job[j].hash]
        /\ UNCHANGED <<chips, chain, refunds, void>>
    BY <1>4 DEF SaveHash
  <2>2. \A r \in Request : /\ request'[r].amount = request[r].amount
                           /\ request'[r].status = request[r].status
    BY <1>1, <2>1 DEF TypeOK
  <2> QED BY <1>1, <2>1, <2>2, Quiet
<1>5. CASE Transfer(j)
  \* A transfer that is only sent pays nobody yet.
  <2>1. PICK r \in Request : job[j].req = r
    BY <1>1, WorksOn
  <2>2. /\ chain' = [chain EXCEPT ![r] = Append(chain[r], "sent")]
        /\ chain[r] \in Seq(Transfers) /\ chain \in [Request -> Seq(Transfers)]
        /\ UNCHANGED <<chips, request, refunds, void>>
    BY <1>1, <1>5, <2>1 DEF Transfer, TypeOK
  <2>3. Paid(r)' = Paid(r)
    <3>1. chain'[r] = Append(chain[r], "sent")
      BY <2>2
    <3>2. /\ Len(chain'[r]) = Len(chain[r]) + 1 /\ Len(chain[r]) \in Nat
          /\ chain'[r][Len(chain[r]) + 1] = "sent"
          /\ \A k \in 1 .. Len(chain[r]) : chain'[r][k] = chain[r][k]
      BY <2>2, <3>1 DEF Transfers
    <3>3. {k \in 1 .. Len(chain'[r]) : chain'[r][k] = "mined"}
            = {k \in 1 .. Len(chain[r]) : chain[r][k] = "mined"}
      BY <3>2
    <3> QED BY <3>3 DEF Paid
  <2>4. \A s \in Request \ {r} : Paid(s)' = Paid(s)
    BY <2>2, PaidStays
  <2>5. \A s \in Request : OutcomeOf(s)' = OutcomeOf(s) /\ AmountOf(s)' = AmountOf(s)
    BY <2>2, <2>3, <2>4 DEF OutcomeOf, AmountOf
  <2>6. \A u \in User : AccountOf(u)' = AccountOf(u)
    BY <2>2 DEF AccountOf
  <2> QED BY <2>5, <2>6, Stutters
<1> QED BY <1>2, <1>3, <1>4, <1>5, DeductKeeps, RepayKeeps DEF Step

LEMMA NextKeeps ==
  ASSUME IInv, IInv', [Next]_vars
  PROVE  [Promise!Next]_(Promise!vars)
<1>1. TypeOK /\ TypeOK'
  BY DEF IInv
<1>2. ASSUME void \subseteq void', UNCHANGED <<chips, request, chain, refunds>>
      PROVE  [Promise!Next]_(Promise!vars)
  BY <1>1, <1>2, Quiet
<1>3. CASE Calls \/ CheckStaleProcessing \/ \E u \in User : CooldownEnds(u)
  BY <1>2, <1>3 DEF Calls, CreateWithdraw, ProcessWithdraw, CheckStaleProcessing, CooldownEnds,
     Commit, VoidIf
<1>4. CASE Crash \/ \E j \in Job : DatabaseFails(j)
  BY <1>2, <1>4 DEF Crash, DatabaseFails, Lose
<1>5. CASE Chain
  <2>1. PICK r \in Request :
          \E k \in 1 .. Len(chain[r]) : Mine(r, k, "mined") \/ Mine(r, k, "reverted")
    BY <1>5 DEF Chain
  <2> QED BY <2>1, MineKeeps
<1>6. CASE UNCHANGED vars
  BY <1>2, <1>6 DEF vars
<1> QED BY <1>3, <1>4, <1>5, <1>6, StepKeeps, WalletChangesKeeps DEF Next

LEMMA InitKeeps == Init => Promise!Init
<1> SUFFICES ASSUME Init PROVE Promise!Init
  OBVIOUS
<1>1. \A r \in Request : OutcomeOf(r) = "none" /\ AmountOf(r) = 0
  BY DEF Init, OutcomeOf, AmountOf
<1>2. \A u \in User : AccountOf(u) \in Nat
  BY AmountAssumption DEF Init, AccountOf
<1> QED BY <1>1, <1>2 DEF Promise!Init

\* PromiseKept: the withdrawal service implements WithdrawPromise, through every
\* overlap of calls, crash and failure of the chain.
THEOREM WithdrawalsKeepPromise == Spec => PromiseKept
<1>1. IInv /\ IInv' /\ [Next]_vars => [Promise!Next]_(Promise!vars)
  BY NextKeeps
<1> QED BY <1>1, InitKeeps, IInvInvariance, PTL DEF PromiseKept, Promise!Spec, Spec
=============================================================================
