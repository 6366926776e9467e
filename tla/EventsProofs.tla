---------------------------- MODULE EventsProofs ----------------------------
(* The events of the Anchor tell an indexer what it stores, for every value *)
(* of the constants for which stakes and treasury do not wrap.              *)
EXTENDS AnchorEvents, ConservationProofs

-----------------------------------------------------------------------------
(* Reading the events of one call. *)

\* g reads the events of es at each set of positions, the last one last.
ReadsOf(g, ix, es) ==
    g = [s \in SUBSET DOMAIN es |->
            IF s = {} THEN ix ELSE ReadEvent(g[s \ {Max(s)}], es[Max(s)])]

\* FoldLeft reads by that recursion.
LEMMA FoldUnfold ==
    ASSUME NEW ix, NEW es
    PROVE  FoldLeft(ReadEvent, ix, es) = (CHOOSE g : ReadsOf(g, ix, es))[DOMAIN es]
BY DEF FoldLeft, MapThenFoldSet, ReadsOf

\* A call that publishes nothing teaches nothing.
LEMMA ReadNone ==
    ASSUME NEW ix
    PROVE  FoldLeft(ReadEvent, ix, << >>) = ix
<1> DEFINE h == [s \in {{}} |-> ix]
           g == CHOOSE g : ReadsOf(g, ix, << >>)
<1>1. DOMAIN << >> = {} /\ SUBSET {} = {{}}
    OBVIOUS
<1>2. ReadsOf(h, ix, << >>)
    BY <1>1 DEF ReadsOf
<1>3. ReadsOf(g, ix, << >>)
    BY <1>2
<1> HIDE DEF g
<1>4. g[{}] = ix
    BY <1>1, <1>3 DEF ReadsOf
<1> QED
    BY <1>1, <1>4, FoldUnfold DEF g

\* One event.
LEMMA ReadOne ==
    ASSUME NEW ix, NEW e
    PROVE  FoldLeft(ReadEvent, ix, <<e>>) = ReadEvent(ix, e)
<1> DEFINE es == <<e>>
           h == [s \in {{}, {1}} |-> IF s = {} THEN ix ELSE ReadEvent(ix, e)]
           g == CHOOSE g : ReadsOf(g, ix, es)
<1>1. DOMAIN es = {1} /\ es[1] = e /\ SUBSET {1} = {{}, {1}}
    OBVIOUS
<1>2. Max({1}) = 1 /\ {1} \ {1} = {} /\ {1} # {}
    BY DEF Max
<1>0. FoldLeft(ReadEvent, ix, <<e>>) = g[DOMAIN es]
    BY FoldUnfold
<1> HIDE DEF es
<1>3. ReadsOf(h, ix, es)
    BY <1>1, <1>2 DEF ReadsOf
<1>4. ReadsOf(g, ix, es)
    BY <1>3
<1> HIDE DEF g
<1>5. g[{}] = ix /\ g[{1}] = ReadEvent(g[{}], e)
    BY <1>1, <1>2, <1>4 DEF ReadsOf
<1> QED
    BY <1>0, <1>1, <1>5

\* Two events, in the order of publication.
LEMMA ReadTwo ==
    ASSUME NEW ix, NEW es, DOMAIN es = {1, 2}
    PROVE  FoldLeft(ReadEvent, ix, es) = ReadEvent(ReadEvent(ix, es[1]), es[2])
<1> DEFINE h == [s \in {{}, {1}, {2}, {1, 2}} |->
                    IF s = {} THEN ix
                    ELSE IF s = {1} THEN ReadEvent(ix, es[1])
                    ELSE IF s = {2} THEN ReadEvent(ix, es[2])
                    ELSE ReadEvent(ReadEvent(ix, es[1]), es[2])]
           g == CHOOSE g : ReadsOf(g, ix, es)
<1>1. DOMAIN es = {1, 2} /\ SUBSET {1, 2} = {{}, {1}, {2}, {1, 2}}
    OBVIOUS
<1>2. Max({1}) = 1 /\ Max({2}) = 2 /\ Max({1, 2}) = 2
    BY DEF Max
<1>3. /\ {1} \ {1} = {} /\ {2} \ {2} = {} /\ {1, 2} \ {2} = {1}
      /\ {1} # {} /\ {2} # {} /\ {1, 2} # {} /\ {1} # {2} /\ {1, 2} # {1} /\ {1, 2} # {2}
    OBVIOUS
<1>0. FoldLeft(ReadEvent, ix, es) = g[DOMAIN es]
    BY FoldUnfold
<1>4. ReadsOf(h, ix, es)
    <2>1. /\ h[{}] = ix /\ h[{1}] = ReadEvent(ix, es[1]) /\ h[{2}] = ReadEvent(ix, es[2])
          /\ h[{1, 2}] = ReadEvent(ReadEvent(ix, es[1]), es[2])
          /\ DOMAIN h = SUBSET DOMAIN es
        BY <1>1, <1>3
    <2>2. h = [s \in DOMAIN h |-> h[s]]
        OBVIOUS
    <2> HIDE DEF h
    <2>3. \A s \in SUBSET DOMAIN es :
             h[s] = IF s = {} THEN ix ELSE ReadEvent(h[s \ {Max(s)}], es[Max(s)])
        <3>1. \A s \in SUBSET DOMAIN es : s = {} \/ s = {1} \/ s = {2} \/ s = {1, 2}
            BY <1>1
        <3>2. /\ h[{1}] = ReadEvent(h[{1} \ {Max({1})}], es[Max({1})])
              /\ h[{2}] = ReadEvent(h[{2} \ {Max({2})}], es[Max({2})])
              /\ h[{1, 2}] = ReadEvent(h[{1, 2} \ {Max({1, 2})}], es[Max({1, 2})])
            BY <1>1, <1>2, <1>3, <2>1
        <3>3. ASSUME NEW s, s = {}
              PROVE  h[s] = IF s = {} THEN ix ELSE ReadEvent(h[s \ {Max(s)}], es[Max(s)])
            BY <2>1, <3>3, Zenon
        <3>4. ASSUME NEW s, s = {1} \/ s = {2} \/ s = {1, 2}
              PROVE  h[s] = IF s = {} THEN ix ELSE ReadEvent(h[s \ {Max(s)}], es[Max(s)])
            <4>1. s # {}
                BY <1>3, <3>4, Zenon
            <4>2. h[s] = ReadEvent(h[s \ {Max(s)}], es[Max(s)])
                BY <3>2, <3>4, Zenon
            <4> QED
                BY <4>1, <4>2, Zenon
        <3> QED
            BY <3>1, <3>3, <3>4, Zenon
    <2> QED
        BY <2>1, <2>2, <2>3 DEF ReadsOf
<1>5. ReadsOf(g, ix, es)
    BY <1>4
<1> HIDE DEF g
<1>6. g[{}] = ix /\ g[{1}] = ReadEvent(g[{}], es[1]) /\ g[{1, 2}] = ReadEvent(g[{1}], es[2])
    <2>1. \A s \in SUBSET DOMAIN es :
             g[s] = IF s = {} THEN ix ELSE ReadEvent(g[s \ {Max(s)}], es[Max(s)])
        BY <1>5, Zenon DEF ReadsOf
    <2>2. {} \in SUBSET DOMAIN es /\ {1} \in SUBSET DOMAIN es /\ {1, 2} \in SUBSET DOMAIN es
        BY <1>1
    <2>3. /\ g[{}] = ix /\ g[{1}] = ReadEvent(g[{1} \ {Max({1})}], es[Max({1})])
          /\ g[{1, 2}] = ReadEvent(g[{1, 2} \ {Max({1, 2})}], es[Max({1, 2})])
        BY <1>3, <2>1, <2>2, Zenon
    <2> QED
        BY <1>2, <1>3, <2>3, Zenon
<1> QED
    BY <1>0, <1>1, <1>6

-----------------------------------------------------------------------------
(* What each event teaches. *)

\* An index, by its fields.
Ix(stakes, credit, terms, due, ran, paid, fees) ==
    [stakes |-> stakes, executions |-> credit, terms |-> terms, next |-> due,
     runs |-> ran, paid |-> paid, treasury |-> fees]

IxFields == {"stakes", "executions", "terms", "next", "runs", "paid", "treasury"}

\* An index is determined by its fields.
LEMMA SameIndex ==
    ASSUME NEW S, NEW E, NEW I, NEW N, NEW R, NEW p, NEW t,
           NEW r, r = [f \in IxFields |-> r[f]],
           r.stakes = S, r.executions = E, r.terms = I, r.next = N, r.runs = R,
           r.paid = p, r.treasury = t
    PROVE  r = Ix(S, E, I, N, R, p, t)
BY DEF Ix, IxFields

\* The fields of an index.
LEMMA IxIs ==
    ASSUME NEW S, NEW E, NEW I, NEW N, NEW R, NEW p, NEW t,
           NEW ix, ix = Ix(S, E, I, N, R, p, t)
    PROVE  /\ DOMAIN ix = IxFields /\ ix = [f \in IxFields |-> ix[f]]
           /\ ix.stakes = S /\ ix.executions = E /\ ix.terms = I /\ ix.next = N
           /\ ix.runs = R /\ ix.paid = p /\ ix.treasury = t
BY DEF Ix, IxFields

\* A keeper registers.
LEMMA ReadRegistered ==
    ASSUME NEW S, NEW E, NEW I, NEW N, NEW R, NEW p, NEW t, NEW a, NEW s
    PROVE  ReadEvent(Ix(S, E, I, N, R, p, t), emit_keeper_registered(a, s))
             = Ix(Put(S, a, s), Put(E, a, 0), I, N, R, p, t)
<1> DEFINE e == emit_keeper_registered(a, s)
           ix == Ix(S, E, I, N, R, p, t)
<1>1. e.topic = "kpr_reg" /\ e.keeper = a /\ e.stake = s
    BY DEF emit_keeper_registered
<1> HIDE DEF e
<1>2. ReadEvent(ix, e) = [ix EXCEPT !.stakes = Put(@, e.keeper, e.stake),
                                    !.executions = Put(@, e.keeper, 0)]
    BY <1>1 DEF ReadEvent
<1>3. /\ DOMAIN ix = IxFields
      /\ ix.stakes = S /\ ix.executions = E /\ ix.terms = I /\ ix.next = N
      /\ ix.runs = R /\ ix.paid = p /\ ix.treasury = t
    BY IxIs
<1> HIDE DEF ix
<1> DEFINE r == ReadEvent(ix, e)
<1>4. r.stakes = Put(S, a, s) /\ r.executions = Put(E, a, 0)
    BY <1>1, <1>2, <1>3 DEF IxFields
<1>5. r.terms = I /\ r.next = N /\ r.runs = R /\ r.paid = p /\ r.treasury = t
    BY <1>1, <1>2, <1>3 DEF IxFields
<1>6. r = [f \in IxFields |-> r[f]]
    BY <1>2, <1>3
<1> HIDE DEF r
<1>7. r = Ix(Put(S, a, s), Put(E, a, 0), I, N, R, p, t)
    BY <1>4, <1>5, <1>6, SameIndex
<1> QED
    BY <1>7 DEF r, ix, e

\* A task is provisioned.
LEMMA ReadProvisioned ==
    ASSUME NEW S, NEW E, NEW I, NEW N, NEW R, NEW p, NEW t, NEW id, NEW i, NEW w, NEW d
    PROVE  ReadEvent(Ix(S, E, I, N, R, p, t), emit_task_provisioned(id, i, w, d))
             = Ix(S, E, Put(I, id, Terms(i, w, d)), Put(N, id, AddU32(ledger, i)), Put(R, id, 0), p, t)
<1> DEFINE e == emit_task_provisioned(id, i, w, d)
           ix == Ix(S, E, I, N, R, p, t)
<1>1. /\ e.topic = "task_prov" /\ e.id = id /\ e.interval = i /\ e.ledger = ledger
      /\ e.reward = w /\ e.designated = d
    BY DEF emit_task_provisioned
<1> HIDE DEF e
<1>2. ReadEvent(ix, e) = [ix EXCEPT !.runs = Put(@, e.id, 0),
                                    !.terms = Put(@, e.id,
                                                  Terms(e.interval, e.reward, e.designated)),
                                    !.next = Put(@, e.id, AddU32(e.ledger, e.interval))]
    BY <1>1 DEF ReadEvent
<1>3. /\ DOMAIN ix = IxFields
      /\ ix.stakes = S /\ ix.executions = E /\ ix.terms = I /\ ix.next = N
      /\ ix.runs = R /\ ix.paid = p /\ ix.treasury = t
    BY IxIs
<1> HIDE DEF ix
<1> DEFINE r == ReadEvent(ix, e)
<1>4. /\ r.terms = Put(I, id, Terms(i, w, d)) /\ r.next = Put(N, id, AddU32(ledger, i))
      /\ r.runs = Put(R, id, 0)
    BY <1>1, <1>2, <1>3 DEF IxFields
<1>5. r.stakes = S /\ r.executions = E /\ r.paid = p /\ r.treasury = t
    BY <1>1, <1>2, <1>3 DEF IxFields
<1>6. r = [f \in IxFields |-> r[f]]
    BY <1>2, <1>3
<1> HIDE DEF r
<1>7. r = Ix(S, E, Put(I, id, Terms(i, w, d)), Put(N, id, AddU32(ledger, i)), Put(R, id, 0), p, t)
    BY <1>4, <1>5, <1>6, SameIndex
<1> QED
    BY <1>7 DEF r, ix, e

\* A keeper is slashed.
LEMMA ReadSlashed ==
    ASSUME NEW S, NEW E, NEW I, NEW N, NEW R, NEW p, NEW t, NEW k, NEW amount, NEW s
    PROVE  ReadEvent(Ix(S, E, I, N, R, p, t), emit_slash_applied(k, amount, s))
             = Ix([S EXCEPT ![k] = s], E, I, N, R, p, t)
<1> DEFINE e == emit_slash_applied(k, amount, s)
           ix == Ix(S, E, I, N, R, p, t)
<1>1. e.topic = "slashed" /\ e.keeper = k /\ e.stake = s
    BY DEF emit_slash_applied
<1> HIDE DEF e
<1>2. ReadEvent(ix, e) = [ix EXCEPT !.stakes[e.keeper] = e.stake]
    BY <1>1 DEF ReadEvent
<1> QED
    BY <1>1, <1>2 DEF Ix, e

\* A missed window is told and changes nothing.
LEMMA ReadMissed ==
    ASSUME NEW ix, NEW id, NEW elapsed
    PROVE  ReadEvent(ix, emit_missed_execution(id, elapsed)) = ix
<1> DEFINE e == emit_missed_execution(id, elapsed)
<1>1. e.topic = "missed"
    BY DEF emit_missed_execution
<1> HIDE DEF e
<1>2. ReadEvent(ix, e) = ix
    BY <1>1 DEF ReadEvent
<1> QED
    BY <1>2 DEF e

\* A run, as both kinds of execution event tell it.
LEMMA ReadRunFields ==
    ASSUME NEW ix, NEW e, DOMAIN ix = IxFields
    PROVE  LET r == ReadRun(ix, e)
           IN  /\ r = [f \in IxFields |-> r[f]]
               /\ r.stakes = ix.stakes /\ r.terms = ix.terms
               /\ r.treasury = ix.treasury /\ r.paid = ix.paid + e.reward
               /\ r.executions = [ix.executions EXCEPT ![e.keeper] = @ + 1]
               /\ r.next = [ix.next EXCEPT ![e.id] = AddU32(e.ledger, ix.terms[e.id].interval)]
               /\ r.runs = [ix.runs EXCEPT ![e.id] = @ + 1]
<1> DEFINE r == ReadRun(ix, e)
<1>1. r = [ix EXCEPT !.runs[e.id] = @ + 1,
                     !.next[e.id] = AddU32(e.ledger, ix.terms[e.id].interval),
                     !.executions[e.keeper] = @ + 1,
                     !.paid = @ + e.reward]
    BY DEF ReadRun
<1> HIDE DEF r
<1>2. /\ r.stakes = ix.stakes /\ r.terms = ix.terms
      /\ r.treasury = ix.treasury /\ r.paid = ix.paid + e.reward
    BY <1>1 DEF IxFields
<1>3. r.executions = [ix.executions EXCEPT ![e.keeper] = @ + 1]
    BY <1>1 DEF IxFields
<1>4. r.next = [ix.next EXCEPT ![e.id] = AddU32(e.ledger, ix.terms[e.id].interval)]
    BY <1>1 DEF IxFields
<1>5. r.runs = [ix.runs EXCEPT ![e.id] = @ + 1]
    BY <1>1 DEF IxFields
<1>6. r = [f \in IxFields |-> r[f]]
    BY <1>1
<1> QED
    BY <1>2, <1>3, <1>4, <1>5, <1>6 DEF r

\* A run without a slash.
LEMMA ReadExecuted ==
    ASSUME NEW ix, NEW e, DOMAIN ix = IxFields, e.topic = "task_exec"
    PROVE  LET r == ReadEvent(ix, e)
           IN  /\ r = [f \in IxFields |-> r[f]]
               /\ r.stakes = ix.stakes /\ r.terms = ix.terms
               /\ r.treasury = ix.treasury /\ r.paid = ix.paid + e.reward
               /\ r.executions = [ix.executions EXCEPT ![e.keeper] = @ + 1]
               /\ r.next = [ix.next EXCEPT ![e.id] = AddU32(e.ledger, ix.terms[e.id].interval)]
               /\ r.runs = [ix.runs EXCEPT ![e.id] = @ + 1]
<1> DEFINE q == ReadRun(ix, e)
           r == ReadEvent(ix, e)
<1>1. r = q
    BY DEF ReadEvent
<1>2. /\ q = [f \in IxFields |-> q[f]]
      /\ q.stakes = ix.stakes /\ q.terms = ix.terms
      /\ q.treasury = ix.treasury /\ q.paid = ix.paid + e.reward
      /\ q.executions = [ix.executions EXCEPT ![e.keeper] = @ + 1]
      /\ q.next = [ix.next EXCEPT ![e.id] = AddU32(e.ledger, ix.terms[e.id].interval)]
      /\ q.runs = [ix.runs EXCEPT ![e.id] = @ + 1]
    BY ReadRunFields
<1> HIDE DEF q, r
<1> QED
    BY <1>1, <1>2 DEF r

\* A secondary run.
LEMMA ReadSecondary ==
    ASSUME NEW ix, NEW e, DOMAIN ix = IxFields, e.topic = "task_sec"
    PROVE  LET r == ReadEvent(ix, e)
           IN  /\ r = [f \in IxFields |-> r[f]]
               /\ r.stakes = ix.stakes /\ r.terms = ix.terms
               /\ r.treasury = ix.treasury + e.slash - e.bonus
               /\ r.paid = ix.paid + e.reward + e.bonus
               /\ r.executions = [ix.executions EXCEPT ![e.keeper] = @ + 1]
               /\ r.next = [ix.next EXCEPT ![e.id] = AddU32(e.ledger, ix.terms[e.id].interval)]
               /\ r.runs = [ix.runs EXCEPT ![e.id] = @ + 1]
<1> DEFINE q == ReadRun(ix, e)
           r == ReadEvent(ix, e)
<1>1. r = [q EXCEPT !.paid = @ + e.bonus, !.treasury = @ + e.slash - e.bonus]
    BY DEF ReadEvent
<1>2. /\ q = [f \in IxFields |-> q[f]]
      /\ q.stakes = ix.stakes /\ q.terms = ix.terms
      /\ q.treasury = ix.treasury /\ q.paid = ix.paid + e.reward
      /\ q.executions = [ix.executions EXCEPT ![e.keeper] = @ + 1]
      /\ q.next = [ix.next EXCEPT ![e.id] = AddU32(e.ledger, ix.terms[e.id].interval)]
      /\ q.runs = [ix.runs EXCEPT ![e.id] = @ + 1]
    BY ReadRunFields
<1> HIDE DEF q, r
<1>3. DOMAIN q = IxFields
    BY <1>2
<1>4. /\ r.stakes = q.stakes /\ r.executions = q.executions /\ r.terms = q.terms
      /\ r.next = q.next /\ r.runs = q.runs
      /\ r.paid = q.paid + e.bonus /\ r.treasury = q.treasury + e.slash - e.bonus
    BY <1>1, <1>3 DEF IxFields
<1>5. r = [f \in IxFields |-> r[f]]
    BY <1>1, <1>3
<1> QED
    BY <1>2, <1>4, <1>5 DEF r

-----------------------------------------------------------------------------
(* What each call does to the stored values that the index follows. *)

StakeOf == [k \in DOMAIN keepers |-> keepers[k].stake_amount]
TermsOf == [id \in DOMAIN tasks |->
            Terms(tasks[id].execution_interval_ledgers, tasks[id].micro_reward_per_run,
                  tasks[id].designated_keeper)]
Due == [id \in DOMAIN tasks |-> tasks[id].next_allowed_execution]

\* The invariant in these terms.
LEMMA IndexExactIs ==
    /\ IndexExact <=> index = Ix(StakeOf, Credits, TermsOf, Due, runs, funded - balance, treasury)
    /\ IndexExact' <=> index' = Ix(StakeOf', Credits', TermsOf', Due', runs', funded' - balance',
                                   treasury')
BY DEF IndexExact, Ix, StakeOf, Credits, TermsOf, Due

\* A registration adds a keeper with its stake and no executions.
LEMMA RegisterIndexed ==
    ASSUME AnchorInv, NEW a \in Address, NEW s \in Stakes, RegisterKeeper(a, s)
    PROVE  /\ StakeOf' = Put(StakeOf, a, s) /\ Credits' = Put(Credits, a, 0)
           /\ TermsOf' = TermsOf /\ Due' = Due /\ runs' = runs
           /\ funded' = funded /\ balance' = balance /\ treasury' = treasury
<1>1. /\ keepers' = Put(keepers, a, [stake_amount |-> s, last_execution_ledger |-> 0,
                                    total_executions |-> 0, ineligible |-> FALSE])
      /\ tasks' = tasks /\ runs' = runs
      /\ funded' = funded /\ balance' = balance /\ treasury' = treasury
    BY DEF RegisterKeeper
<1>2. /\ DOMAIN keepers' = DOMAIN keepers \cup {a}
      /\ \A k \in DOMAIN keepers' : keepers'[k].stake_amount
                                     = IF k = a THEN s ELSE keepers[k].stake_amount
      /\ \A k \in DOMAIN keepers' : keepers'[k].total_executions
                                     = IF k = a THEN 0 ELSE keepers[k].total_executions
    BY <1>1 DEF Put
<1>3. StakeOf' = Put(StakeOf, a, s)
    BY <1>2 DEF StakeOf, Put
<1>4. Credits' = Put(Credits, a, 0)
    BY <1>2 DEF Credits, Put
<1> QED
    BY <1>1, <1>3, <1>4 DEF TermsOf, Due

\* A provisioned task comes with its terms and its first schedule.
LEMMA ProvisionIndexed ==
    ASSUME AnchorInv, NEW a, NEW i, NEW r, NEW d, ProvisionTask(a, i, r, d)
    PROVE  /\ TermsOf' = Put(TermsOf, NewTaskId, Terms(i, r, d))
           /\ Due' = Put(Due, NewTaskId, AddU32(ledger, i))
           /\ runs' = Put(runs, NewTaskId, 0)
           /\ StakeOf' = StakeOf /\ Credits' = Credits
           /\ funded' = funded /\ balance' = balance /\ treasury' = treasury
<1>1. /\ tasks' = Put(tasks, NewTaskId,
                    [execution_interval_ledgers |-> i, next_allowed_execution |-> AddU32(ledger, i),
                     micro_reward_per_run |-> r, designated_keeper |-> d])
      /\ runs' = Put(runs, NewTaskId, 0) /\ keepers' = keepers
      /\ funded' = funded /\ balance' = balance /\ treasury' = treasury
    BY DEF ProvisionTask
<1> DEFINE new == NewTaskId
<1> HIDE DEF new
<1>2. /\ DOMAIN tasks' = DOMAIN tasks \cup {new}
      /\ \A id \in DOMAIN tasks' : tasks'[id].execution_interval_ledgers
                                    = IF id = new THEN i ELSE tasks[id].execution_interval_ledgers
      /\ \A id \in DOMAIN tasks' : tasks'[id].micro_reward_per_run
                                    = IF id = new THEN r ELSE tasks[id].micro_reward_per_run
      /\ \A id \in DOMAIN tasks' : tasks'[id].designated_keeper
                                    = IF id = new THEN d ELSE tasks[id].designated_keeper
      /\ \A id \in DOMAIN tasks' : tasks'[id].next_allowed_execution
              = IF id = new THEN AddU32(ledger, i) ELSE tasks[id].next_allowed_execution
    BY <1>1 DEF Put, new
<1>3. TermsOf' = Put(TermsOf, new, Terms(i, r, d))
    BY <1>2 DEF TermsOf, Put
<1>4. Due' = Put(Due, new, AddU32(ledger, i))
    BY <1>2 DEF Due, Put
<1> QED
    BY <1>1, <1>3, <1>4 DEF StakeOf, Credits, new

\* A run moves its own task's schedule by the interval and credits the caller.
LEMMA RunIndexed ==
    ASSUME AnchorInv, NEW id \in DOMAIN tasks, NEW c \in Address,
           ExecuteUnslashed(id, c) \/ ExecuteSecondary(id, c)
    PROVE  /\ Credits' = [Credits EXCEPT ![c] = @ + 1] /\ TermsOf' = TermsOf
           /\ Due' = [Due EXCEPT ![id] = AddU32(ledger, TermsOf[id].interval)]
           /\ runs' = [runs EXCEPT ![id] = @ + 1] /\ funded' = funded
<1>1. Credits' = [Credits EXCEPT ![c] = @ + 1]
    BY ExecutionCredits
<1>2. /\ tasks' = [tasks EXCEPT ![id] = Rescheduled(tasks[id])]
      /\ runs' = [runs EXCEPT ![id] = @ + 1] /\ funded' = funded
    BY DEF ExecuteUnslashed, ExecuteSecondary, ExecuteDistribution
<1>3. tasks[id] \in ExecutionTask
    BY DEF AnchorInv, TypeOK
<1>4. /\ Rescheduled(tasks[id]).execution_interval_ledgers = tasks[id].execution_interval_ledgers
      /\ Rescheduled(tasks[id]).micro_reward_per_run = tasks[id].micro_reward_per_run
      /\ Rescheduled(tasks[id]).designated_keeper = tasks[id].designated_keeper
      /\ Rescheduled(tasks[id]).next_allowed_execution
           = AddU32(ledger, tasks[id].execution_interval_ledgers)
    BY <1>3, RescheduledFields
<1>5. TermsOf' = TermsOf
    BY <1>2, <1>4 DEF TermsOf
<1>6. Due' = [Due EXCEPT ![id] = AddU32(ledger, TermsOf[id].interval)]
    <2>1. TermsOf[id].interval = tasks[id].execution_interval_ledgers
        BY DEF TermsOf, Terms
    <2> QED
        BY <1>2, <1>4, <2>1 DEF Due
<1> QED
    BY <1>1, <1>2, <1>5, <1>6

\* A run without a slash pays the reward and leaves stakes and treasury alone.
LEMMA UnslashedIndexed ==
    ASSUME AnchorInv, NEW id \in DOMAIN tasks, NEW c \in Address, ExecuteUnslashed(id, c)
    PROVE  /\ StakeOf' = StakeOf /\ treasury' = treasury
           /\ funded' - balance' = (funded - balance) + tasks[id].micro_reward_per_run
<1>1. /\ DOMAIN keepers' = DOMAIN keepers
      /\ \A k \in DOMAIN keepers : keepers'[k].stake_amount = keepers[k].stake_amount
    BY UnslashedKeepers
<1>2. StakeOf' = StakeOf
    BY <1>1 DEF StakeOf
<1>3. /\ treasury' = treasury /\ funded' = funded
      /\ balance' = balance - tasks[id].micro_reward_per_run - 0
    BY DEF ExecuteUnslashed, ExecuteDistribution
<1>4. funded \in Nat /\ balance \in Nat /\ tasks[id].micro_reward_per_run \in Int
    BY DEF AnchorInv, TypeOK, ExecutionTask
<1> QED
    BY <1>2, <1>3, <1>4

\* A secondary run pays reward and bonus, slashes one stake and gives the treasury
\* the rest of the slash: nothing wraps.
LEMMA SecondaryIndexed ==
    ASSUME AnchorInv, AnchorInv', FiniteStorage, StakesBounded, LossesAccounted,
           LossesAccounted', NEW id \in DOMAIN tasks, NEW c \in Address, ExecuteSecondary(id, c)
    PROVE  LET d == tasks[id].designated_keeper
               s == keepers[d].stake_amount
           IN  /\ StakeOf' = [StakeOf EXCEPT ![d] = WrapI128(s - SlashAmount(s))]
               /\ funded' - balance' = (funded - balance) + tasks[id].micro_reward_per_run
                                                          + SecondaryReward(s)
               /\ treasury' = treasury + SlashAmount(s) - SecondaryReward(s)
<1> DEFINE d == tasks[id].designated_keeper
           s == keepers[d].stake_amount
           reward == tasks[id].micro_reward_per_run
<1>1. /\ DOMAIN keepers' = DOMAIN keepers /\ d \in DOMAIN keepers
      /\ keepers'[d] = SlashedKeeper(keepers[d])
      /\ \A k \in DOMAIN keepers : k # d => keepers'[k].stake_amount = keepers[k].stake_amount
    BY SecondaryKeepers
<1>2. keepers[d] \in Keeper /\ SlashedKeeper(keepers[d]).stake_amount = WrapI128(s - SlashAmount(s))
    <2>1. keepers[d] \in Keeper
        BY <1>1 DEF AnchorInv, TypeOK
    <2> QED
        BY <2>1 DEF SlashedKeeper, Keeper
<1>3. StakeOf' = [StakeOf EXCEPT ![d] = WrapI128(s - SlashAmount(s))]
    BY <1>1, <1>2 DEF StakeOf
<1>4. /\ s \in Nat /\ s * 5 < I128
      /\ SumFunction(Lost') = SumFunction(Lost) + SlashAmount(s)
    BY SlashLosses
<1>5. /\ SecondaryReward(s) \in Nat /\ TreasuryPortion(s) \in Nat
      /\ SecondaryReward(s) + TreasuryPortion(s) = SlashAmount(s)
    BY <1>4, SlashSplit
<1>6. /\ secondaryPaid' = secondaryPaid
                            + IF SecondaryReward(s) > 0 THEN SecondaryReward(s) ELSE 0
      /\ balance' = balance - reward - IF SecondaryReward(s) > 0 THEN SecondaryReward(s) ELSE 0
      /\ funded' = funded
    BY DEF ExecuteSecondary, ExecuteDistribution
<1>7. /\ funded \in Nat /\ balance \in Nat /\ reward \in Int /\ secondaryPaid \in Nat
      /\ treasury \in Int /\ treasury' \in Int /\ secondaryPaid' \in Nat
    BY DEF AnchorInv, TypeOK, ExecutionTask
<1>8. /\ SumFunction(Lost) = treasury + secondaryPaid
      /\ SumFunction(Lost') = treasury' + secondaryPaid'
    BY DEF LossesAccounted, SlashConservation, Lost
<1> HIDE DEF s, reward
<1>9. secondaryPaid' = secondaryPaid + SecondaryReward(s) /\ balance' = balance - reward - SecondaryReward(s)
    BY <1>5, <1>6
<1>10. funded' - balance' = (funded - balance) + reward + SecondaryReward(s)
    BY <1>5, <1>6, <1>7, <1>9
<1>11. treasury' = treasury + SlashAmount(s) - SecondaryReward(s)
    <2>1. treasury' + secondaryPaid' = treasury + secondaryPaid + SlashAmount(s)
        BY <1>4, <1>8
    <2> QED
        BY <1>5, <1>7, <1>9, <2>1
<1> QED
    BY <1>3, <1>10, <1>11 DEF s, reward

-----------------------------------------------------------------------------
(* The index follows storage. *)

\* Each call publishes what brings the index up to date.
LEMMA IndexStep ==
    ASSUME AnchorInv, AnchorInv', FiniteStorage, StakesBounded, LossesAccounted,
           LossesAccounted', IndexExact, [EventsNext]_<<vars, index>>
    PROVE  IndexExact'
<1> DEFINE paid == funded - balance
<1>0. index = Ix(StakeOf, Credits, TermsOf, Due, runs, paid, treasury)
    BY IndexExactIs
<1>f. /\ DOMAIN index = IxFields
      /\ index.stakes = StakeOf /\ index.executions = Credits /\ index.terms = TermsOf
      /\ index.next = Due /\ index.runs = runs /\ index.paid = paid /\ index.treasury = treasury
    BY <1>0, IxIs
<1> HIDE DEF paid
<1>1. ASSUME UNCHANGED <<keepers, tasks, runs, treasury>>, funded' - balance' = paid,
             index' = index
      PROVE  IndexExact'
    BY <1>0, <1>1 DEF IndexExact, Ix, StakeOf, Credits, TermsOf, Due
<1>2. CASE UNCHANGED <<vars, index>>
    BY <1>1, <1>2 DEF vars, storage, history, paid
<1>3. ASSUME NEW a \in Address, NEW m \in MinStakes, Initialize(a, m), Publish(<< >>)
      PROVE  IndexExact'
    BY <1>1, <1>3, ReadNone DEF Initialize, Publish, history, paid
<1>4. ASSUME RejectedCall \/ CloseLedger, Publish(<< >>)
      PROVE  IndexExact'
    BY <1>1, <1>4, ReadNone DEF RejectedCall, CloseLedger, Publish, vars, storage, history, paid
<1>5. ASSUME NEW amount \in Deposits, Fund(amount), Publish(<< >>)
      PROVE  IndexExact'
    <2>1. funded' = funded + amount /\ balance' = balance + amount
          /\ UNCHANGED <<keepers, tasks, runs, treasury>>
        BY <1>5 DEF Fund, storage
    <2>2. amount \in Nat /\ funded \in Nat /\ balance \in Nat
        BY AnchorConstants DEF AnchorInv, TypeOK
    <2>3. index' = index
        BY <1>5, ReadNone DEF Publish
    <2> QED
        BY <1>1, <2>1, <2>2, <2>3 DEF paid
<1>6. ASSUME NEW a \in Address, NEW s \in Stakes, RegisterKeeper(a, s),
             Publish(<<emit_keeper_registered(a, s)>>)
      PROVE  IndexExact'
    <2>1. index' = ReadEvent(index, emit_keeper_registered(a, s))
        BY <1>6, ReadOne DEF Publish
    <2>2. index' = Ix(Put(StakeOf, a, s), Put(Credits, a, 0), TermsOf, Due, runs, paid, treasury)
        BY <1>0, <2>1, ReadRegistered
    <2> QED
        BY <1>6, <2>2, RegisterIndexed, IndexExactIs DEF paid
<1>7. ASSUME NEW a \in Address, NEW d \in Address, NEW i \in Intervals, NEW r \in Rewards,
             ProvisionTask(a, i, r, d), Publish(<<emit_task_provisioned(NewTaskId, i, r, d)>>)
      PROVE  IndexExact'
    <2>1. index' = ReadEvent(index, emit_task_provisioned(NewTaskId, i, r, d))
        BY <1>7, ReadOne DEF Publish
    <2>2. index' = Ix(StakeOf, Credits, Put(TermsOf, NewTaskId, Terms(i, r, d)),
                      Put(Due, NewTaskId, AddU32(ledger, i)), Put(runs, NewTaskId, 0),
                      paid, treasury)
        BY <1>0, <2>1, ReadProvisioned
    <2> QED
        BY <1>7, <2>2, ProvisionIndexed, IndexExactIs DEF paid
<1>8. ASSUME NEW id \in DOMAIN tasks, NEW c \in Address, ExecuteUnslashed(id, c),
             Publish(ExecuteUnslashedEvents(id, c))
      PROVE  IndexExact'
    <2> DEFINE reward == tasks[id].micro_reward_per_run
               executed == emit_task_executed(id, c, reward)
               missed == emit_missed_execution(id, ledger - tasks[id].next_allowed_execution)
    <2>1. \/ Publish(<<missed, executed>>)
          \/ Publish(<<executed>>)
        BY <1>8 DEF ExecuteUnslashedEvents
    <2>2. index' = ReadEvent(index, executed)
        <3>1. CASE Publish(<<missed, executed>>)
            <4>1. ReadEvent(index, missed) = index
                BY ReadMissed
            <4> HIDE DEF missed, executed
            <4> DEFINE es == <<missed, executed>>
            <4>2. DOMAIN es = {1, 2} /\ es[1] = missed /\ es[2] = executed
                OBVIOUS
            <4> HIDE DEF es
            <4>3. FoldLeft(ReadEvent, index, es) = ReadEvent(ReadEvent(index, es[1]), es[2])
                BY <4>2, ReadTwo
            <4>4. index' = FoldLeft(ReadEvent, index, es)
                BY <3>1, Zenon DEF Publish, es
            <4> QED
                BY <4>1, <4>2, <4>3, <4>4
        <3>2. CASE Publish(<<executed>>)
            BY <3>2, ReadOne DEF Publish
        <3> QED
            BY <2>1, <3>1, <3>2
    <2>3. /\ index' = [f \in IxFields |-> index'[f]]
          /\ index'.stakes = index.stakes /\ index'.terms = index.terms
          /\ index'.treasury = index.treasury /\ index'.paid = index.paid + reward
          /\ index'.executions = [index.executions EXCEPT ![c] = @ + 1]
          /\ index'.next = [index.next EXCEPT ![id] = AddU32(ledger, index.terms[id].interval)]
          /\ index'.runs = [index.runs EXCEPT ![id] = @ + 1]
        <3>1. /\ executed.topic = "task_exec" /\ executed.id = id /\ executed.keeper = c
              /\ executed.ledger = ledger /\ executed.reward = reward
            BY DEF emit_task_executed
        <3> DEFINE r == ReadEvent(index, executed)
        <3> HIDE DEF reward, executed
        <3>2. /\ r = [f \in IxFields |-> r[f]]
              /\ r.stakes = index.stakes /\ r.terms = index.terms
              /\ r.treasury = index.treasury /\ r.paid = index.paid + executed.reward
              /\ r.executions = [index.executions EXCEPT ![executed.keeper] = @ + 1]
              /\ r.next = [index.next EXCEPT ![executed.id] =
                             AddU32(executed.ledger, index.terms[executed.id].interval)]
              /\ r.runs = [index.runs EXCEPT ![executed.id] = @ + 1]
            BY <1>f, <3>1, ReadExecuted
        <3>3. index' = r
            BY <2>2
        <3> HIDE DEF r
        <3> QED
            BY <3>1, <3>2, <3>3
    <2>4. /\ index'.stakes = StakeOf' /\ index'.terms = TermsOf' /\ index'.treasury = treasury'
          /\ index'.executions = Credits' /\ index'.next = Due' /\ index'.runs = runs'
          /\ index'.paid = funded' - balance'
        BY <1>8, <1>f, <2>3, RunIndexed, UnslashedIndexed DEF paid
    <2> QED
        BY <2>3, <2>4, SameIndex, IndexExactIs
<1>9. ASSUME NEW id \in DOMAIN tasks, NEW c \in Address, ExecuteSecondary(id, c),
             Publish(ExecuteSecondaryEvents(id, c))
      PROVE  IndexExact'
    <2> DEFINE d == tasks[id].designated_keeper
               s == keepers[d].stake_amount
               reward == tasks[id].micro_reward_per_run
               slashed == emit_slash_applied(d, SlashAmount(s), WrapI128(s - SlashAmount(s)))
               executed == emit_task_executed_by_secondary(id, c, d, SlashAmount(s),
                                                           SecondaryReward(s), reward)
               stakes == [StakeOf EXCEPT ![d] = WrapI128(s - SlashAmount(s))]
    <2>1. index' = ReadEvent(ReadEvent(index, slashed), executed)
        <3>1. Publish(<<slashed, executed>>)
            BY <1>9 DEF ExecuteSecondaryEvents
        <3> HIDE DEF slashed, executed
        <3> DEFINE es == <<slashed, executed>>
        <3>2. DOMAIN es = {1, 2} /\ es[1] = slashed /\ es[2] = executed
            OBVIOUS
        <3> HIDE DEF es
        <3>3. FoldLeft(ReadEvent, index, es) = ReadEvent(ReadEvent(index, es[1]), es[2])
            BY <3>2, ReadTwo
        <3>4. index' = FoldLeft(ReadEvent, index, es)
            BY <3>1, Zenon DEF Publish, es
        <3> QED
            BY <3>2, <3>3, <3>4
    <2> DEFINE ix == ReadEvent(index, slashed)
    <2>2. ix = Ix(stakes, Credits, TermsOf, Due, runs, paid, treasury)
        BY <1>0, ReadSlashed
    <2> HIDE DEF stakes, ix
    <2>3. /\ DOMAIN ix = IxFields
          /\ ix.stakes = stakes /\ ix.executions = Credits /\ ix.terms = TermsOf
          /\ ix.next = Due /\ ix.runs = runs /\ ix.paid = paid /\ ix.treasury = treasury
        BY <2>2, IxIs
    <2>4. index' = ReadEvent(ix, executed)
        BY <2>1 DEF ix
    <2>5. /\ index' = [f \in IxFields |-> index'[f]]
          /\ index'.stakes = ix.stakes /\ index'.terms = ix.terms
          /\ index'.treasury = ix.treasury + SlashAmount(s) - SecondaryReward(s)
          /\ index'.paid = ix.paid + reward + SecondaryReward(s)
          /\ index'.executions = [ix.executions EXCEPT ![c] = @ + 1]
          /\ index'.next = [ix.next EXCEPT ![id] = AddU32(ledger, ix.terms[id].interval)]
          /\ index'.runs = [ix.runs EXCEPT ![id] = @ + 1]
        <3>1. /\ executed.topic = "task_sec" /\ executed.id = id /\ executed.keeper = c
              /\ executed.ledger = ledger /\ executed.slash = SlashAmount(s)
              /\ executed.bonus = SecondaryReward(s) /\ executed.reward = reward
            BY DEF emit_task_executed_by_secondary
        <3> DEFINE r == ReadEvent(ix, executed)
        <3> HIDE DEF s, reward, executed
        <3>2. /\ r = [f \in IxFields |-> r[f]]
              /\ r.stakes = ix.stakes /\ r.terms = ix.terms
              /\ r.treasury = ix.treasury + executed.slash - executed.bonus
              /\ r.paid = ix.paid + executed.reward + executed.bonus
              /\ r.executions = [ix.executions EXCEPT ![executed.keeper] = @ + 1]
              /\ r.next = [ix.next EXCEPT ![executed.id] =
                                 AddU32(executed.ledger, ix.terms[executed.id].interval)]
              /\ r.runs = [ix.runs EXCEPT ![executed.id] = @ + 1]
            BY <2>3, <3>1, ReadSecondary
        <3>3. index' = r
            BY <2>4
        <3> HIDE DEF r
        <3> QED
            BY <3>1, <3>2, <3>3
    <2>6. /\ StakeOf' = stakes
          /\ funded' - balance' = paid + reward + SecondaryReward(s)
          /\ treasury' = treasury + SlashAmount(s) - SecondaryReward(s)
        BY <1>9, SecondaryIndexed DEF stakes, paid
    <2>7. /\ index'.stakes = StakeOf' /\ index'.terms = TermsOf' /\ index'.treasury = treasury'
          /\ index'.executions = Credits' /\ index'.next = Due' /\ index'.runs = runs'
          /\ index'.paid = funded' - balance'
        <3> HIDE DEF s, reward
        <3> QED
            BY <1>9, <2>3, <2>5, <2>6, RunIndexed
    <2> QED
        BY <2>5, <2>7, SameIndex, IndexExactIs
<1> QED
    BY <1>2, <1>3, <1>4, <1>5, <1>6, <1>7, <1>8, <1>9 DEF EventsNext

\* A behaviour with an indexer is one of the contract.
LEMMA EventsAreCalls == EventsSpec => Spec
<1>1. EventsInit => Init
    BY DEF EventsInit
<1>2. [EventsNext]_<<vars, index>> => [Next]_vars
    BY DEF EventsNext, Next
<1> QED
    BY <1>1, <1>2, PTL DEF EventsSpec, Spec

\* events.rs: the events alone give an indexer the stakes, schedules, runs, credits,
\* treasury and payments that the contract stores, whenever no stake is negative and
\* all stakes together fit an i128.
THEOREM EventsTellStorage ==
    ASSUME SoundStakes, TotalStakeFits
    PROVE  EventsSpec => []IndexAgrees
<1>1. EventsInit => IndexExact
    <2> SUFFICES ASSUME EventsInit PROVE IndexExact
        OBVIOUS
    <2>1. /\ DOMAIN keepers = {} /\ DOMAIN tasks = {} /\ runs = [id \in {} |-> None]
          /\ funded = 0 /\ balance = 0 /\ treasury = 0 /\ index = NoIndex
        BY DEF EventsInit, Init
    <2>2. index = Ix([a \in {} |-> None], [a \in {} |-> None], [id \in {} |-> None],
                     [id \in {} |-> None], [id \in {} |-> None], 0, 0)
        BY <2>1 DEF NoIndex, Ix
    <2>3. /\ StakeOf = [a \in {} |-> None] /\ Credits = [a \in {} |-> None]
          /\ TermsOf = [id \in {} |-> None] /\ Due = [id \in {} |-> None]
        BY <2>1 DEF StakeOf, Credits, TermsOf, Due
    <2> QED
        BY <2>1, <2>2, <2>3, IndexExactIs
<1>2. AnchorInv /\ AnchorInv' /\ FiniteStorage /\ StakesBounded /\ LossesAccounted
        /\ LossesAccounted' /\ IndexExact /\ [EventsNext]_<<vars, index>> => IndexExact'
    BY IndexStep
<1>3. IndexExact => IndexAgrees
    <2> SUFFICES ASSUME IndexExact PROVE IndexAgrees
        OBVIOUS
    <2> QED
        BY DEF IndexExact, IndexAgrees
<1> QED
    BY <1>1, <1>2, <1>3, EventsAreCalls, AnchorInvariant, FiniteStorageInvariant,
       StakesBoundedInvariant, LossesInvariant, PTL DEF EventsSpec
=============================================================================
