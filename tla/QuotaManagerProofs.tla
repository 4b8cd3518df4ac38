------------------------- MODULE QuotaManagerProofs -------------------------
(***************************************************************************)
(* Proofs about QuotaManager.                                              *)
(***************************************************************************)
EXTENDS QuotaManager, TLAPS

LEMMA DivType ==
  ASSUME NEW x \in Nat
  PROVE  DivRatio(x) \in Nat
  BY QuotaAssumption DEF DivRatio

LEMMA DivMonotone ==
  ASSUME NEW x \in Nat, NEW y \in Nat, x <= y
  PROVE  DivRatio(x) <= DivRatio(y)
<1> DEFINE a == x * RatioDen
           b == y * RatioDen
<1>1. a \in Nat /\ b \in Nat /\ RatioNum \in Nat /\ RatioNum > 0
  BY QuotaAssumption
<1>2. a <= b
  BY QuotaAssumption
<1>3. a \div RatioNum \in Nat /\ b \div RatioNum \in Nat
  BY <1>1
<1>4. a \div RatioNum <= b \div RatioNum
  <2> HIDE DEF a, b
  <2> QED BY <1>1, <1>2, <1>3
<1> QED BY <1>4 DEF DivRatio

LEMMA AllowanceType ==
  ASSUME NEW q \in UserQuota
  PROVE  Allowance(q) \in Nat /\ AvailableStorage(q) \in Nat
<1>1. DivRatio(q.bytes_contributed) \in Nat
  BY DivType DEF UserQuota
<1> QED
  BY <1>1, QuotaAssumption DEF Allowance, AvailableStorage, Smaller, Minus, UserQuota

\* Contributing more never takes storage away.
LEMMA AllowanceMonotone ==
  ASSUME NEW p \in UserQuota, NEW q \in UserQuota,
         p.bytes_contributed <= q.bytes_contributed
  PROVE  Allowance(p) <= Allowance(q)
<1>1. DivRatio(p.bytes_contributed) <= DivRatio(q.bytes_contributed)
  BY DivMonotone DEF UserQuota
<1>2. DivRatio(p.bytes_contributed) \in Nat /\ DivRatio(q.bytes_contributed) \in Nat
  BY DivType DEF UserQuota
<1> QED
  BY <1>1, <1>2, QuotaAssumption DEF Allowance, Smaller

LEMMA QuotaFresh ==
  ASSUME TypeOK, NEW u \in Users
  PROVE  /\ GetUserQuota(u) \in UserQuota
         /\ CheckGracePeriod(GetUserQuota(u)) \in UserQuota
  BY DEF TypeOK, GetUserQuota, NewQuota, CheckGracePeriod, UserQuota

\* What is recorded keeps an entry's type, its time of joining and its flag.
LEMMA UploadRecorded ==
  ASSUME NEW p \in UserQuota, NEW size \in Nat
  PROVE  LET q == [p EXCEPT !.bytes_used = @ + size, !.files_count = @ + 1]
         IN  /\ q \in UserQuota
             /\ q.joined_at = p.joined_at /\ q.in_grace_period = p.in_grace_period
             /\ q.bytes_contributed = p.bytes_contributed
             /\ q.bytes_used = p.bytes_used + size
<1>1. p.bytes_used + size \in Nat /\ p.files_count + 1 \in Nat
  BY DEF UserQuota
<1> QED
  BY <1>1, Zenon DEF UserQuota

LEMMA ShardRecorded ==
  ASSUME NEW p \in UserQuota, NEW size \in Nat
  PROVE  LET q == [p EXCEPT !.bytes_contributed = @ + size, !.shards_hosted = @ + 1]
         IN  /\ q \in UserQuota
             /\ q.joined_at = p.joined_at /\ q.in_grace_period = p.in_grace_period
             /\ q.bytes_used = p.bytes_used
             /\ p.bytes_contributed <= q.bytes_contributed
<1> DEFINE b == p.bytes_contributed + size
           c == p.shards_hosted + 1
           q == [p EXCEPT !.bytes_contributed = b, !.shards_hosted = c]
<1>1. b \in Nat /\ c \in Nat /\ p.bytes_contributed <= b
  BY DEF UserQuota
<1>2. q.bytes_contributed = b
  BY DEF UserQuota
<1>3. q \in UserQuota
  <2> HIDE DEF b, c
  <2> QED BY <1>1 DEF UserQuota
<1> QED
  BY <1>1, <1>2, <1>3 DEF UserQuota

LEMMA OvertakenType ==
  ASSUME TypeOK, NEW u \in Users
  PROVE  /\ Overtaken(u) \in [1 .. Sessions -> Session \cup {NoQuota}]
         /\ \A n \in 1 .. Sessions :
              /\ Overtaken(u)[n] = NoQuota <=> session[u][n] = NoQuota
              /\ Overtaken(u)[n] # NoQuota => ~Overtaken(u)[n].kept
<1>1. ASSUME NEW n \in 1 .. Sessions
      PROVE  session[u][n] \in Session \cup {NoQuota}
  BY DEF TypeOK
<1>2. ASSUME NEW e \in Session
      PROVE  /\ [e EXCEPT !.kept = FALSE] \in Session
             /\ [e EXCEPT !.kept = FALSE].kept = FALSE
  BY DEF Session
<1> QED
  BY <1>1, <1>2, NoQuotaAssumption, Zenon DEF Overtaken

-----------------------------------------------------------------------------
\* Every entry, session and time keeps its type: nothing the callers record
\* takes a byte count below zero.
THEOREM TypeCorrect == Spec => []TypeOK
<1>1. Init => TypeOK
  BY DEF Init, TypeOK
<1>2. TypeOK /\ [Next]_vars => TypeOK'
  <2> SUFFICES ASSUME TypeOK, [Next]_vars PROVE TypeOK'
    OBVIOUS
  <2> USE QuotaAssumption
  <2>1. ASSUME NEW u \in Users, NEW n \in 1 .. Sessions, NEW size \in Sizes,
               CheckAllowed(u, n, size)
        PROVE  TypeOK'
    <3> DEFINE q == CheckGracePeriod(GetUserQuota(u))
               e == [size |-> size, grace |-> q.in_grace_period, kept |-> TRUE]
    <3>1. q \in UserQuota
      BY QuotaFresh
    <3>2. e \in Session
      BY <3>1 DEF UserQuota, Session
    <3>3. /\ quotas' = [quotas EXCEPT ![u] = q]
          /\ session' = [session EXCEPT ![u] = [session[u] EXCEPT ![n] = e]]
          /\ now' = now
      BY <2>1 DEF CheckAllowed
    <3> HIDE DEF q, e
    <3> QED BY <3>1, <3>2, <3>3 DEF TypeOK
  <2>2. ASSUME NEW u \in Users, NEW size \in Sizes, CheckRefused(u, size)
        PROVE  TypeOK'
    BY <2>2, QuotaFresh DEF CheckRefused, TypeOK
  <2>3. ASSUME NEW u \in Users, NEW size \in Sizes, RecordDeletion(u, size)
        PROVE  TypeOK'
    <3>1. /\ Minus(quotas[u].bytes_used, size) \in Nat
          /\ Minus(quotas[u].files_count, 1) \in Nat
          /\ quotas[u] \in UserQuota
      BY <2>3 DEF RecordDeletion, TypeOK, UserQuota, Minus
    <3> QED BY <2>3, <3>1 DEF RecordDeletion, TypeOK, UserQuota
  <2>4. ASSUME NEW u \in Users, NEW size \in Sizes, RecordShardHosted(u, size)
        PROVE  TypeOK'
    <3> DEFINE p == GetUserQuota(u)
               q == [p EXCEPT !.bytes_contributed = @ + size, !.shards_hosted = @ + 1]
    <3>1. p \in UserQuota
      BY QuotaFresh
    <3>2. q \in UserQuota
      BY <3>1, ShardRecorded
    <3>3. quotas' = [quotas EXCEPT ![u] = q] /\ UNCHANGED <<session, now>>
      BY <2>4 DEF RecordShardHosted
    <3> QED BY <3>2, <3>3 DEF TypeOK
  <2>5. ASSUME NEW u \in Users, NEW size \in Sizes, RecordShardRemoved(u, size)
        PROVE  TypeOK'
    <3>1. /\ Minus(quotas[u].bytes_contributed, size) \in Nat
          /\ Minus(quotas[u].shards_hosted, 1) \in Nat
          /\ quotas[u] \in UserQuota
      BY <2>5 DEF RecordShardRemoved, TypeOK, UserQuota, Minus
    <3>2. quotas' \in [Users -> UserQuota \cup {NoQuota}]
      BY <2>5, <3>1 DEF RecordShardRemoved, TypeOK, UserQuota
    <3> QED BY <2>5, <3>2, OvertakenType DEF RecordShardRemoved, TypeOK
  <2>6. ASSUME NEW u \in Users, NEW n \in 1 .. Sessions, RecordUpload(u, n)
        PROVE  TypeOK'
    <3> DEFINE p == GetUserQuota(u)
               q == [p EXCEPT !.bytes_used = @ + session[u][n].size,
                              !.files_count = @ + 1]
    <3>1. p \in UserQuota /\ session[u][n].size \in Nat
      BY <2>6, QuotaFresh DEF RecordUpload, TypeOK, Session
    <3>2. q \in UserQuota
      BY <3>1, UploadRecorded
    <3>3. /\ quotas' = [quotas EXCEPT ![u] = q]
          /\ session' = [session EXCEPT ![u] = [Overtaken(u) EXCEPT ![n] = NoQuota]]
          /\ now' = now
      BY <2>6 DEF RecordUpload
    <3>4. [Overtaken(u) EXCEPT ![n] = NoQuota]
             \in [1 .. Sessions -> Session \cup {NoQuota}]
      BY OvertakenType
    <3> HIDE DEF q
    <3> QED BY <3>2, <3>3, <3>4 DEF TypeOK
  <2>7. ASSUME NEW u \in Users, GetQuotaSummary(u)
        PROVE  TypeOK'
    BY <2>7, QuotaFresh DEF GetQuotaSummary, TypeOK
  <2>8. CASE Tick
    BY <2>8 DEF Tick, TypeOK
  <2>9. CASE UNCHANGED vars
    BY <2>9 DEF vars, TypeOK
  <2> QED
    BY <2>1, <2>2, <2>3, <2>4, <2>5, <2>6, <2>7, <2>8, <2>9 DEF Next
<1> QED
  BY <1>1, <1>2, PTL DEF Spec

-----------------------------------------------------------------------------
\* Nobody is out of grace within the grace period: only a check made later
\* than that clears the flag, and joined_at never changes.
THEOREM GraceTheorem == Spec => []GraceIsFull
<1>1. Init => GraceIsFull
  BY DEF Init, GraceIsFull
<1>2. TypeOK /\ GraceIsFull /\ [Next]_vars => GraceIsFull'
  <2> SUFFICES ASSUME TypeOK, GraceIsFull, [Next]_vars, NEW v \in Users,
                      quotas'[v] # NoQuota, ~quotas'[v].in_grace_period
               PROVE  now' > quotas'[v].joined_at + GracePeriod
    BY DEF GraceIsFull
  <2> USE QuotaAssumption
  \* A check leaves an entry out of grace only when it is late enough.
  <2>1. ASSUME NEW u \in Users, ~CheckGracePeriod(GetUserQuota(u)).in_grace_period
        PROVE  now > CheckGracePeriod(GetUserQuota(u)).joined_at + GracePeriod
    <3> DEFINE q == GetUserQuota(u)
    <3>1. q \in UserQuota
      BY QuotaFresh
    <3>2. ~q.in_grace_period => now > q.joined_at + GracePeriod
      BY DEF GetUserQuota, NewQuota, GraceIsFull
    <3>3. now - q.joined_at > GracePeriod => now > q.joined_at + GracePeriod
      BY <3>1 DEF TypeOK, UserQuota
    <3>4. CheckGracePeriod(q).joined_at = q.joined_at
      BY <3>1 DEF CheckGracePeriod, UserQuota
    <3>5. \/ ~q.in_grace_period
          \/ ~(now - q.joined_at <= GracePeriod)
      BY <2>1, <3>1 DEF CheckGracePeriod, UserQuota
    <3> QED BY <3>1, <3>2, <3>3, <3>4, <3>5 DEF TypeOK, UserQuota
  <2>2. ASSUME NEW u \in Users, now' = now,
               quotas' = [quotas EXCEPT ![u] = CheckGracePeriod(GetUserQuota(u))]
        PROVE  now' > quotas'[v].joined_at + GracePeriod
    BY <2>1, <2>2 DEF TypeOK, GraceIsFull
  \* What is recorded touches neither the flag nor the time of joining.
  <2>3. ASSUME NEW u \in Users, NEW q \in UserQuota, now' = now,
               quotas' = [quotas EXCEPT ![u] = q],
               q.in_grace_period = GetUserQuota(u).in_grace_period,
               q.joined_at = GetUserQuota(u).joined_at
        PROVE  now' > quotas'[v].joined_at + GracePeriod
    BY <2>3 DEF TypeOK, GraceIsFull, GetUserQuota, NewQuota
  <2>4. ASSUME NEW u \in Users, NEW n \in 1 .. Sessions, NEW size \in Sizes,
               CheckAllowed(u, n, size)
        PROVE  now' > quotas'[v].joined_at + GracePeriod
    BY <2>2, <2>4 DEF CheckAllowed
  <2>5. ASSUME NEW u \in Users, NEW size \in Sizes, CheckRefused(u, size)
        PROVE  now' > quotas'[v].joined_at + GracePeriod
    BY <2>2, <2>5 DEF CheckRefused
  <2>6. ASSUME NEW u \in Users, NEW size \in Sizes,
               RecordDeletion(u, size) \/ RecordShardRemoved(u, size)
        PROVE  now' > quotas'[v].joined_at + GracePeriod
    <3>1. quotas[u] \in UserQuota
      BY <2>6 DEF RecordDeletion, RecordShardRemoved, TypeOK
    <3>2. /\ quotas'[v].joined_at = quotas[v].joined_at
          /\ quotas'[v].in_grace_period = quotas[v].in_grace_period
          /\ quotas[v] # NoQuota /\ now' = now
      <4>1. CASE v # u
        BY <2>6, <4>1 DEF RecordDeletion, RecordShardRemoved, TypeOK
      <4>2. CASE v = u /\ RecordDeletion(u, size)
        BY <3>1, <4>2 DEF RecordDeletion, TypeOK, UserQuota
      <4>3. CASE v = u /\ RecordShardRemoved(u, size)
        BY <3>1, <4>3 DEF RecordShardRemoved, TypeOK, UserQuota
      <4> QED BY <2>6, <4>1, <4>2, <4>3
    <3> QED BY <3>2 DEF GraceIsFull
  <2>7. ASSUME NEW u \in Users, NEW size \in Sizes, RecordShardHosted(u, size)
        PROVE  now' > quotas'[v].joined_at + GracePeriod
    <3> DEFINE p == GetUserQuota(u)
               q == [p EXCEPT !.bytes_contributed = @ + size, !.shards_hosted = @ + 1]
    <3>1. p \in UserQuota
      BY QuotaFresh
    <3>2. q \in UserQuota /\ q.joined_at = p.joined_at
            /\ q.in_grace_period = p.in_grace_period
      BY <3>1, ShardRecorded
    <3>3. quotas' = [quotas EXCEPT ![u] = q] /\ now' = now
      BY <2>7 DEF RecordShardHosted
    <3> HIDE DEF q
    <3> QED BY <2>3, <3>2, <3>3
  <2>8. ASSUME NEW u \in Users, NEW n \in 1 .. Sessions, RecordUpload(u, n)
        PROVE  now' > quotas'[v].joined_at + GracePeriod
    <3> DEFINE p == GetUserQuota(u)
               q == [p EXCEPT !.bytes_used = @ + session[u][n].size,
                              !.files_count = @ + 1]
    <3>1. p \in UserQuota /\ session[u][n].size \in Nat
      BY <2>8, QuotaFresh DEF RecordUpload, TypeOK, Session
    <3>2. q \in UserQuota /\ q.joined_at = p.joined_at
            /\ q.in_grace_period = p.in_grace_period
      BY <3>1, UploadRecorded
    <3>3. quotas' = [quotas EXCEPT ![u] = q] /\ now' = now
      BY <2>8 DEF RecordUpload
    <3> HIDE DEF q
    <3> QED BY <2>3, <3>2, <3>3
  <2>9. ASSUME NEW u \in Users, GetQuotaSummary(u)
        PROVE  now' > quotas'[v].joined_at + GracePeriod
    BY <2>2, <2>9 DEF GetQuotaSummary
  <2>10. CASE Tick
    <3>1. quotas[v] \in UserQuota /\ now > quotas[v].joined_at + GracePeriod
      BY <2>10 DEF Tick, TypeOK, GraceIsFull
    <3> QED BY <2>10, <3>1 DEF Tick, TypeOK, UserQuota
  <2>11. CASE UNCHANGED vars
    BY <2>11 DEF vars, GraceIsFull
  <2> QED
    BY <2>4, <2>5, <2>6, <2>7, <2>8, <2>9, <2>10, <2>11 DEF Next
<1> QED
  BY <1>1, <1>2, TypeCorrect, PTL DEF Spec

-----------------------------------------------------------------------------
\* A user with a session has an entry: nothing removes one.
SessionHasQuota ==
  \A u \in Users, n \in 1 .. Sessions :
    session[u][n] # NoQuota => quotas[u] # NoQuota

\* One user's promise after a step that leaves the sessions alone and neither
\* uses nor takes back bytes of that user.
LEMMA PromiseKept ==
  ASSUME TypeOK, AllowedStillFits, SessionHasQuota,
         NEW v \in Users, NEW n \in 1 .. Sessions,
         session[v][n] # NoQuota, session[v][n].kept, ~session[v][n].grace,
         NEW q \in UserQuota, q.bytes_used <= quotas[v].bytes_used,
         quotas[v].bytes_contributed <= q.bytes_contributed
  PROVE  q.bytes_used + session[v][n].size <= Allowance(q)
<1>1. quotas[v] \in UserQuota /\ session[v][n].size \in Nat
  <2>1. quotas[v] # NoQuota
    BY DEF SessionHasQuota
  <2>2. session[v][n] \in Session
    BY DEF TypeOK
  <2> QED BY <2>1, <2>2, QuotaAssumption DEF TypeOK, Session
<1>2. quotas[v].bytes_used + session[v][n].size <= Allowance(quotas[v])
  BY DEF AllowedStillFits
<1>3. /\ Allowance(quotas[v]) <= Allowance(q)
      /\ Allowance(quotas[v]) \in Nat /\ Allowance(q) \in Nat
  BY <1>1, AllowanceMonotone, AllowanceType
<1> QED
  BY <1>1, <1>2, <1>3 DEF UserQuota

\* What can_upload allowed outside the grace period still fits when it is
\* recorded, unless another upload of the user was recorded or a hosted shard
\* removed since.
THEOREM FitsTheorem == Spec => []AllowedStillFits
<1> DEFINE Inv == AllowedStillFits /\ SessionHasQuota
<1>1. Init => Inv
  BY DEF Init, AllowedStillFits, SessionHasQuota
<1>2. TypeOK /\ Inv /\ [Next]_vars => Inv'
  <2> SUFFICES ASSUME TypeOK, AllowedStillFits, SessionHasQuota, [Next]_vars,
                      NEW v \in Users, NEW k \in 1 .. Sessions,
                      session'[v][k] # NoQuota
               PROVE  /\ quotas'[v] # NoQuota
                      /\ session'[v][k].kept /\ ~session'[v][k].grace =>
                           quotas'[v].bytes_used + session'[v][k].size
                             <= Allowance(quotas'[v])
    BY DEF AllowedStillFits, SessionHasQuota, Allowance, DivRatio, Smaller
  <2> DEFINE Goal == /\ quotas'[v] # NoQuota
                     /\ session'[v][k].kept /\ ~session'[v][k].grace =>
                          quotas'[v].bytes_used + session'[v][k].size
                            <= Allowance(quotas'[v])
  <2> USE QuotaAssumption
  \* Steps that leave the sessions alone and never count against the user.
  <2>1. ASSUME NEW u \in Users, NEW q \in UserQuota,
               quotas' = [quotas EXCEPT ![u] = q], session' = session,
               q.bytes_used <= GetUserQuota(u).bytes_used,
               GetUserQuota(u).bytes_contributed <= q.bytes_contributed
        PROVE  Goal
    <3>1. quotas[v] \in UserQuota /\ quotas[v] # NoQuota
      BY <2>1 DEF SessionHasQuota, TypeOK
    <3>2. quotas'[v] # NoQuota
      BY <2>1, <3>1, NoQuotaAssumption DEF TypeOK
    <3>3. ASSUME v # u, session[v][k].kept, ~session[v][k].grace
          PROVE  quotas'[v].bytes_used + session[v][k].size <= Allowance(quotas'[v])
      BY <2>1, <3>3 DEF AllowedStillFits, TypeOK
    <3>4. ASSUME v = u, session[v][k].kept, ~session[v][k].grace
          PROVE  quotas'[v].bytes_used + session[v][k].size <= Allowance(quotas'[v])
      <4>1. quotas'[v] = q /\ GetUserQuota(u) = quotas[v]
        BY <2>1, <3>1, <3>4 DEF TypeOK, GetUserQuota
      <4> QED BY <2>1, <3>4, <4>1, PromiseKept
    <3> QED BY <2>1, <3>2, <3>3, <3>4
  <2>2. ASSUME NEW u \in Users
        PROVE  LET p == GetUserQuota(u)
                   q == CheckGracePeriod(p)
               IN  /\ p \in UserQuota /\ q \in UserQuota
                   /\ q.bytes_used <= p.bytes_used
                   /\ p.bytes_contributed <= q.bytes_contributed
    BY QuotaFresh DEF CheckGracePeriod, UserQuota
  <2>3. ASSUME NEW u \in Users, NEW n \in 1 .. Sessions, NEW size \in Sizes,
               CheckAllowed(u, n, size)
        PROVE  Goal
    <3> DEFINE q == CheckGracePeriod(GetUserQuota(u))
               e == [size |-> size, grace |-> q.in_grace_period, kept |-> TRUE]
    <3>1. /\ q \in UserQuota
          /\ q.bytes_used <= GetUserQuota(u).bytes_used
          /\ GetUserQuota(u).bytes_contributed <= q.bytes_contributed
      BY <2>2
    <3>2. /\ quotas' = [quotas EXCEPT ![u] = q]
          /\ session' = [session EXCEPT ![u] = [session[u] EXCEPT ![n] = e]]
          /\ CanUpload(q, size)
      BY <2>3 DEF CheckAllowed
    <3>3. ~q.in_grace_period => q.bytes_used + size <= Allowance(q)
      <4>1. Allowance(q) \in Nat
        BY <3>1, AllowanceType
      <4> QED BY <3>1, <3>2, <4>1 DEF CanUpload, AvailableStorage, Minus, UserQuota
    <3>4. CASE v = u /\ n = k
      <4>1. quotas'[v] = q /\ session'[v][k] = e
        BY <3>1, <3>2, <3>4 DEF TypeOK
      <4> QED BY <3>1, <3>3, <4>1, NoQuotaAssumption
    <3>5. CASE v # u
      <4>1. quotas'[v] = quotas[v] /\ session'[v] = session[v]
        BY <3>2, <3>5 DEF TypeOK
      <4> QED BY <4>1 DEF AllowedStillFits, SessionHasQuota
    \* Another session of the same user: the check changed no byte count.
    <3>6. CASE v = u /\ n # k
      <4>1. quotas'[v] = q /\ session'[v][k] = session[v][k]
        BY <3>2, <3>6 DEF TypeOK
      <4>2. quotas[v] # NoQuota /\ GetUserQuota(u) = quotas[v]
        BY <3>6, <4>1 DEF SessionHasQuota, GetUserQuota
      <4>3. quotas'[v] # NoQuota
        BY <3>1, <4>1, NoQuotaAssumption
      <4>4. ASSUME session[v][k].kept, ~session[v][k].grace
            PROVE  q.bytes_used + session[v][k].size <= Allowance(q)
        <5> HIDE DEF q, e
        <5> QED BY <3>1, <4>1, <4>2, <4>4, PromiseKept
      <4> QED BY <4>1, <4>3, <4>4
    <3> QED BY <3>4, <3>5, <3>6
  <2>4. ASSUME NEW u \in Users, NEW size \in Sizes, CheckRefused(u, size)
        PROVE  Goal
    <3> HIDE DEF Goal
    <3> QED BY <2>1, <2>2, <2>4 DEF CheckRefused
  <2>5. ASSUME NEW u \in Users, GetQuotaSummary(u)
        PROVE  Goal
    <3> HIDE DEF Goal
    <3> QED BY <2>1, <2>2, <2>5 DEF GetQuotaSummary
  <2>6. ASSUME NEW u \in Users, NEW size \in Sizes, RecordDeletion(u, size)
        PROVE  Goal
    <3> DEFINE used == Minus(quotas[u].bytes_used, size)
               count == Minus(quotas[u].files_count, 1)
               q == [quotas[u] EXCEPT !.bytes_used = used, !.files_count = count]
    <3>1. quotas[u] \in UserQuota /\ GetUserQuota(u) = quotas[u]
      BY <2>6 DEF RecordDeletion, TypeOK, GetUserQuota
    <3>2. used \in Nat /\ count \in Nat /\ used <= quotas[u].bytes_used
      BY <3>1 DEF UserQuota, Minus
    <3>3. quotas' = [quotas EXCEPT ![u] = q] /\ session' = session
      BY <2>6, <3>1 DEF RecordDeletion, TypeOK
    <3> HIDE DEF used, count
    <3>4. /\ q \in UserQuota /\ q.bytes_used = used
          /\ q.bytes_contributed = quotas[u].bytes_contributed
      BY <3>1, <3>2 DEF UserQuota
    <3>5. /\ q.bytes_used <= GetUserQuota(u).bytes_used
          /\ GetUserQuota(u).bytes_contributed <= q.bytes_contributed
      BY <3>1, <3>2, <3>4 DEF UserQuota
    <3> HIDE DEF q, Goal
    <3> QED BY <2>1, <3>3, <3>4, <3>5
  <2>7. ASSUME NEW u \in Users, NEW size \in Sizes, RecordShardHosted(u, size)
        PROVE  Goal
    <3> DEFINE p == GetUserQuota(u)
               q == [p EXCEPT !.bytes_contributed = @ + size, !.shards_hosted = @ + 1]
    <3>1. p \in UserQuota
      BY QuotaFresh
    <3>2. q \in UserQuota /\ q.bytes_used = p.bytes_used
            /\ p.bytes_contributed <= q.bytes_contributed
      BY <3>1, ShardRecorded
    <3>3. quotas' = [quotas EXCEPT ![u] = q] /\ session' = session
      BY <2>7 DEF RecordShardHosted
    <3>4. q.bytes_used <= p.bytes_used
      BY <3>1, <3>2 DEF UserQuota
    <3> HIDE DEF q, Goal
    <3> QED BY <2>1, <3>2, <3>3, <3>4
  <2>8. ASSUME NEW u \in Users, NEW n \in 1 .. Sessions, RecordUpload(u, n)
        PROVE  Goal
    <3> DEFINE q == [GetUserQuota(u) EXCEPT !.bytes_used = @ + session[u][n].size,
                                            !.files_count = @ + 1]
    <3>1. /\ quotas' = [quotas EXCEPT ![u] = q]
          /\ session' = [session EXCEPT ![u] = [Overtaken(u) EXCEPT ![n] = NoQuota]]
      BY <2>8 DEF RecordUpload
    <3>2. CASE v # u
      <4>1. quotas'[v] = quotas[v] /\ session'[v] = session[v]
        BY <3>1, <3>2 DEF TypeOK
      <4> QED BY <4>1 DEF AllowedStillFits, SessionHasQuota
    <3>3. CASE v = u
      <4>1. quotas'[v] = q
        BY <3>1, <3>3 DEF TypeOK
      <4>2. q \in UserQuota
        <5>1. GetUserQuota(u) \in UserQuota /\ session[u][n].size \in Nat
          BY <2>8, QuotaFresh DEF RecordUpload, TypeOK, Session
        <5> QED BY <5>1, UploadRecorded
      <4>3. session'[v][k] = Overtaken(u)[k]
        BY <3>1, <3>3, OvertakenType DEF TypeOK
      <4> HIDE DEF q
      <4> QED BY <4>1, <4>2, <4>3, OvertakenType, NoQuotaAssumption
    <3> QED BY <3>2, <3>3
  <2>9. CASE Tick \/ UNCHANGED vars
    BY <2>9 DEF Tick, vars, AllowedStillFits, SessionHasQuota
  <2>10. ASSUME NEW u \in Users, NEW size \in Sizes, RecordShardRemoved(u, size)
         PROVE  Goal
    <3>1. session' = [session EXCEPT ![u] = Overtaken(u)]
      BY <2>10 DEF RecordShardRemoved
    <3>2. CASE v # u
      <4>1. quotas'[v] = quotas[v] /\ session'[v] = session[v]
        BY <2>10, <3>1, <3>2 DEF RecordShardRemoved, TypeOK
      <4> QED BY <4>1 DEF AllowedStillFits, SessionHasQuota
    <3>3. CASE v = u
      <4>1. session'[v][k] = Overtaken(u)[k]
        BY <3>1, <3>3 DEF TypeOK
      <4>2. quotas'[v] # NoQuota
        <5> DEFINE b == Minus(quotas[u].bytes_contributed, size)
                   c == Minus(quotas[u].shards_hosted, 1)
                   q == [quotas[u] EXCEPT !.bytes_contributed = b, !.shards_hosted = c]
        <5>1. quotas[u] \in UserQuota
          BY <2>10 DEF RecordShardRemoved, TypeOK
        <5>2. b \in Nat /\ c \in Nat
          BY <5>1 DEF UserQuota, Minus
        <5>3. quotas'[v] = q
          BY <2>10, <3>3, <5>1 DEF RecordShardRemoved, TypeOK
        <5> HIDE DEF b, c
        <5>4. q \in UserQuota
          BY <5>1, <5>2 DEF UserQuota
        <5> QED BY <5>3, <5>4, NoQuotaAssumption
      <4> QED BY <4>1, <4>2, OvertakenType
    <3> QED BY <3>2, <3>3
  <2> QED
    BY <2>3, <2>4, <2>5, <2>6, <2>7, <2>8, <2>9, <2>10 DEF Next
<1> QED
  BY <1>1, <1>2, TypeCorrect, PTL DEF Spec

-----------------------------------------------------------------------------
(* What a refusal asks for *)

\* Dividing by d and rounding down or up, as comparisons of products.
LEMMA FloorIsLess ==
  ASSUME NEW x \in Nat, NEW d \in Nat \ {0}, NEW k \in Nat
  PROVE  x \div d >= k <=> x >= k * d
<1> DEFINE n == x \div d
           r == x % d
<1>1. n \in Nat /\ r \in 0 .. d - 1 /\ x = n * d + r
  OBVIOUS
<1> HIDE DEF n, r
<1>2. n * d \in Nat /\ k * d \in Nat
  BY <1>1
<1>3. CASE n >= k
  <2>1. n * d >= k * d
    BY <1>1, <1>3
  <2> QED BY <1>1, <1>2, <1>3, <2>1 DEF n
<1>4. CASE n + 1 <= k
  <2>1. (n + 1) * d <= k * d /\ (n + 1) * d = n * d + d
    BY <1>1, <1>4
  <2> QED BY <1>1, <1>2, <1>4, <2>1 DEF n
<1> QED BY <1>1, <1>3, <1>4

LEMMA CeilingIsMore ==
  ASSUME NEW x \in Nat, NEW d \in Nat \ {0}, NEW k \in Nat
  PROVE  k >= x \div d + (IF x % d = 0 THEN 0 ELSE 1) <=> k * d >= x
<1> DEFINE n == x \div d
           r == x % d
<1>1. n \in Nat /\ r \in 0 .. d - 1 /\ x = n * d + r
  OBVIOUS
<1> HIDE DEF n, r
<1>2. n * d \in Nat /\ k * d \in Nat
  BY <1>1
<1>3. CASE k >= n + 1
  <2>1. k * d >= (n + 1) * d /\ (n + 1) * d = n * d + d
    BY <1>1, <1>3
  <2> QED BY <1>1, <1>2, <1>3, <2>1 DEF n, r
<1>4. CASE k = n
  BY <1>1, <1>2, <1>4 DEF n, r
<1>5. CASE k + 1 <= n
  <2>1. (k + 1) * d <= n * d /\ (k + 1) * d = k * d + d
    BY <1>1, <1>5
  <2> QED BY <1>1, <1>2, <1>5, <2>1 DEF n, r
<1> QED BY <1>1, <1>3, <1>4, <1>5

\* The two conversions: so many contributed bytes are enough for so many used.
LEMMA Threshold ==
  ASSUME NEW c \in Nat, NEW total \in Nat
  PROVE  /\ DivRatio(c) >= total <=> c >= MulRatio(total) + Truncated(total)
         /\ MulRatio(total) \in Nat
<1>1. /\ c * RatioDen \in Nat /\ total * RatioNum \in Nat
      /\ RatioNum \in Nat \ {0} /\ RatioDen \in Nat \ {0}
  BY QuotaAssumption
<1>2. DivRatio(c) >= total <=> c * RatioDen >= total * RatioNum
  BY <1>1, FloorIsLess DEF DivRatio
<1>3. c >= MulRatio(total) + Truncated(total) <=> c * RatioDen >= total * RatioNum
  BY <1>1, CeilingIsMore DEF MulRatio, Truncated
<1>4. MulRatio(total) \in Nat
  BY <1>1 DEF MulRatio
<1> QED BY <1>2, <1>3, <1>4

\* Outside the grace period an upload fits if the limit and the contribution
\* allow for it.
LEMMA FitsWhen ==
  ASSUME NEW q \in UserQuota, NEW size \in Sizes, ~q.in_grace_period
  PROVE  CanUpload(q, size) <=>
           /\ q.bytes_used + size <= MaxUsage
           /\ q.bytes_contributed
                >= MulRatio(q.bytes_used + size) + Truncated(q.bytes_used + size)
<1> DEFINE total == q.bytes_used + size
<1>1. /\ size \in Nat /\ size > 0 /\ MaxUsage \in Nat
      /\ q.bytes_used \in Nat /\ q.bytes_contributed \in Nat
  BY QuotaAssumption DEF UserQuota
<1>2. DivRatio(q.bytes_contributed) \in Nat
  BY <1>1, DivType
<1>3. CanUpload(q, size) <=>
        DivRatio(q.bytes_contributed) >= total /\ MaxUsage >= total
  BY <1>1, <1>2 DEF CanUpload, AvailableStorage, Allowance, Minus, Smaller
<1>4. DivRatio(q.bytes_contributed) >= total <=>
        q.bytes_contributed >= MulRatio(total) + Truncated(total)
  BY <1>1, Threshold
<1> QED BY <1>1, <1>3, <1>4

\* Contributing what a refused upload is told to contribute is what it takes,
\* a byte more when the ratio truncates, for every ratio; no contribution ends
\* a refusal in the grace period or beyond the limit (can_upload and
\* calculate_needed_contribution).
THEOREM NeededTheorem == Spec => []NeededIsExact
<1>1. TypeOK => NeededIsExact
  <2> SUFFICES ASSUME TypeOK, NEW u \in Users, NEW size \in Sizes,
                      ~CanUpload(CheckGracePeriod(GetUserQuota(u)), size),
                      NEW extra \in Nat
               PROVE  LET q == CheckGracePeriod(GetUserQuota(u))
                          total == q.bytes_used + size
                      IN CanUpload([q EXCEPT !.bytes_contributed = @ + extra], size)
                           <=> /\ ~q.in_grace_period
                               /\ total <= MaxUsage
                               /\ extra >= Needed(q, size) + Truncated(total)
    BY DEF NeededIsExact
  <2> DEFINE q == CheckGracePeriod(GetUserQuota(u))
             total == q.bytes_used + size
             paid == [q EXCEPT !.bytes_contributed = @ + extra]
  <2>1. q \in UserQuota
    BY QuotaFresh
  <2> HIDE DEF q
  <2>2. ~CanUpload(q, size)
    BY DEF q
  <2>3. /\ size \in Nat /\ q.bytes_used \in Nat /\ q.bytes_contributed \in Nat
        /\ total \in Nat
    BY <2>1, QuotaAssumption DEF UserQuota
  <2>4. /\ paid \in UserQuota
        /\ paid.bytes_contributed = q.bytes_contributed + extra
        /\ paid.bytes_used = q.bytes_used
        /\ paid.in_grace_period = q.in_grace_period
    <3>1. q.bytes_contributed + extra \in Nat
      BY <2>3
    <3> QED BY <2>1, <3>1 DEF UserQuota
  <2> HIDE DEF paid
  <2>5. ASSUME q.in_grace_period
        PROVE  CanUpload(paid, size)
                 <=> /\ ~q.in_grace_period
                     /\ total <= MaxUsage
                     /\ extra >= Needed(q, size) + Truncated(total)
    BY <2>2, <2>4, <2>5 DEF CanUpload, AvailableStorage
  <2>6. ASSUME ~q.in_grace_period
        PROVE  CanUpload(paid, size)
                 <=> /\ ~q.in_grace_period
                     /\ total <= MaxUsage
                     /\ extra >= Needed(q, size) + Truncated(total)
    <3>1. MulRatio(total) \in Nat /\ Truncated(total) \in {0, 1}
      BY <2>3, Threshold DEF Truncated
    <3>2. ~(/\ total <= MaxUsage
            /\ q.bytes_contributed >= MulRatio(total) + Truncated(total))
      BY <2>1, <2>2, <2>6, FitsWhen
    <3>3. CanUpload(paid, size) <=>
            /\ total <= MaxUsage
            /\ q.bytes_contributed + extra >= MulRatio(total) + Truncated(total)
      BY <2>4, <2>6, FitsWhen
    <3>4. Needed(q, size) = Minus(MulRatio(total), q.bytes_contributed)
      BY DEF Needed
    <3> HIDE DEF total
    <3>5. q.bytes_contributed < MulRatio(total) + Truncated(total) =>
            (q.bytes_contributed + extra >= MulRatio(total) + Truncated(total)
               <=> extra >= Needed(q, size) + Truncated(total))
      BY <2>3, <3>1, <3>4 DEF Minus
    <3> QED BY <2>3, <2>6, <3>1, <3>2, <3>3, <3>5, QuotaAssumption DEF total
  <2> QED BY <2>5, <2>6 DEF q, paid
<1> QED
  BY <1>1, TypeCorrect, PTL
=============================================================================
