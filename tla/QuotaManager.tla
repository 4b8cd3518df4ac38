---------------------------- MODULE QuotaManager ----------------------------
(***************************************************************************)
(* Quotas: what each user stores in the network and contributes to it      *)
(* (rust_core/src/storage/quota.rs).                                       *)
(*                                                                         *)
(* The manager only answers and records: that an upload is recorded after  *)
(* a check allowed it is up to its callers.  They are modelled as sessions *)
(* that check, upload, and record; up to Sessions of them per user overlap.*)
(* The contribution ratio, an f64, is the fraction RatioNum / RatioDen.    *)
(***************************************************************************)
EXTENDS Naturals, FiniteSets

CONSTANTS
  Users,
  Sizes,            \* sizes of uploads and of hosted shards
  MinContribution,  \* config.min_contribution
  MaxUsage,         \* config.max_usage
  RatioNum,         \* config.contribution_ratio
  RatioDen,
  GracePeriod,      \* config.grace_period_secs
  Sessions,         \* bound: uploads of one user between check and record
  MaxTime,          \* bound: the clock stops there
  MaxBytes,         \* bound on the bytes and the counts of a quota
  NoQuota           \* no entry in the map

ASSUME QuotaAssumption ==
  /\ Sizes \subseteq Nat \ {0}
  /\ MinContribution \in Nat /\ MaxUsage \in Nat
  /\ RatioNum \in Nat \ {0} /\ RatioDen \in Nat \ {0}
  /\ GracePeriod \in Nat
  /\ Sessions \in Nat /\ MaxTime \in Nat /\ MaxBytes \in Nat

UserQuota == [bytes_used : Nat, bytes_contributed : Nat, files_count : Nat,
              shards_hosted : Nat, joined_at : Nat, in_grace_period : BOOLEAN]

\* A session: the size it was allowed to upload, whether in the grace period,
\* and (history) whether since then no other upload of the user was recorded
\* and no shard the user hosts was removed.
Session == [size : Sizes, grace : BOOLEAN, kept : BOOLEAN]

ASSUME NoQuotaAssumption == NoQuota \notin UserQuota \cup Session

VARIABLES
  quotas,           \* QuotaManager.quotas
  session,          \* the sessions of each user, or NoQuota for none
  now

vars == <<quotas, session, now>>

Smaller(a, b) == IF a < b THEN a ELSE b

\* Plain subtraction. (Faulty... operators are wrong variants of the
\* definition that follows them.)
FaultyMinus(a, b) == a - b

Minus(a, b) == IF a > b THEN a - b ELSE 0      \* saturating_sub

\* (x as f64 / ratio) as u64 and (x as f64 * ratio) as u64
DivRatio(x) == (x * RatioDen) \div RatioNum
MulRatio(x) == (x * RatioNum) \div RatioDen

\* What a user outside the grace period may use in all.
Allowance(q) == Smaller(DivRatio(q.bytes_contributed), MaxUsage)

\* The bytes already used are not taken off.
FaultyAvailableStorage(q) ==
  IF q.in_grace_period THEN MinContribution ELSE Allowance(q)

AvailableStorage(q) ==
  IF q.in_grace_period THEN MinContribution
                       ELSE Minus(Allowance(q), q.bytes_used)

CanUpload(q, size) == AvailableStorage(q) >= size

\* The bytes already used are forgotten.
FaultyNeeded(q, size) == Minus(MulRatio(size), q.bytes_contributed)

\* calculate_needed_contribution
Needed(q, size) == Minus(MulRatio(q.bytes_used + size), q.bytes_contributed)

\* UserQuota::new
NewQuota == [bytes_used |-> 0, bytes_contributed |-> 0, files_count |-> 0,
             shards_hosted |-> 0, joined_at |-> now, in_grace_period |-> TRUE]

\* The sessions of a user once the bytes behind their answers were used or
\* taken away.
Overtaken(u) ==
  [n \in 1 .. Sessions |->
     IF session[u][n] = NoQuota THEN NoQuota
                                ELSE [session[u][n] EXCEPT !.kept = FALSE]]

\* get_user_quota creates the entry at the first mention of a user.
GetUserQuota(u) == IF quotas[u] = NoQuota THEN NewQuota ELSE quotas[u]

-----------------------------------------------------------------------------
\* >= for >: the last second of the period is lost.
FaultyCheckGracePeriod(q) ==
  [q EXCEPT !.in_grace_period = @ /\ now - q.joined_at < GracePeriod]

\* check_grace_period
CheckGracePeriod(q) ==
  [q EXCEPT !.in_grace_period = @ /\ now - q.joined_at <= GracePeriod]

Init ==
  /\ quotas = [u \in Users |-> NoQuota]
  /\ session = [u \in Users |-> [n \in 1 .. Sessions |-> NoQuota]]
  /\ now = 0

\* can_upload, answering Allowed: the session uploads.
CheckAllowed(u, n, size) ==
  LET q == CheckGracePeriod(GetUserQuota(u))
  IN  /\ session[u][n] = NoQuota
      /\ CanUpload(q, size)
      /\ quotas' = [quotas EXCEPT ![u] = q]
      /\ session' = [session EXCEPT ![u][n] =
                       [size |-> size, grace |-> q.in_grace_period, kept |-> TRUE]]
      /\ UNCHANGED now

\* can_upload, answering InsufficientQuota, and get_quota_summary: the entry
\* is created and its grace flag brought up to date.
CheckRefused(u, size) ==
  LET q == CheckGracePeriod(GetUserQuota(u))
  IN  /\ ~CanUpload(q, size)
      /\ quotas' = [quotas EXCEPT ![u] = q]
      /\ UNCHANGED <<session, now>>

GetQuotaSummary(u) ==
  /\ quotas' = [quotas EXCEPT ![u] = CheckGracePeriod(GetUserQuota(u))]
  /\ UNCHANGED <<session, now>>

\* record_upload, at the end of a session.
RecordUpload(u, n) ==
  LET q == GetUserQuota(u)
  IN  /\ session[u][n] # NoQuota
      /\ q.bytes_used + session[u][n].size <= MaxBytes /\ q.files_count < MaxBytes
      /\ quotas' = [quotas EXCEPT ![u] =
           [q EXCEPT !.bytes_used = @ + session[u][n].size,
                     !.files_count = @ + 1]]
      /\ session' = [session EXCEPT ![u] = [Overtaken(u) EXCEPT ![n] = NoQuota]]
      /\ UNCHANGED now

\* record_deletion: nothing ties the size to an upload.
RecordDeletion(u, size) ==
  /\ quotas[u] # NoQuota
  /\ quotas' = [quotas EXCEPT ![u].bytes_used = Minus(@, size),
                              ![u].files_count = Minus(@, 1)]
  /\ UNCHANGED <<session, now>>

RecordShardHosted(u, size) ==
  LET q == GetUserQuota(u)
  IN  /\ q.bytes_contributed + size <= MaxBytes /\ q.shards_hosted < MaxBytes
      /\ quotas' = [quotas EXCEPT ![u] =
           [q EXCEPT !.bytes_contributed = @ + size, !.shards_hosted = @ + 1]]
      /\ UNCHANGED <<session, now>>

RecordShardRemoved(u, size) ==
  /\ quotas[u] # NoQuota
  /\ quotas' = [quotas EXCEPT ![u].bytes_contributed = Minus(@, size),
                              ![u].shards_hosted = Minus(@, 1)]
  /\ session' = [session EXCEPT ![u] = Overtaken(u)]
  /\ UNCHANGED now

Tick ==
  /\ now < MaxTime
  /\ now' = now + 1
  /\ UNCHANGED <<quotas, session>>

Next ==
  \/ \E u \in Users, size \in Sizes :
       \/ \E n \in 1 .. Sessions : CheckAllowed(u, n, size)
       \/ CheckRefused(u, size)
       \/ RecordDeletion(u, size)
       \/ RecordShardHosted(u, size)
       \/ RecordShardRemoved(u, size)
  \/ \E u \in Users, n \in 1 .. Sessions : RecordUpload(u, n)
  \/ \E u \in Users : GetQuotaSummary(u)
  \/ Tick

Spec == Init /\ [][Next]_vars

-----------------------------------------------------------------------------
(* Properties *)

TypeOK ==
  /\ quotas \in [Users -> UserQuota \cup {NoQuota}]
  /\ session \in [Users -> [1 .. Sessions -> Session \cup {NoQuota}]]
  /\ now \in Nat

\* What a session was allowed to upload outside the grace period still fits
\* when it is recorded: deletions, contributions, other checks and time in
\* between do not make the answer wrong.  Only another upload of the same user
\* (two sessions may be promised the same bytes) and a removed shard can.
AllowedStillFits ==
  \A u \in Users, n \in 1 .. Sessions :
    session[u][n] # NoQuota /\ session[u][n].kept /\ ~session[u][n].grace
      => quotas[u].bytes_used + session[u][n].size <= Allowance(quotas[u])

\* Nobody loses the grace period before it is over: an entry is created and
\* judged in the same call, at any later call, and to the very second.
GraceIsFull ==
  \A u \in Users :
    quotas[u] # NoQuota /\ ~quotas[u].in_grace_period
      => now > quotas[u].joined_at + GracePeriod

\* The byte MulRatio loses when it truncates.
Truncated(total) == IF (total * RatioNum) % RatioDen = 0 THEN 0 ELSE 1

\* quota.rs:163: "Para fazer upload de {} bytes, voce precisa contribuir {}
\* bytes para a rede": when contributing helps, what a refusal asks for is what
\* is missing: less is not enough, and it is, but for one byte when the ratio
\* truncates.  Nothing contributed helps in the grace period or beyond
\* MaxUsage, where the message is false.
NeededIsExact ==
  \A u \in Users, size \in Sizes :
    LET q == CheckGracePeriod(GetUserQuota(u))
        total == q.bytes_used + size
    IN ~CanUpload(q, size) =>
         \A extra \in 0 .. MulRatio(total) + 1 :
           CanUpload([q EXCEPT !.bytes_contributed = @ + extra], size)
             <=> /\ ~q.in_grace_period
                 /\ total <= MaxUsage
                 /\ extra >= Needed(q, size) + Truncated(total)
=============================================================================
