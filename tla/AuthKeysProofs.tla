---------------------------- MODULE AuthKeysProofs ----------------------------
(***************************************************************************)
(* The safety of AuthKeys for every number of phrases, calls and files and *)
(* every choice of faults.                                                 *)
(***************************************************************************)
EXTENDS AuthKeys, SequenceTheorems, TLAPS

\* What a call has in its hands, by its function.
LoadCall == [op : {"load"}, todo : Seq(Entries), user : Seeds \cup {None},
             complete : BOOLEAN]
FormCall == [op : {"create", "recover"}, todo : Seq(Entries), seed : Seeds,
             shown : BOOLEAN]
LogoutCall == [op : {"logout"}, todo : Seq(Entries)]
LookupCall == [op : {"loadMasterKey", "readFallback"}, owner : Seeds \cup {None}]
FallbackCall == [op : {"writeFallback"}, owner : Seeds \cup {None}, key : TempKeys]

\* A call has yet to touch an entry.
Awaited(r, e) == \E i \in 1 .. Len(r.todo) : r.todo[i] = e

AccountKey == store["libredrive_master_key"]
AccountId == store["public_id"]
NoOverlap == "overlap" \notin disturbed
Undisturbed == disturbed = {}

-----------------------------------------------------------------------------
(* The inductive invariant *)

\* Calls that do not overlap run one at a time.
Solo ==
  NoOverlap =>
    \A c, d \in Calls : c # d => call[c] = Idle \/ call[d] = Idle

\* What a load has read is what is there.
LoadedBy(r) ==
  r.op = "load" =>
    /\ \A e \in {"libredrive_master_key", "public_id", "username"} :
         Awaited(r, e) \/ (r.complete => store[e] # None)
    /\ Awaited(r, "public_id") \/ r.user = AccountId

Loaded == NoOverlap => \A c \in Calls : LoadedBy(call[c])

\* Id and key are of one account but while an account is being written.
Agree ==
  Pending({"create", "recover", "logout"}) = {} =>
    (AccountKey # None /\ AccountId # None => AccountKey = AccountId)

WrittenBy(r) ==
  r.op \in {"create", "recover"} =>
    \A e \in {"libredrive_master_key", "public_id"} :
      Awaited(r, e) \/ store[e] = r.seed

\* An upload looks its key up for the account shown; the fallback is only
\* reached when none is.
LooksUpFor(r) ==
  /\ r.op = "loadMasterKey" => r.owner = auth.user
  /\ r.op \in {"readFallback", "writeFallback"} => r.owner = None

OneAccount ==
  Undisturbed =>
    /\ Agree
    /\ ShownIdIsOfKey
    /\ \A c \in Calls : WrittenBy(call[c]) /\ LooksUpFor(call[c])
    /\ \A f \in files : f.owner # None => f.key = f.owner

\* Creations and recoveries do not write the entry of the fallback.
AccountEntries == Entries \ {"master_key"}

FormTodo ==
  \A c \in Calls : call[c].op \in {"create", "recover"} =>
                     call[c].todo \in Seq(AccountEntries)

IInv == TypeOK /\ FormTodo /\ Solo /\ Loaded /\ OneAccount /\ SpinnerHasCall

-----------------------------------------------------------------------------
(* Calls and the entries they have yet to touch *)

LEMMA CallKinds ==
  /\ CallStates = {Idle, [op |-> "loggedOut"]} \cup LoadCall \cup FormCall
                    \cup LogoutCall \cup LookupCall \cup FallbackCall
  /\ Idle.op = "idle"
  BY DEF CallStates, LoadCall, FormCall, LogoutCall, LookupCall, FallbackCall, Idle

\* The fields of a call follow from its function.
LEMMA CallFields ==
  ASSUME NEW r \in CallStates
  PROVE  /\ r.op \in {"idle", "loggedOut", "load", "create", "recover", "logout",
                      "loadMasterKey", "readFallback", "writeFallback"}
         /\ r.op = "idle" => r = Idle
         /\ r.op = "load" => r \in LoadCall
         /\ r.op \in {"create", "recover"} => r \in FormCall
         /\ r.op = "logout" => r \in LogoutCall
         /\ r.op \in {"loadMasterKey", "readFallback"} => r \in LookupCall
         /\ r.op = "writeFallback" => r \in FallbackCall
  <1>1. CASE r = Idle
    BY <1>1, CallKinds
  <1>2. CASE r = [op |-> "loggedOut"]
    BY <1>2
  <1>3. CASE r \in LoadCall
    BY <1>3 DEF LoadCall
  <1>4. CASE r \in FormCall
    BY <1>4 DEF FormCall
  <1>5. CASE r \in LogoutCall
    BY <1>5 DEF LogoutCall
  <1>6. CASE r \in LookupCall
    BY <1>6 DEF LookupCall
  <1>7. CASE r \in FallbackCall
    BY <1>7 DEF FallbackCall
  <1> QED BY <1>1, <1>2, <1>3, <1>4, <1>5, <1>6, <1>7, CallKinds

\* A call that touched the first of its entries awaits the others still.
LEMMA NextEntry ==
  ASSUME NEW todo \in Seq(Entries), todo # <<>>,
         NEW i \in 1 .. Len(todo), todo[i] # Head(todo)
  PROVE  \E j \in 1 .. Len(Tail(todo)) : Tail(todo)[j] = todo[i]
  <1>1. i # 1
    OBVIOUS
  <1>2. i - 1 \in 1 .. Len(Tail(todo)) /\ Tail(todo)[i - 1] = todo[i]
    BY <1>1
  <1> QED BY <1>2

LEMMA HeadTail ==
  ASSUME NEW S, NEW todo \in Seq(S), todo # <<>>
  PROVE  Head(todo) \in S /\ Tail(todo) \in Seq(S)
  OBVIOUS

\* The entries every call starts with.
LEMMA AwaitsType ==
  ASSUME NEW op \in {"load", "create", "recover", "logout"}, NEW p \in BOOLEAN
  PROVE  /\ Awaits(op, p) \in Seq(Entries)
         /\ Awaits(op, p) \in Seq(AccountEntries)
         /\ op \in {"create", "recover"} =>
              \A e \in {"libredrive_master_key", "public_id"} :
                \E i \in 1 .. Len(Awaits(op, p)) : Awaits(op, p)[i] = e
         /\ op = "load" =>
              \A e \in {"libredrive_master_key", "public_id", "username"} :
                \E i \in 1 .. Len(Awaits(op, p)) : Awaits(op, p)[i] = e
  <1> DEFINE a0 == Awaits(op, p)
  <1>0. a0 \in Seq(AccountEntries) => a0 \in Seq(Entries)
    BY DEF AccountEntries
  <1> HIDE DEF a0
  <1>1. CASE op = "load"
    <2> DEFINE a == <<"public_id", "username", "libredrive_master_key">>
    <2>1. Awaits(op, p) = a
      BY <1>1 DEF Awaits
    <2>2. a \in Seq(AccountEntries) /\ Len(a) = 3
          /\ a[1] = "public_id" /\ a[2] = "username" /\ a[3] = "libredrive_master_key"
      BY DEF Entries, AccountEntries
    <2> HIDE DEF a
    <2> QED BY <1>0, <1>1, <2>1, <2>2 DEF a0
  <1>2. CASE op = "create"
    <2> DEFINE a == <<"libredrive_master_key", "libredrive_seed", "public_id",
                      "username", "password_hash">>
    <2>1. Awaits(op, p) = a
      BY <1>2 DEF Awaits
    <2>2. a \in Seq(AccountEntries) /\ Len(a) = 5
          /\ a[1] = "libredrive_master_key" /\ a[3] = "public_id"
      BY DEF Entries, AccountEntries
    <2> HIDE DEF a
    <2> QED BY <1>0, <1>2, <2>1, <2>2 DEF a0
  <1>3. CASE op = "recover"
    <2> DEFINE a == <<"libredrive_master_key", "public_id", "username">>
               b == IF p THEN <<"libredrive_seed", "password_hash">> ELSE <<>>
    <2>1. Awaits(op, p) = a \o b
      BY <1>3 DEF Awaits
    <2>2. a \in Seq(AccountEntries) /\ Len(a) = 3
          /\ a[1] = "libredrive_master_key" /\ a[2] = "public_id"
      BY DEF Entries, AccountEntries
    <2>3. b \in Seq(AccountEntries)
      <3>1. <<"libredrive_seed", "password_hash">> \in Seq(AccountEntries)
        BY DEF Entries, AccountEntries
      <3> QED BY <3>1
    <2> HIDE DEF a, b
    <2>4. a \o b \in Seq(AccountEntries) /\ Len(a \o b) >= 3
          /\ (a \o b)[1] = a[1] /\ (a \o b)[2] = a[2]
      <3>1. Len(b) \in Nat
        BY <2>3
      <3>2. /\ a \o b \in Seq(AccountEntries) /\ Len(a \o b) = Len(a) + Len(b)
            /\ \A i \in 1 .. Len(a) + Len(b) :
                 (a \o b)[i] = IF i <= Len(a) THEN a[i] ELSE b[i - Len(a)]
        BY <2>2, <2>3, ConcatProperties
      <3>3. 1 \in 1 .. Len(a) + Len(b) /\ 2 \in 1 .. Len(a) + Len(b)
        BY <2>2, <3>1
      <3> QED BY <2>2, <3>1, <3>2, <3>3
    <2>5. 1 \in 1 .. Len(a \o b) /\ 2 \in 1 .. Len(a \o b)
      BY <2>4
    <2> QED BY <1>0, <1>3, <2>1, <2>2, <2>4, <2>5 DEF a0
  <1>4. CASE op = "logout"
    BY <1>0, <1>4 DEF a0, Awaits, Entries, AccountEntries
  <1> QED BY <1>1, <1>2, <1>3, <1>4

-----------------------------------------------------------------------------
(* One call at a time *)

\* A call that starts is alone unless calls overlap from now on.
LEMMA StartAlone ==
  ASSUME TypeOK, NEW c \in Calls, NEW new \in CallStates, Start(c, new)
  PROVE  /\ call' \in [Calls -> CallStates] /\ call'[c] = new
         /\ call[c] = Idle
         /\ \A d \in Calls : d # c => call'[d] = call[d]
         /\ disturbed \subseteq disturbed' /\ disturbed' \subseteq {"cut", "overlap", "torn"}
         /\ NoOverlap' => NoOverlap /\ \A d \in Calls : call[d] = Idle
         /\ Undisturbed' => Undisturbed /\ NoOverlap'
  BY DEF TypeOK, Start, NoOverlap, Undisturbed

\* A call in progress is alone unless calls overlap.
LEMMA Alone ==
  ASSUME Solo, NoOverlap, NEW c \in Calls, call[c] # Idle
  PROVE  \A d \in Calls : d # c => call[d] = Idle
  BY DEF Solo

LEMMA InitIInv == Init => IInv
  <1> SUFFICES ASSUME Init PROVE IInv
    OBVIOUS
  <1> USE AuthAssumption, CallKinds DEF Init
  <1>1. TypeOK
    BY DEF TypeOK, Empty, Entries
  <1>2. \A c \in Calls : call[c] = Idle /\ call[c].op = "idle"
    OBVIOUS
  <1>3. FormTodo /\ Solo /\ Loaded /\ SpinnerHasCall
    BY <1>2 DEF FormTodo, Solo, Loaded, LoadedBy, SpinnerHasCall
  <1>4. AccountKey = None
    BY DEF AccountKey, Empty, Entries
  <1>5. OneAccount
    BY <1>2, <1>4 DEF OneAccount, Agree, ShownIdIsOfKey, WrittenBy, LooksUpFor
  <1> QED BY <1>1, <1>3, <1>5 DEF IInv

-----------------------------------------------------------------------------
(* Starting the app *)

LEMMA CheckAuthStep ==
  ASSUME IInv, NEW c \in Calls, CheckAuth(c)
  PROVE  IInv'
  <1> DEFINE new == [op |-> "load", todo |-> Awaits("load", FALSE),
                     user |-> None, complete |-> TRUE]
  <1>1. new \in LoadCall /\ new.op = "load" /\ new.todo = Awaits("load", FALSE)
    BY AwaitsType DEF LoadCall
  <1>2. TypeOK /\ new \in CallStates /\ Start(c, new)
    BY <1>1, CallKinds DEF CheckAuth, IInv
  <1> HIDE DEF new
  <1>3. /\ call' \in [Calls -> CallStates] /\ call'[c] = new
        /\ \A d \in Calls : d # c => call'[d] = call[d]
        /\ disturbed' \subseteq {"cut", "overlap", "torn"}
        /\ NoOverlap' => NoOverlap /\ \A d \in Calls : call[d] = Idle
        /\ Undisturbed' => Undisturbed /\ NoOverlap'
    BY <1>2, StartAlone
  <1>u. /\ auth' = [auth EXCEPT !.loading = TRUE] /\ UNCHANGED <<store, files>>
        /\ screen' \in {"home", "welcome"}
        /\ auth'.user = auth.user
    BY <1>2 DEF CheckAuth, TypeOK
  <1>4. TypeOK'
    BY <1>2, <1>3, <1>u DEF TypeOK
  <1>5. FormTodo' /\ Solo'
    BY <1>1, <1>3 DEF FormTodo, Solo, IInv
  <1>6. Loaded'
    <2>1. \A e \in {"libredrive_master_key", "public_id", "username"} : Awaited(new, e)
      <3>1. \A e \in {"libredrive_master_key", "public_id", "username"} :
              \E i \in 1 .. Len(Awaits("load", FALSE)) : Awaits("load", FALSE)[i] = e
        BY AwaitsType
      <3> QED BY <1>1, <3>1 DEF Awaited
    <2>2. LoadedBy(call[c])'
      BY <1>3, <2>1 DEF LoadedBy
    <2> QED BY <1>3, <2>2, CallKinds DEF Loaded, LoadedBy
  <1>7. OneAccount'
    <2> SUFFICES ASSUME Undisturbed' PROVE OneAccount!2'
      BY DEF OneAccount
    <2>1. Undisturbed /\ \A d \in Calls : call[d] = Idle
      BY <1>3
    <2>2. Agree /\ ShownIdIsOfKey /\ Pending({"create", "recover", "logout"}) = {}
      BY <2>1, CallKinds, <1>2 DEF OneAccount, IInv, Pending
    <2>3. Agree'
      BY <1>u, <2>2 DEF Agree, AccountKey, AccountId
    <2>4. ~Settled'
      BY <1>1, <1>3 DEF Settled, Pending, AccountOps
    <2>5. \A d \in Calls : WrittenBy(call[d])' /\ LooksUpFor(call[d])'
      BY <1>1, <1>3, <2>1, CallKinds DEF WrittenBy, LooksUpFor
    <2> QED BY <1>u, <2>1, <2>3, <2>4, <2>5 DEF OneAccount, ShownIdIsOfKey, IInv
  <1>8. SpinnerHasCall'
    BY <1>1, <1>3 DEF SpinnerHasCall, Pending
  <1> QED BY <1>4, <1>5, <1>6, <1>7, <1>8 DEF IInv

LEMMA LoadReadStep ==
  ASSUME IInv, NEW c \in Calls, LoadRead(c)
  PROVE  IInv'
  <1> DEFINE r == call[c]
             e == Head(r.todo)
             next == [r EXCEPT !.todo = Tail(@),
                               !.user = IF e = "public_id" THEN store[e] ELSE @,
                               !.complete = @ /\ store[e] # None]
  <1>1. /\ TypeOK /\ r.op = "load" /\ r \in CallStates /\ r # Idle
        /\ r.todo # <<>>
    BY CallKinds DEF LoadRead, IInv, TypeOK
  <1>2. r \in LoadCall
    BY <1>1, CallFields
  <1>3. r.todo \in Seq(Entries) /\ e \in Entries /\ Tail(r.todo) \in Seq(Entries)
    BY <1>1, <1>2, HeadTail DEF LoadCall
  <1>4. /\ next \in LoadCall /\ next.op = "load" /\ next.todo = Tail(r.todo)
        /\ next.user = IF e = "public_id" THEN store[e] ELSE r.user
        /\ next.complete = (r.complete /\ store[e] # None)
    BY <1>1, <1>2, <1>3 DEF LoadCall, TypeOK
  <1>5. /\ call' \in [Calls -> CallStates] /\ call'[c] = next
        /\ \A d \in Calls : d # c => call'[d] = call[d]
        /\ UNCHANGED <<store, auth, screen, files, disturbed>>
    BY <1>1, <1>4, CallKinds DEF LoadRead, TypeOK
  <1> HIDE DEF next, e
  <1>6. TypeOK'
    BY <1>1, <1>5 DEF TypeOK
  <1>7. FormTodo' /\ Solo'
    BY <1>1, <1>4, <1>5 DEF FormTodo, Solo, IInv, NoOverlap
  <1>8. Loaded'
    <2> SUFFICES ASSUME NoOverlap PROVE LoadedBy(next)
      BY <1>5 DEF Loaded, LoadedBy, IInv, NoOverlap, AccountId
    <2>1. LoadedBy(r)
      BY DEF IInv, Loaded
    <2>2. ASSUME NEW n \in Entries, Awaited(r, n), n # e
          PROVE  Awaited(next, n)
      <3>1. PICK i \in 1 .. Len(r.todo) : r.todo[i] = n
        BY <2>2 DEF Awaited
      <3>2. \E j \in 1 .. Len(Tail(r.todo)) : Tail(r.todo)[j] = n
        BY <1>1, <1>3, <2>2, <3>1, NextEntry DEF e
      <3> QED BY <1>4, <3>2 DEF Awaited
    <2>3. {"libredrive_master_key", "public_id", "username"} \subseteq Entries
      BY DEF Entries
    <2> QED BY <1>1, <1>4, <2>1, <2>2, <2>3 DEF LoadedBy, AccountId
  <1>9. OneAccount'
    BY <1>1, <1>4, <1>5
       DEF OneAccount, IInv, Undisturbed, Agree, ShownIdIsOfKey, WrittenBy, LooksUpFor,
           Settled, Pending, AccountOps, AccountKey, AccountId
  <1>10. SpinnerHasCall'
    BY <1>1, <1>4, <1>5 DEF SpinnerHasCall, IInv, Pending
  <1> QED BY <1>6, <1>7, <1>8, <1>9, <1>10 DEF IInv

LEMMA LoadDoneStep ==
  ASSUME IInv, NEW c \in Calls, LoadDone(c)
  PROVE  IInv'
  <1> DEFINE r == call[c]
  <1>1. /\ TypeOK /\ r.op = "load" /\ r \in LoadCall /\ r # Idle
        /\ r.todo = <<>>
    BY CallKinds, CallFields DEF LoadDone, IInv, TypeOK
  <1>2. /\ call' \in [Calls -> CallStates] /\ call'[c] = Idle
        /\ \A d \in Calls : d # c => call'[d] = call[d]
        /\ auth' = [user |-> IF r.complete THEN r.user ELSE None, loading |-> FALSE]
        /\ auth'.user = (IF r.complete THEN r.user ELSE None) /\ ~auth'.loading
        /\ UNCHANGED <<store, screen, files, disturbed>>
    BY <1>1, CallKinds DEF LoadDone, TypeOK
  <1>3. TypeOK'
    BY <1>1, <1>2 DEF TypeOK, LoadCall
  <1>4. FormTodo' /\ Solo' /\ SpinnerHasCall'
    BY <1>2, CallKinds DEF FormTodo, Solo, IInv, NoOverlap, SpinnerHasCall
  <1>5. Loaded'
    BY <1>2, CallKinds DEF Loaded, LoadedBy, IInv, NoOverlap, AccountId
  <1>6. OneAccount'
    <2> SUFFICES ASSUME Undisturbed PROVE OneAccount!2'
      BY <1>2 DEF OneAccount, Undisturbed
    <2>1. NoOverlap /\ \A d \in Calls : d # c => call[d] = Idle
      BY <1>1, Alone DEF IInv, NoOverlap, Undisturbed
    <2>2. Pending({"create", "recover", "logout"}) = {}
      BY <1>1, <2>1, CallKinds DEF Pending
    <2>3. AccountKey # None /\ AccountId # None => AccountKey = AccountId
      BY <2>2 DEF IInv, OneAccount, Agree
    <2>4. Agree'
      BY <1>2, <2>3 DEF Agree, AccountKey, AccountId
    <2>5. r.complete => r.user = AccountId /\ AccountKey # None /\ AccountId # None
      BY <1>1, <2>1 DEF IInv, Loaded, LoadedBy, Awaited, AccountKey, AccountId
    <2>6. ShownIdIsOfKey'
      BY <1>2, <2>3, <2>5 DEF ShownIdIsOfKey, AccountKey
    <2>7. \A d \in Calls : WrittenBy(call[d])' /\ LooksUpFor(call[d])'
      BY <1>2, <2>1, CallKinds DEF WrittenBy, LooksUpFor
    <2> QED BY <1>2, <2>4, <2>6, <2>7 DEF OneAccount, IInv
  <1> QED BY <1>3, <1>4, <1>5, <1>6 DEF IInv

-----------------------------------------------------------------------------
(* Creating and recovering an account *)

LEMMA BeginStep ==
  ASSUME IInv, NEW c \in Calls, NEW op \in {"create", "recover"},
         NEW s \in Seeds, NEW p \in BOOLEAN, Begin(c, op, s, p)
  PROVE  IInv'
  <1> DEFINE new == [op |-> op, todo |-> Awaits(op, p), seed |-> s, shown |-> TRUE]
  <1>1. /\ new \in FormCall /\ new.op \in {"create", "recover"}
        /\ new.todo = Awaits(op, p) /\ new.todo \in Seq(AccountEntries)
    BY AwaitsType DEF FormCall
  <1>2. TypeOK /\ new \in CallStates /\ Start(c, new)
    BY <1>1, CallKinds DEF Begin, IInv
  <1>3. \A e \in {"libredrive_master_key", "public_id"} : Awaited(new, e)
    <2>1. \A e \in {"libredrive_master_key", "public_id"} :
            \E i \in 1 .. Len(Awaits(op, p)) : Awaits(op, p)[i] = e
      BY AwaitsType
    <2> QED BY <1>1, <2>1 DEF Awaited
  <1> HIDE DEF new
  <1>4. /\ call' \in [Calls -> CallStates] /\ call'[c] = new
        /\ \A d \in Calls : d # c => call'[d] = call[d]
        /\ disturbed' \subseteq {"cut", "overlap", "torn"}
        /\ NoOverlap' => NoOverlap /\ \A d \in Calls : call[d] = Idle
        /\ Undisturbed' => Undisturbed /\ NoOverlap'
    BY <1>2, StartAlone
  <1>u. /\ auth' = [auth EXCEPT !.loading = TRUE]
        /\ UNCHANGED <<store, screen, files>>
    BY DEF Begin
  <1>5. TypeOK'
    BY <1>2, <1>4, <1>u DEF TypeOK
  <1>6. FormTodo' /\ Solo'
    BY <1>1, <1>4 DEF FormTodo, Solo, IInv
  <1>7. Loaded'
    BY <1>1, <1>4, CallKinds DEF Loaded, LoadedBy
  <1>8. OneAccount'
    <2> SUFFICES ASSUME Undisturbed' PROVE OneAccount!2'
      BY DEF OneAccount
    <2>1. Undisturbed /\ \A d \in Calls : call[d] = Idle
      BY <1>4
    <2>2. ~Settled' /\ Agree'
      BY <1>1, <1>4 DEF Settled, Agree, Pending, AccountOps
    <2>3. \A d \in Calls : WrittenBy(call[d])' /\ LooksUpFor(call[d])'
      BY <1>1, <1>3, <1>4, <2>1, CallKinds DEF WrittenBy, LooksUpFor, Awaited
    <2> QED BY <1>u, <2>1, <2>2, <2>3 DEF OneAccount, ShownIdIsOfKey, IInv
  <1>9. SpinnerHasCall'
    BY <1>1, <1>4 DEF SpinnerHasCall, Pending
  <1> QED BY <1>5, <1>6, <1>7, <1>8, <1>9 DEF IInv

LEMMA RecoverInvalidStep ==
  ASSUME IInv, RecoverInvalid
  PROVE  IInv'
  <1>1. /\ auth'.user = auth.user /\ ~auth'.loading
        /\ auth' \in [user : Seeds \cup {None}, loading : BOOLEAN]
        /\ UNCHANGED <<store, screen, call, files, disturbed>>
    BY DEF RecoverInvalid, IInv, TypeOK
  <1>2. TypeOK' /\ FormTodo' /\ Solo' /\ Loaded' /\ SpinnerHasCall'
    BY <1>1 DEF IInv, TypeOK, FormTodo, Solo, NoOverlap, Loaded, LoadedBy, AccountId,
                SpinnerHasCall
  <1>3. OneAccount'
    BY <1>1 DEF IInv, OneAccount, Undisturbed, Agree, Pending, AccountKey, AccountId,
                ShownIdIsOfKey, Settled, WrittenBy, LooksUpFor
  <1> QED BY <1>2, <1>3 DEF IInv

LEMMA LeaveStep ==
  ASSUME IInv, NEW c \in Calls, Leave(c)
  PROVE  IInv'
  <1> DEFINE r == call[c]
             next == [r EXCEPT !.shown = FALSE]
  <1>1. /\ TypeOK /\ r.op \in {"create", "recover"} /\ r \in FormCall /\ r # Idle
    BY CallKinds, CallFields DEF Leave, IInv, TypeOK
  <1>2. /\ next \in FormCall /\ next.op = r.op /\ next.todo = r.todo
        /\ next.seed = r.seed
    BY <1>1 DEF FormCall
  <1>3. /\ call' \in [Calls -> CallStates] /\ call'[c] = next
        /\ \A d \in Calls : d # c => call'[d] = call[d]
        /\ UNCHANGED <<store, auth, screen, files, disturbed>>
    BY <1>1, <1>2, CallKinds DEF Leave, TypeOK
  <1> HIDE DEF next
  <1>4. TypeOK' /\ FormTodo' /\ Solo'
    BY <1>1, <1>2, <1>3 DEF IInv, TypeOK, FormTodo, Solo, NoOverlap
  <1>5. Loaded' /\ SpinnerHasCall'
    BY <1>1, <1>2, <1>3
       DEF IInv, NoOverlap, Loaded, LoadedBy, AccountId, SpinnerHasCall, Pending
  <1>6. OneAccount'
    BY <1>1, <1>2, <1>3
       DEF OneAccount, IInv, Undisturbed, Agree, ShownIdIsOfKey, WrittenBy, LooksUpFor,
           Settled, Pending, AccountOps, AccountKey, AccountId, Awaited
  <1> QED BY <1>4, <1>5, <1>6 DEF IInv

LEMMA WriteStep ==
  ASSUME IInv, NEW c \in Calls, Write(c)
  PROVE  IInv'
  <1> DEFINE r == call[c]
             e == Head(r.todo)
             value == IF e \in {"username", "password_hash"} THEN Given ELSE r.seed
             next == [r EXCEPT !.todo = Tail(@)]
  <1>1. /\ TypeOK /\ r.op \in {"create", "recover"} /\ r \in FormCall /\ r # Idle
        /\ r.todo # <<>> /\ r.todo \in Seq(AccountEntries)
    BY CallKinds, CallFields DEF Write, IInv, TypeOK, FormTodo
  <1>2. e \in AccountEntries /\ Tail(r.todo) \in Seq(AccountEntries)
    BY <1>1, HeadTail
  <1>3. e \in Entries /\ r.todo \in Seq(Entries) /\ Tail(r.todo) \in Seq(Entries)
    BY <1>1, <1>2, HeadTail DEF FormCall, AccountEntries
  <1>4. /\ next \in FormCall /\ next.op = r.op /\ next.todo = Tail(r.todo)
        /\ next.seed = r.seed
    BY <1>1, <1>3 DEF FormCall
  <1>5. /\ call' \in [Calls -> CallStates] /\ call'[c] = next
        /\ \A d \in Calls : d # c => call'[d] = call[d]
        /\ store' = [store EXCEPT ![e] = value]
        /\ UNCHANGED <<auth, screen, files, disturbed>>
    BY <1>1, <1>4, CallKinds DEF Write, TypeOK
  <1>6. /\ value \in Seeds \cup {Given}
        /\ e \in {"libredrive_master_key", "libredrive_seed", "public_id"} =>
             value = r.seed /\ value \in Seeds
    BY <1>1 DEF FormCall
  <1> HIDE DEF next, e, value
  <1>7. /\ store' \in [Entries -> Seeds \cup TempKeys \cup {Given, None}]
        /\ \A n \in Entries : store'[n] = IF n = e THEN value ELSE store[n]
    BY <1>1, <1>3, <1>5, <1>6 DEF TypeOK
  <1>n. /\ {"libredrive_seed", "libredrive_master_key", "public_id", "master_key"}
             \subseteq Entries
        /\ e # "master_key"
    BY <1>2 DEF Entries, AccountEntries
  <1>8. TypeOK'
    BY <1>1, <1>5, <1>6, <1>7, <1>n DEF TypeOK
  <1>9. FormTodo' /\ Solo'
    BY <1>1, <1>2, <1>4, <1>5 DEF FormTodo, Solo, IInv, NoOverlap
  <1>10. Loaded'
    <2>1. NoOverlap => \A d \in Calls : d # c => call[d] = Idle
      BY <1>1, Alone DEF IInv
    <2> QED BY <1>1, <1>4, <1>5, <2>1, CallKinds DEF Loaded, LoadedBy, NoOverlap
  <1>11. OneAccount'
    <2> SUFFICES ASSUME Undisturbed PROVE OneAccount!2'
      BY <1>5 DEF OneAccount, Undisturbed
    <2>1. \A d \in Calls : d # c => call[d] = Idle
      BY <1>1, Alone DEF IInv, NoOverlap, Undisturbed
    <2>2. ~Settled' /\ Agree'
      BY <1>1, <1>4, <1>5 DEF Settled, Agree, Pending, AccountOps
    <2>3. ASSUME NEW n \in {"libredrive_master_key", "public_id"}
          PROVE  Awaited(next, n) \/ store'[n] = r.seed
      <3>1. Awaited(r, n) \/ store[n] = r.seed
        BY <1>1 DEF IInv, OneAccount, WrittenBy
      <3>2. CASE n = e
        BY <1>6, <1>7, <1>n, <3>2
      <3>3. CASE n # e /\ Awaited(r, n)
        <4>1. PICK i \in 1 .. Len(r.todo) : r.todo[i] = n
          BY <3>3 DEF Awaited
        <4>2. \E j \in 1 .. Len(Tail(r.todo)) : Tail(r.todo)[j] = n
          BY <1>1, <1>3, <3>3, <4>1, NextEntry DEF e
        <4> QED BY <1>4, <4>2 DEF Awaited
      <3>4. CASE n # e /\ store[n] = r.seed
        BY <1>7, <1>n, <3>4
      <3> QED BY <3>1, <3>2, <3>3, <3>4
    <2>4. \A d \in Calls : WrittenBy(call[d])' /\ LooksUpFor(call[d])'
      BY <1>1, <1>4, <1>5, <2>1, <2>3, CallKinds DEF WrittenBy, LooksUpFor, Awaited
    <2> QED BY <1>5, <2>2, <2>4 DEF OneAccount, ShownIdIsOfKey, IInv
  <1>12. SpinnerHasCall'
    BY <1>1, <1>4, <1>5 DEF SpinnerHasCall, IInv, Pending
  <1> QED BY <1>8, <1>9, <1>10, <1>11, <1>12 DEF IInv

LEMMA EnterStep ==
  ASSUME IInv, NEW c \in Calls, Enter(c)
  PROVE  IInv'
  <1> DEFINE r == call[c]
  <1>1. /\ TypeOK /\ r.op \in {"create", "recover"} /\ r \in FormCall /\ r # Idle
        /\ r.todo = <<>>
    BY CallKinds, CallFields DEF Enter, IInv, TypeOK
  <1>2. /\ call' \in [Calls -> CallStates] /\ call'[c] = Idle
        /\ \A d \in Calls : d # c => call'[d] = call[d]
        /\ auth' = [user |-> r.seed, loading |-> FALSE]
        /\ auth'.user = r.seed /\ ~auth'.loading
        /\ screen' \in {"home", screen}
        /\ UNCHANGED <<store, files, disturbed>>
    BY <1>1, CallKinds DEF Enter, TypeOK
  <1>3. TypeOK'
    BY <1>1, <1>2 DEF TypeOK, FormCall
  <1>4. FormTodo' /\ Solo' /\ SpinnerHasCall'
    BY <1>2, CallKinds DEF FormTodo, Solo, IInv, NoOverlap, SpinnerHasCall
  <1>5. Loaded'
    BY <1>2, CallKinds DEF Loaded, LoadedBy, IInv, NoOverlap, AccountId
  <1>6. OneAccount'
    <2> SUFFICES ASSUME Undisturbed PROVE OneAccount!2'
      BY <1>2 DEF OneAccount, Undisturbed
    <2>1. \A d \in Calls : d # c => call[d] = Idle
      BY <1>1, Alone DEF IInv, NoOverlap, Undisturbed
    <2>2. AccountKey = r.seed /\ AccountId = r.seed
      BY <1>1 DEF IInv, OneAccount, WrittenBy, Awaited, AccountKey, AccountId
    <2>3. Agree' /\ ShownIdIsOfKey'
      BY <1>2, <2>2 DEF Agree, ShownIdIsOfKey, AccountKey, AccountId
    <2>4. \A d \in Calls : WrittenBy(call[d])' /\ LooksUpFor(call[d])'
      BY <1>2, <2>1, CallKinds DEF WrittenBy, LooksUpFor
    <2> QED BY <1>2, <2>3, <2>4 DEF OneAccount, IInv
  <1> QED BY <1>3, <1>4, <1>5, <1>6 DEF IInv

-----------------------------------------------------------------------------
(* Logging out *)

LEMMA BeginLogoutStep ==
  ASSUME IInv, NEW c \in Calls, BeginLogout(c)
  PROVE  IInv'
  <1> DEFINE new == [op |-> "logout", todo |-> Awaits("logout", FALSE)]
  <1>1. new \in LogoutCall /\ new.op = "logout"
    BY AwaitsType DEF LogoutCall
  <1>2. TypeOK /\ new \in CallStates /\ Start(c, new)
    BY <1>1, CallKinds DEF BeginLogout, IInv
  <1> HIDE DEF new
  <1>3. /\ call' \in [Calls -> CallStates] /\ call'[c] = new /\ call[c] = Idle
        /\ \A d \in Calls : d # c => call'[d] = call[d]
        /\ disturbed' \subseteq {"cut", "overlap", "torn"}
        /\ NoOverlap' => NoOverlap /\ \A d \in Calls : call[d] = Idle
        /\ Undisturbed' => Undisturbed /\ NoOverlap'
    BY <1>2, StartAlone
  <1>u. UNCHANGED <<store, auth, screen, files>>
    BY DEF BeginLogout
  <1>4. TypeOK'
    BY <1>2, <1>3, <1>u DEF TypeOK
  <1>5. FormTodo' /\ Solo'
    BY <1>1, <1>3 DEF FormTodo, Solo, IInv
  <1>6. Loaded'
    BY <1>1, <1>3, CallKinds DEF Loaded, LoadedBy
  <1>7. OneAccount'
    <2> SUFFICES ASSUME Undisturbed' PROVE OneAccount!2'
      BY DEF OneAccount
    <2>1. Undisturbed /\ \A d \in Calls : call[d] = Idle
      BY <1>3
    <2>2. ~Settled' /\ Agree'
      BY <1>1, <1>3 DEF Settled, Agree, Pending, AccountOps
    <2>3. \A d \in Calls : WrittenBy(call[d])' /\ LooksUpFor(call[d])'
      BY <1>1, <1>3, <2>1, CallKinds DEF WrittenBy, LooksUpFor
    <2> QED BY <1>u, <2>1, <2>2, <2>3 DEF OneAccount, ShownIdIsOfKey, IInv
  <1>8. SpinnerHasCall'
    BY <1>3, <1>u, CallKinds DEF SpinnerHasCall, IInv, Pending
  <1> QED BY <1>4, <1>5, <1>6, <1>7, <1>8 DEF IInv

LEMMA DeleteStep ==
  ASSUME IInv, NEW c \in Calls, Delete(c)
  PROVE  IInv'
  <1> DEFINE r == call[c]
             e == Head(r.todo)
             next == [r EXCEPT !.todo = Tail(@)]
  <1>1. TypeOK /\ r.op = "logout" /\ r \in LogoutCall /\ r # Idle /\ r.todo # <<>>
    BY CallKinds, CallFields DEF Delete, IInv, TypeOK
  <1>2. e \in Entries /\ Tail(r.todo) \in Seq(Entries)
    BY <1>1, HeadTail DEF LogoutCall
  <1>3. next \in LogoutCall /\ next.op = "logout"
    BY <1>1, <1>2 DEF LogoutCall
  <1>4. /\ call' \in [Calls -> CallStates] /\ call'[c] = next
        /\ \A d \in Calls : d # c => call'[d] = call[d]
        /\ store' = [store EXCEPT ![e] = None]
        /\ UNCHANGED <<auth, screen, files, disturbed>>
    BY <1>1, <1>3, CallKinds DEF Delete, TypeOK
  <1> HIDE DEF next, e
  <1>5. TypeOK'
    <2>1. /\ store' \in [Entries -> Seeds \cup TempKeys \cup {Given, None}]
          /\ \A n \in Entries : store'[n] = IF n = e THEN None ELSE store[n]
      BY <1>1, <1>2, <1>4 DEF TypeOK
    <2>2. {"libredrive_seed", "libredrive_master_key", "public_id", "master_key"}
             \subseteq Entries
      BY DEF Entries
    <2> QED BY <1>1, <1>4, <2>1, <2>2 DEF TypeOK
  <1>6. FormTodo' /\ Solo'
    BY <1>1, <1>3, <1>4 DEF FormTodo, Solo, IInv, NoOverlap
  <1>7. NoOverlap => \A d \in Calls : d # c => call[d] = Idle
    BY <1>1, Alone DEF IInv
  <1>8. Loaded'
    BY <1>3, <1>4, <1>7, CallKinds DEF Loaded, LoadedBy, NoOverlap
  <1>9. OneAccount'
    <2> SUFFICES ASSUME Undisturbed PROVE OneAccount!2'
      BY <1>4 DEF OneAccount, Undisturbed
    <2>1. ~Settled' /\ Agree'
      BY <1>3, <1>4 DEF Settled, Agree, Pending, AccountOps
    <2>2. \A d \in Calls : WrittenBy(call[d])' /\ LooksUpFor(call[d])'
      BY <1>3, <1>4, <1>7, CallKinds DEF WrittenBy, LooksUpFor, NoOverlap, Undisturbed
    <2> QED BY <1>4, <2>1, <2>2 DEF OneAccount, ShownIdIsOfKey, IInv
  <1>10. SpinnerHasCall'
    BY <1>1, <1>4 DEF SpinnerHasCall, IInv, Pending
  <1> QED BY <1>5, <1>6, <1>8, <1>9, <1>10 DEF IInv

LEMMA DeleteAllStep ==
  ASSUME IInv, NEW c \in Calls, DeleteAll(c)
  PROVE  IInv'
  <1> DEFINE new == [op |-> "loggedOut"]
  <1>1. TypeOK /\ call[c].op = "logout" /\ call[c] # Idle
    BY CallKinds DEF DeleteAll, IInv
  <1>2. /\ call' \in [Calls -> CallStates] /\ call'[c] = new /\ new.op = "loggedOut"
        /\ \A d \in Calls : d # c => call'[d] = call[d]
        /\ store' = Empty
        /\ UNCHANGED <<auth, screen, files, disturbed>>
    BY <1>1, CallKinds DEF DeleteAll, TypeOK
  <1> HIDE DEF new
  <1>3. TypeOK'
    BY <1>1, <1>2 DEF TypeOK, Empty, Entries
  <1>4. FormTodo' /\ Solo'
    BY <1>1, <1>2 DEF FormTodo, Solo, IInv, NoOverlap
  <1>5. NoOverlap => \A d \in Calls : d # c => call[d] = Idle
    BY <1>1, Alone DEF IInv
  <1>6. Loaded'
    BY <1>2, <1>5, CallKinds DEF Loaded, LoadedBy, NoOverlap
  <1>7. OneAccount'
    <2> SUFFICES ASSUME Undisturbed PROVE OneAccount!2'
      BY <1>2 DEF OneAccount, Undisturbed
    <2>1. ~Settled'
      BY <1>2 DEF Settled, Pending, AccountOps
    <2>2. Agree'
      BY <1>2 DEF Agree, AccountKey, Empty, Entries
    <2>3. \A d \in Calls : WrittenBy(call[d])' /\ LooksUpFor(call[d])'
      BY <1>2, <1>5, CallKinds DEF WrittenBy, LooksUpFor, NoOverlap, Undisturbed
    <2> QED BY <1>2, <2>1, <2>2, <2>3 DEF OneAccount, ShownIdIsOfKey, IInv
  <1>8. SpinnerHasCall'
    BY <1>1, <1>2 DEF SpinnerHasCall, IInv, Pending
  <1> QED BY <1>3, <1>4, <1>6, <1>7, <1>8 DEF IInv

LEMMA LogoutDoneStep ==
  ASSUME IInv, NEW c \in Calls, LogoutDone(c)
  PROVE  IInv'
  <1>1. TypeOK /\ call[c].op = "loggedOut" /\ call[c] # Idle
    BY CallKinds DEF LogoutDone, IInv
  <1>2. /\ call' \in [Calls -> CallStates] /\ call'[c] = Idle
        /\ \A d \in Calls : d # c => call'[d] = call[d]
        /\ auth' = [user |-> None, loading |-> FALSE]
        /\ auth'.user = None /\ ~auth'.loading
        /\ screen' \in {screen, "welcome"}
        /\ UNCHANGED <<store, files, disturbed>>
    BY <1>1, CallKinds DEF LogoutDone, TypeOK
  <1>3. TypeOK'
    BY <1>1, <1>2 DEF TypeOK
  <1>4. FormTodo' /\ Solo' /\ SpinnerHasCall'
    BY <1>2, CallKinds DEF FormTodo, Solo, IInv, NoOverlap, SpinnerHasCall
  <1>5. Loaded'
    BY <1>2, CallKinds DEF Loaded, LoadedBy, IInv, NoOverlap, AccountId
  <1>6. OneAccount'
    <2> SUFFICES ASSUME Undisturbed PROVE OneAccount!2'
      BY <1>2 DEF OneAccount, Undisturbed
    <2>1. \A d \in Calls : d # c => call[d] = Idle
      BY <1>1, Alone DEF IInv, NoOverlap, Undisturbed
    <2>2. Pending({"create", "recover", "logout"}) = {}
      BY <1>1, <2>1, CallKinds DEF Pending
    <2>3. Agree' /\ ShownIdIsOfKey'
      BY <1>2, <2>2 DEF Agree, ShownIdIsOfKey, AccountKey, AccountId, IInv, OneAccount
    <2>4. \A d \in Calls : WrittenBy(call[d])' /\ LooksUpFor(call[d])'
      BY <1>2, <2>1, CallKinds DEF WrittenBy, LooksUpFor
    <2> QED BY <1>2, <2>3, <2>4 DEF OneAccount, IInv
  <1> QED BY <1>3, <1>4, <1>5, <1>6 DEF IInv

-----------------------------------------------------------------------------
(* Encrypting a file *)

LEMMA BeginUploadStep ==
  ASSUME IInv, NEW c \in Calls, BeginUpload(c)
  PROVE  IInv'
  <1> DEFINE new == [op |-> "loadMasterKey", owner |-> auth.user]
  <1>1. /\ new \in LookupCall /\ new.op = "loadMasterKey" /\ new.owner = auth.user
    BY DEF LookupCall, IInv, TypeOK
  <1>2. TypeOK /\ new \in CallStates /\ Start(c, new)
    BY <1>1, CallKinds DEF BeginUpload, IInv
  <1> HIDE DEF new
  <1>3. /\ call' \in [Calls -> CallStates] /\ call'[c] = new /\ call[c] = Idle
        /\ \A d \in Calls : d # c => call'[d] = call[d]
        /\ disturbed' \subseteq {"cut", "overlap", "torn"}
        /\ NoOverlap' => NoOverlap /\ \A d \in Calls : call[d] = Idle
        /\ Undisturbed' => Undisturbed /\ NoOverlap'
    BY <1>2, StartAlone
  <1>u. UNCHANGED <<store, auth, screen, files>>
    BY DEF BeginUpload
  <1>4. TypeOK'
    BY <1>2, <1>3, <1>u DEF TypeOK
  <1>5. FormTodo' /\ Solo'
    BY <1>1, <1>3 DEF FormTodo, Solo, IInv
  <1>6. Loaded'
    BY <1>1, <1>3, CallKinds DEF Loaded, LoadedBy
  <1>7. OneAccount'
    <2> SUFFICES ASSUME Undisturbed' PROVE OneAccount!2'
      BY DEF OneAccount
    <2>1. Undisturbed /\ \A d \in Calls : call[d] = Idle
      BY <1>3
    <2>2. Settled /\ Pending({"create", "recover", "logout"}) = {}
      BY <2>1, CallKinds DEF Settled, Pending, AccountOps
    <2>3. Agree' /\ ShownIdIsOfKey'
      BY <1>u, <2>1, <2>2
         DEF IInv, OneAccount, Agree, ShownIdIsOfKey, AccountKey, AccountId
    <2>4. \A d \in Calls : WrittenBy(call[d])' /\ LooksUpFor(call[d])'
      BY <1>1, <1>3, <1>u, <2>1, CallKinds DEF WrittenBy, LooksUpFor
    <2> QED BY <1>u, <2>1, <2>3, <2>4 DEF OneAccount, IInv
  <1>8. SpinnerHasCall'
    BY <1>3, <1>u, CallKinds DEF SpinnerHasCall, IInv, Pending
  <1> QED BY <1>4, <1>5, <1>6, <1>7, <1>8 DEF IInv

\* What an upload leaves as it is, at each of its steps.
LEMMA UploadFrame ==
  ASSUME IInv, NEW c \in Calls,
         call[c].op \in UploadOps, call'[c] \in CallStates,
         call'[c] = Idle \/ call'[c].op \in UploadOps,
         call' \in [Calls -> CallStates],
         \A d \in Calls : d # c => call'[d] = call[d],
         UNCHANGED <<auth, screen, disturbed>>,
         \A e \in Entries \ {"master_key"} : store'[e] = store[e]
  PROVE  /\ FormTodo' /\ Solo' /\ Loaded' /\ SpinnerHasCall'
         /\ Undisturbed =>
              /\ Settled /\ \A d \in Calls : d # c => call[d] = Idle
              /\ Agree' /\ ShownIdIsOfKey'
              /\ \A d \in Calls : WrittenBy(call[d])'
              /\ \A d \in Calls : d # c => LooksUpFor(call[d])'
  <1>1. /\ call[c] # Idle
        /\ call'[c].op \in {"idle", "loadMasterKey", "readFallback", "writeFallback"}
        /\ {"libredrive_master_key", "public_id", "username"}
             \subseteq Entries \ {"master_key"}
    BY CallKinds DEF UploadOps, Entries
  <1>2. FormTodo' /\ Solo' /\ SpinnerHasCall'
    BY <1>1 DEF IInv, FormTodo, Solo, NoOverlap, SpinnerHasCall, Pending, UploadOps
  <1>3. Loaded'
    BY <1>1 DEF IInv, Loaded, LoadedBy, NoOverlap, AccountId
  <1>4. ASSUME Undisturbed
        PROVE  /\ Settled /\ \A d \in Calls : d # c => call[d] = Idle
               /\ Agree' /\ ShownIdIsOfKey'
               /\ \A d \in Calls : WrittenBy(call[d])'
               /\ \A d \in Calls : d # c => LooksUpFor(call[d])'
    <2>1. \A d \in Calls : d # c => call[d] = Idle
      BY <1>1, <1>4, Alone DEF IInv, NoOverlap, Undisturbed
    <2>2. Settled /\ Pending({"create", "recover", "logout"}) = {}
      BY <2>1, CallKinds DEF Settled, Pending, AccountOps, UploadOps
    <2>3. Agree' /\ ShownIdIsOfKey'
      BY <1>1, <1>4, <2>2
         DEF IInv, OneAccount, Agree, ShownIdIsOfKey, AccountKey, AccountId
    <2>4. \A d \in Calls : WrittenBy(call[d])'
      BY <1>1, <2>1, CallKinds DEF WrittenBy
    <2>5. \A d \in Calls : d # c => LooksUpFor(call[d])'
      BY <2>1, CallKinds DEF LooksUpFor
    <2> QED BY <2>1, <2>2, <2>3, <2>4, <2>5
  <1> QED BY <1>2, <1>3, <1>4

LEMMA LoadMasterKeyStep ==
  ASSUME IInv, NEW c \in Calls, LoadMasterKey(c)
  PROVE  IInv'
  <1> DEFINE r == call[c]
             next == [r EXCEPT !.op = "readFallback"]
  <1>1. TypeOK /\ r.op = "loadMasterKey" /\ r \in LookupCall /\ r # Idle
    BY CallKinds, CallFields DEF LoadMasterKey, IInv, TypeOK
  <1>2. next \in LookupCall /\ next.op = "readFallback" /\ next.owner = r.owner
    BY <1>1 DEF LookupCall
  <1>3. /\ UNCHANGED <<store, auth, screen, disturbed>>
        /\ \/ /\ AccountKey # None
              /\ files' = files \cup {[owner |-> r.owner, key |-> AccountKey]}
              /\ call' = [call EXCEPT ![c] = Idle]
           \/ /\ AccountKey = None /\ files' = files
              /\ call' = [call EXCEPT ![c] = next]
    BY <1>1 DEF LoadMasterKey, Encrypted, AccountKey, TypeOK
  <1>4. /\ call' \in [Calls -> CallStates]
        /\ \A d \in Calls : d # c => call'[d] = call[d]
        /\ \/ AccountKey # None /\ call'[c] = Idle
           \/ AccountKey = None /\ call'[c] = next
    BY <1>1, <1>2, <1>3, CallKinds DEF TypeOK
  <1> HIDE DEF next
  <1>5. TypeOK'
    <2>1. AccountKey \in Seeds \cup {None} /\ r.owner \in Seeds \cup {None}
      BY <1>1 DEF TypeOK, AccountKey, LookupCall
    <2> QED BY <1>1, <1>3, <1>4, <2>1 DEF TypeOK
  <1>6. /\ FormTodo' /\ Solo' /\ Loaded' /\ SpinnerHasCall'
        /\ Undisturbed =>
             /\ Settled /\ \A d \in Calls : d # c => call[d] = Idle
             /\ Agree' /\ ShownIdIsOfKey'
             /\ \A d \in Calls : WrittenBy(call[d])'
             /\ \A d \in Calls : d # c => LooksUpFor(call[d])'
    <2>1. call'[c] \in CallStates /\ (call'[c] = Idle \/ call'[c].op \in UploadOps)
      BY <1>2, <1>4 DEF UploadOps
    <2>2. r.op \in UploadOps
      BY <1>1 DEF UploadOps
    <2> QED BY <1>3, <1>4, <2>1, <2>2, UploadFrame
  <1>7. OneAccount'
    <2> SUFFICES ASSUME Undisturbed PROVE OneAccount!2'
      BY <1>3 DEF OneAccount, Undisturbed
    <2>1. r.owner = auth.user
      BY <1>1 DEF IInv, OneAccount, LooksUpFor
    <2>2. r.owner # None => AccountKey = r.owner
      BY <1>6, <2>1 DEF IInv, OneAccount, ShownIdIsOfKey, AccountKey
    <2>3. LooksUpFor(call[c])'
      BY <1>2, <1>4, <2>2, CallKinds DEF LooksUpFor
    <2>4. \A f \in files' : f.owner # None => f.key = f.owner
      BY <1>3, <2>2 DEF IInv, OneAccount
    <2> QED BY <1>6, <2>3, <2>4 DEF OneAccount
  <1> QED BY <1>5, <1>6, <1>7 DEF IInv

LEMMA ReadFallbackStep ==
  ASSUME IInv, NEW c \in Calls, ReadFallback(c)
  PROVE  IInv'
  <1> DEFINE r == call[c]
             key == store["master_key"]
  <1>1. TypeOK /\ r.op = "readFallback" /\ r \in LookupCall /\ r # Idle
    BY CallKinds, CallFields DEF ReadFallback, IInv, TypeOK
  <1>2. /\ UNCHANGED <<store, auth, screen, disturbed>>
        /\ \/ /\ key # None /\ files' = files \cup {[owner |-> r.owner, key |-> key]}
              /\ call' = [call EXCEPT ![c] = Idle]
           \/ /\ files' = files
              /\ \E t \in TempKeys :
                   call' = [call EXCEPT ![c] = [op |-> "writeFallback",
                                                owner |-> r.owner, key |-> t]]
    BY <1>1 DEF ReadFallback, Encrypted, TypeOK
  <1>3. r.owner \in Seeds \cup {None} /\ key \in TempKeys \cup {None}
    BY <1>1 DEF LookupCall, TypeOK
  <1>4. /\ call' \in [Calls -> CallStates]
        /\ \A d \in Calls : d # c => call'[d] = call[d]
        /\ \/ call'[c] = Idle
           \/ /\ call'[c] \in FallbackCall /\ call'[c].op = "writeFallback"
              /\ call'[c].owner = r.owner
    <2>1. \A t \in TempKeys :
            [op |-> "writeFallback", owner |-> r.owner, key |-> t] \in FallbackCall
      BY <1>3 DEF FallbackCall
    <2>2. CASE call' = [call EXCEPT ![c] = Idle]
      BY <1>1, <2>2, CallKinds DEF TypeOK
    <2>3. CASE \E t \in TempKeys :
                 call' = [call EXCEPT ![c] = [op |-> "writeFallback",
                                              owner |-> r.owner, key |-> t]]
      BY <1>1, <2>1, <2>3, CallKinds DEF TypeOK
    <2> QED BY <1>2, <2>2, <2>3
  <1>5. TypeOK'
    BY <1>1, <1>2, <1>3, <1>4 DEF TypeOK
  <1>6. /\ FormTodo' /\ Solo' /\ Loaded' /\ SpinnerHasCall'
        /\ Undisturbed =>
             /\ Settled /\ \A d \in Calls : d # c => call[d] = Idle
             /\ Agree' /\ ShownIdIsOfKey'
             /\ \A d \in Calls : WrittenBy(call[d])'
             /\ \A d \in Calls : d # c => LooksUpFor(call[d])'
    <2>1. call'[c] \in CallStates /\ (call'[c] = Idle \/ call'[c].op \in UploadOps)
      BY <1>4 DEF UploadOps
    <2>2. r.op \in UploadOps
      BY <1>1 DEF UploadOps
    <2> QED BY <1>2, <1>4, <2>1, <2>2, UploadFrame
  <1>7. OneAccount'
    <2> SUFFICES ASSUME Undisturbed PROVE OneAccount!2'
      BY <1>2 DEF OneAccount, Undisturbed
    <2>1. r.owner = None
      BY <1>1 DEF IInv, OneAccount, LooksUpFor
    <2>2. LooksUpFor(call[c])'
      BY <1>4, <2>1, CallKinds DEF LooksUpFor
    <2>3. \A f \in files' : f.owner # None => f.key = f.owner
      BY <1>2, <2>1 DEF IInv, OneAccount
    <2> QED BY <1>6, <2>2, <2>3 DEF OneAccount
  <1> QED BY <1>5, <1>6, <1>7 DEF IInv

LEMMA WriteFallbackStep ==
  ASSUME IInv, NEW c \in Calls, WriteFallback(c)
  PROVE  IInv'
  <1> DEFINE r == call[c]
  <1>1. TypeOK /\ r.op = "writeFallback" /\ r \in FallbackCall /\ r # Idle
    BY CallKinds, CallFields DEF WriteFallback, IInv, TypeOK
  <1>2. /\ store' = [store EXCEPT !["master_key"] = r.key]
        /\ files' = files \cup {[owner |-> r.owner, key |-> r.key]}
        /\ UNCHANGED <<auth, screen, disturbed>>
        /\ call' \in [Calls -> CallStates] /\ call'[c] = Idle
        /\ \A d \in Calls : d # c => call'[d] = call[d]
    BY <1>1, CallKinds DEF WriteFallback, Encrypted, TypeOK
  <1>3. r.owner \in Seeds \cup {None} /\ r.key \in TempKeys
    BY <1>1 DEF FallbackCall
  <1>4. /\ store' \in [Entries -> Seeds \cup TempKeys \cup {Given, None}]
        /\ \A e \in Entries \ {"master_key"} : store'[e] = store[e]
        /\ store'["master_key"] = r.key
    BY <1>1, <1>2, <1>3 DEF TypeOK, Entries
  <1>5. TypeOK'
    <2>1. {"libredrive_seed", "libredrive_master_key", "public_id"}
            \subseteq Entries \ {"master_key"}
      BY DEF Entries
    <2> QED BY <1>1, <1>2, <1>3, <1>4, <2>1 DEF TypeOK
  <1>6. /\ FormTodo' /\ Solo' /\ Loaded' /\ SpinnerHasCall'
        /\ Undisturbed =>
             /\ Settled /\ \A d \in Calls : d # c => call[d] = Idle
             /\ Agree' /\ ShownIdIsOfKey'
             /\ \A d \in Calls : WrittenBy(call[d])'
             /\ \A d \in Calls : d # c => LooksUpFor(call[d])'
    <2>1. call'[c] \in CallStates /\ (call'[c] = Idle \/ call'[c].op \in UploadOps)
      BY <1>2, CallKinds
    <2>2. r.op \in UploadOps
      BY <1>1 DEF UploadOps
    <2> QED BY <1>2, <1>4, <2>1, <2>2, UploadFrame
  <1>7. OneAccount'
    <2> SUFFICES ASSUME Undisturbed PROVE OneAccount!2'
      BY <1>2 DEF OneAccount, Undisturbed
    <2>1. r.owner = None
      BY <1>1 DEF IInv, OneAccount, LooksUpFor
    <2>2. LooksUpFor(call[c])'
      BY <1>2, CallKinds DEF LooksUpFor
    <2>3. \A f \in files' : f.owner # None => f.key = f.owner
      BY <1>2, <2>1 DEF IInv, OneAccount
    <2> QED BY <1>6, <2>2, <2>3 DEF OneAccount
  <1> QED BY <1>5, <1>6, <1>7 DEF IInv

-----------------------------------------------------------------------------
(* Faults *)

LEMMA FailStep ==
  ASSUME IInv, NEW c \in Calls, Fail(c)
  PROVE  IInv'
  <1>1. TypeOK /\ call[c] \in CallStates
    BY DEF IInv, TypeOK
  <1>2. /\ call' \in [Calls -> CallStates] /\ call'[c] = Idle
        /\ \A d \in Calls : d # c => call'[d] = call[d]
        /\ disturbed' = disturbed \cup {"cut"} \cup {"torn" : d \in {d \in {c} : Tears(d)}}
        /\ UNCHANGED <<store, screen, files>>
    BY <1>1, CallKinds DEF Fail, TypeOK, Disturbed
  <1>3. /\ auth' \in [user : Seeds \cup {None}, loading : BOOLEAN]
        /\ \/ ~auth'.loading
           \/ auth' = auth /\ call[c].op \notin {"load", "create", "recover"}
    <2>1. auth' = AfterError(c)
      BY DEF Fail
    <2>2. CASE call[c].op = "load"
      BY <1>1, <2>1, <2>2 DEF AfterError
    <2>3. CASE call[c].op \in {"create", "recover"}
      BY <1>1, <2>1, <2>3 DEF AfterError, TypeOK
    <2>4. CASE call[c].op \notin {"load", "create", "recover"}
      BY <1>1, <2>1, <2>4 DEF AfterError, TypeOK
    <2> QED BY <2>2, <2>3, <2>4
  <1>4. TypeOK'
    BY <1>1, <1>2, <1>3 DEF TypeOK
  <1>5. FormTodo' /\ Solo'
    BY <1>2, CallKinds DEF FormTodo, Solo, IInv, NoOverlap
  <1>6. Loaded'
    BY <1>2, CallKinds DEF Loaded, LoadedBy, IInv, NoOverlap, AccountId
  <1>7. OneAccount'
    BY <1>2 DEF OneAccount, Undisturbed
  <1>8. SpinnerHasCall'
    BY <1>2, <1>3 DEF SpinnerHasCall, IInv, Pending
  <1> QED BY <1>4, <1>5, <1>6, <1>7, <1>8 DEF IInv

LEMMA RestartStep ==
  ASSUME IInv, Restart
  PROVE  IInv'
  <1>1. /\ call' = [c \in Calls |-> Idle] /\ screen' = "splash"
        /\ auth' = [user |-> None, loading |-> FALSE]
        /\ disturbed' = Disturbed({c \in Calls : call[c] # Idle})
        /\ UNCHANGED <<store, files>>
    BY DEF Restart
  <1>2. /\ \A c \in Calls : call'[c] = Idle
        /\ call' \in [Calls -> CallStates]
        /\ auth'.user = None /\ ~auth'.loading
        /\ Undisturbed' => Undisturbed /\ \A c \in Calls : call[c] = Idle
        /\ disturbed' \subseteq disturbed \cup {"cut", "torn"}
    BY <1>1, CallKinds DEF Undisturbed, Disturbed
  <1>3. TypeOK'
    BY <1>1, <1>2 DEF TypeOK, IInv
  <1>4. FormTodo' /\ Solo' /\ Loaded' /\ SpinnerHasCall'
    BY <1>2, CallKinds DEF FormTodo, Solo, Loaded, LoadedBy, SpinnerHasCall
  <1>5. OneAccount'
    <2> SUFFICES ASSUME Undisturbed' PROVE OneAccount!2'
      BY DEF OneAccount
    <2>1. Pending({"create", "recover", "logout"}) = {}
      BY <1>2, CallKinds DEF Pending
    <2>2. Agree' /\ ShownIdIsOfKey'
      BY <1>1, <1>2, <2>1
         DEF IInv, OneAccount, Agree, ShownIdIsOfKey, AccountKey, AccountId
    <2>3. \A c \in Calls : WrittenBy(call[c])' /\ LooksUpFor(call[c])'
      BY <1>2, CallKinds DEF WrittenBy, LooksUpFor
    <2> QED BY <1>1, <1>2, <2>2, <2>3 DEF OneAccount, IInv
  <1> QED BY <1>3, <1>4, <1>5 DEF IInv

-----------------------------------------------------------------------------
(* The theorems *)

LEMMA NextIInv == IInv /\ [Next]_vars => IInv'
  <1> SUFFICES ASSUME IInv, [Next]_vars PROVE IInv'
    OBVIOUS
  <1>1. ASSUME NEW c \in Calls, CheckAuth(c) \/ Leave(c) \/ BeginLogout(c)
                                \/ BeginUpload(c) \/ Fail(c)
        PROVE  IInv'
    BY <1>1, CheckAuthStep, LeaveStep, BeginLogoutStep, BeginUploadStep, FailStep
  <1>2. ASSUME NEW c \in Calls, NEW s \in Seeds,
               \/ Begin(c, "create", s, TRUE)
               \/ \E p \in BOOLEAN : Begin(c, "recover", s, p)
        PROVE  IInv'
    BY <1>2, BeginStep
  <1>3. ASSUME NEW c \in Calls, Step(c) PROVE IInv'
    BY <1>3, LoadReadStep, LoadDoneStep, WriteStep, EnterStep, DeleteStep,
       DeleteAllStep, LogoutDoneStep, LoadMasterKeyStep, ReadFallbackStep,
       WriteFallbackStep DEF Step
  <1>4. CASE RecoverInvalid \/ Restart
    BY <1>4, RecoverInvalidStep, RestartStep
  <1>5. CASE UNCHANGED vars
    BY <1>5 DEF vars, IInv, TypeOK, FormTodo, Solo, NoOverlap, Loaded, LoadedBy,
                OneAccount, Undisturbed, Agree, ShownIdIsOfKey, Settled, Pending,
                WrittenBy, LooksUpFor, AccountKey, AccountId, SpinnerHasCall
  <1> QED BY <1>1, <1>2, <1>3, <1>4, <1>5 DEF Next

THEOREM Invariance == Spec => []IInv
  <1> QED BY InitIInv, NextIInv, PTL DEF Spec

\* Entries, calls and state keep their types: only the fallback of
\* getMasterKey writes the entry a temporary key is in.
THEOREM TypeCorrect == Spec => []TypeOK
  <1>1. IInv => TypeOK
    BY DEF IInv
  <1> QED BY <1>1, Invariance, PTL

\* AuthNotifier never leaves its isLoading set without a call that resets it,
\* for any number of overlapping, failing and abandoned calls.
THEOREM SpinnerTheorem == Spec => []SpinnerHasCall
  <1>1. IInv => SpinnerHasCall
    BY DEF IInv
  <1> QED BY <1>1, Invariance, PTL

\* The public id shown is of the account whose master key is stored, through
\* any sequence of creations, recoveries, logouts and restarts that neither
\* overlap nor are cut short.
THEOREM IdTheorem == Spec => []IdIsOfKey
  <1>1. IInv => IdIsOfKey
    BY DEF IInv, OneAccount, IdIsOfKey, Undisturbed
  <1> QED BY <1>1, Invariance, PTL

\* Under the same condition a file is encrypted with the key of the account
\* logged in: getMasterKey never falls back for it.
THEOREM KeyTheorem == Spec => []KeyIsOfTheAccount
  <1>1. IInv => KeyIsOfTheAccount
    BY DEF IInv, OneAccount, KeyIsOfTheAccount, Undisturbed
  <1> QED BY <1>1, Invariance, PTL

-----------------------------------------------------------------------------
(* What calls cut short leave of an account *)

NotTorn == {"overlap", "torn"} \cap disturbed = {}

\* Key and id, of an account with a name, are of one account.
OneHolder ==
  AccountKey # None /\ AccountId # None /\ store["username"] # None
    => AccountKey = AccountId

\* A creation or recovery writes its key first and its id later.
HalfWritten(r) ==
  r.op \in {"create", "recover"} =>
    /\ \A i \in 1 .. Len(r.todo) : r.todo[i] = "libredrive_master_key" => i = 1
    /\ Awaited(r, "libredrive_master_key") => OneHolder /\ Awaited(r, "public_id")
    /\ Awaited(r, "libredrive_master_key") \/ AccountKey = r.seed
    /\ Awaited(r, "public_id") \/ AccountId = r.seed

\* Nothing but a call that has yet to write its id lets the storage hold two
\* accounts; the calls that were cut short before are gone and say nothing.
Whole ==
  NotTorn =>
    /\ Pending({"create", "recover"}) = {} => OneHolder
    /\ \A c \in Calls : HalfWritten(call[c])

LEMMA KeyComesFirst ==
  ASSUME NEW op \in {"create", "recover"}, NEW p \in BOOLEAN
  PROVE  \A i \in 1 .. Len(Awaits(op, p)) :
           Awaits(op, p)[i] = "libredrive_master_key" => i = 1
  <1>1. CASE op = "create"
    BY <1>1 DEF Awaits
  <1>2. CASE op = "recover"
    <2> DEFINE a == <<"libredrive_master_key", "public_id", "username">>
               b == IF p THEN <<"libredrive_seed", "password_hash">> ELSE <<>>
    <2>1. Awaits(op, p) = a \o b
      BY <1>2 DEF Awaits
    <2>2. /\ a \in Seq(Entries) /\ Len(a) = 3
          /\ \A i \in 1 .. 3 : a[i] = "libredrive_master_key" => i = 1
      BY DEF Entries
    <2>3. /\ b \in Seq(Entries) /\ Len(b) \in Nat
          /\ \A i \in 1 .. Len(b) : b[i] # "libredrive_master_key"
      <3>1. CASE p
        BY <3>1 DEF Entries
      <3>2. CASE ~p
        BY <3>2
      <3> QED BY <3>1, <3>2
    <2> HIDE DEF a, b
    <2>4. /\ Len(a \o b) = Len(a) + Len(b)
          /\ \A i \in 1 .. Len(a) + Len(b) :
               (a \o b)[i] = IF i <= Len(a) THEN a[i] ELSE b[i - Len(a)]
      BY <2>2, <2>3, ConcatProperties
    <2>5. ASSUME NEW i \in 1 .. Len(a) + Len(b), (a \o b)[i] = "libredrive_master_key"
          PROVE  i = 1
      <3>1. CASE i <= Len(a)
        BY <2>2, <2>3, <2>4, <2>5, <3>1
      <3>2. CASE i > Len(a)
        <4>1. i - Len(a) \in 1 .. Len(b) /\ (a \o b)[i] = b[i - Len(a)]
          BY <2>2, <2>3, <2>4, <3>2
        <4> QED BY <2>3, <2>5, <4>1
      <3> QED BY <2>2, <2>3, <3>1, <3>2
    <2> QED BY <2>1, <2>4, <2>5
  <1> QED BY <1>1, <1>2

\* A step keeps Whole when no other call is in progress and the call it belongs
\* to writes no account, before and after.
LEMMA WholeFrame ==
  ASSUME IInv, Whole, NEW c \in Calls, call[c] # Idle,
         call[c].op \notin {"create", "recover"},
         call'[c].op \notin {"create", "recover"},
         \A d \in Calls : d # c => call'[d] = call[d],
         disturbed \subseteq disturbed',
         \A e \in {"libredrive_master_key", "public_id", "username"} :
           store'[e] \in {store[e], None}
  PROVE  Whole'
  <1> SUFFICES ASSUME NotTorn'
               PROVE  OneHolder' /\ \A d \in Calls : HalfWritten(call[d])'
    BY DEF Whole
  <1>1. NotTorn /\ NoOverlap
    BY DEF NotTorn, NoOverlap
  <1>2. \A d \in Calls : d # c => call[d] = Idle
    BY <1>1, Alone DEF IInv
  <1>3. Pending({"create", "recover"}) = {}
    BY <1>2, CallKinds DEF Pending
  <1>4. OneHolder
    BY <1>1, <1>3 DEF Whole
  <1>5. OneHolder'
    BY <1>4 DEF OneHolder, AccountKey, AccountId
  <1>6. \A d \in Calls : HalfWritten(call[d])'
    BY <1>2, CallKinds DEF HalfWritten
  <1> QED BY <1>5, <1>6

LEMMA WholeStart ==
  ASSUME IInv, Whole, NEW c \in Calls, NEW new \in CallStates, Start(c, new),
         store' = store,
         new.op \in {"create", "recover"} =>
           /\ Awaited(new, "libredrive_master_key") /\ Awaited(new, "public_id")
           /\ \A i \in 1 .. Len(new.todo) :
                new.todo[i] = "libredrive_master_key" => i = 1
  PROVE  Whole'
  <1> SUFFICES ASSUME NotTorn'
               PROVE  OneHolder' /\ \A d \in Calls : HalfWritten(call[d])'
    BY DEF Whole
  <1>1. /\ call'[c] = new /\ \A d \in Calls : d # c => call'[d] = call[d]
        /\ disturbed \subseteq disturbed'
        /\ NoOverlap' => \A d \in Calls : call[d] = Idle
    BY StartAlone DEF IInv
  <1>2. NotTorn /\ \A d \in Calls : call[d] = Idle
    BY <1>1 DEF NotTorn, NoOverlap
  <1>3. OneHolder
    BY <1>2, CallKinds DEF Whole, Pending
  <1>4. OneHolder'
    BY <1>3 DEF OneHolder, AccountKey, AccountId
  <1>5. HalfWritten(call[c])'
    <2> SUFFICES ASSUME new.op \in {"create", "recover"}
                 PROVE  HalfWritten(call[c])'
      BY <1>1 DEF HalfWritten
    <2> QED BY <1>1, <1>4 DEF HalfWritten
  <1>6. \A d \in Calls : d # c => HalfWritten(call[d])'
    BY <1>1, <1>2, CallKinds DEF HalfWritten
  <1> QED BY <1>4, <1>5, <1>6

LEMMA WholeWrite ==
  ASSUME IInv, Whole, NEW c \in Calls, Write(c)
  PROVE  Whole'
  <1> SUFFICES ASSUME NotTorn' PROVE Whole!2'
    BY DEF Whole
  <1> DEFINE r == call[c]
             e == Head(r.todo)
             next == [r EXCEPT !.todo = Tail(@)]
  <1>1. /\ TypeOK /\ r.op \in {"create", "recover"} /\ r \in CallStates
        /\ r # Idle /\ r.todo # <<>>
    BY CallKinds DEF Write, IInv, TypeOK
  <1>2. r \in FormCall
    BY <1>1, CallFields
  <1>3. r.todo \in Seq(Entries) /\ e \in Entries /\ Tail(r.todo) \in Seq(Entries)
    BY <1>1, <1>2, HeadTail DEF FormCall
  <1>4. /\ next \in FormCall /\ next.op = r.op /\ next.todo = Tail(r.todo)
        /\ next.seed = r.seed
    BY <1>1, <1>2, <1>3 DEF FormCall
  <1>5. /\ call'[c] = next
        /\ \A d \in Calls : d # c => call'[d] = call[d]
        /\ store' = [store EXCEPT ![e] =
             IF e \in {"username", "password_hash"} THEN Given ELSE r.seed]
        /\ disturbed' = disturbed
    BY <1>1 DEF Write, TypeOK
  <1> HIDE DEF next, e
  <1>6. NotTorn /\ NoOverlap
    BY <1>5 DEF NotTorn, NoOverlap
  <1>7. \A d \in Calls : d # c => call[d] = Idle
    BY <1>1, <1>6, Alone DEF IInv
  <1>8. HalfWritten(r)
    BY <1>6 DEF Whole
  <1>9. ASSUME NEW n \in Entries, Awaited(r, n), n # e
        PROVE  Awaited(next, n)
    <2>1. PICK i \in 1 .. Len(r.todo) : r.todo[i] = n
      BY <1>9 DEF Awaited
    <2>2. \E j \in 1 .. Len(Tail(r.todo)) : Tail(r.todo)[j] = n
      BY <1>1, <1>3, <1>9, <2>1, NextEntry DEF e
    <2> QED BY <1>4, <2>2 DEF Awaited
  <1>9a. \A i \in 1 .. Len(next.todo) : next.todo[i] # "libredrive_master_key"
    <2> SUFFICES ASSUME NEW i \in 1 .. Len(next.todo)
                 PROVE  next.todo[i] # "libredrive_master_key"
      OBVIOUS
    <2>1. i + 1 \in 1 .. Len(r.todo) /\ next.todo[i] = r.todo[i + 1] /\ i + 1 # 1
      BY <1>1, <1>3, <1>4
    <2> QED BY <1>1, <1>8, <2>1 DEF HalfWritten
  <1>10. Awaited(r, e)
    BY <1>1, <1>3 DEF Awaited, e
  <1>11. \/ Awaited(r, "libredrive_master_key") /\ e = "libredrive_master_key"
         \/ ~Awaited(r, "libredrive_master_key") /\ e # "libredrive_master_key"
    <2>1. ASSUME Awaited(r, "libredrive_master_key")
          PROVE  e = "libredrive_master_key"
      BY <1>1, <1>3, <1>8, <2>1 DEF HalfWritten, Awaited, e
    <2> QED BY <1>10, <2>1
  <1>12. AccountKey' = r.seed
    <2>1. store' \in [Entries -> Seeds \cup TempKeys \cup {Given, None}]
          /\ "libredrive_master_key" \in Entries
          /\ store \in [Entries -> Seeds \cup TempKeys \cup {Given, None}]
      BY <1>1, <1>2, <1>3, <1>5 DEF TypeOK, FormCall, Entries
    <2> QED BY <1>1, <1>5, <1>8, <1>11, <2>1 DEF HalfWritten, AccountKey
  <1>13. Awaited(next, "public_id") \/ AccountId' = r.seed
    <2>1. CASE e = "public_id"
      BY <1>1, <1>5, <2>1 DEF TypeOK, Entries, AccountId
    <2>2. CASE e # "public_id"
      <3>1. CASE Awaited(r, "public_id")
        <4>1. "public_id" \in Entries
          BY DEF Entries
        <4> QED BY <1>9, <2>2, <3>1, <4>1
      <3>2. CASE ~Awaited(r, "public_id")
        BY <1>1, <1>5, <1>8, <2>2, <3>2 DEF HalfWritten, TypeOK, Entries, AccountId
      <3> QED BY <3>1, <3>2
    <2> QED BY <2>1, <2>2
  <1>14. HalfWritten(call[c])'
    <2>1. ~Awaited(next, "libredrive_master_key")
      BY <1>9a DEF Awaited
    <2> QED BY <1>4, <1>5, <1>9a, <1>12, <1>13, <2>1 DEF HalfWritten
  <1>15. \A d \in Calls : d # c => HalfWritten(call[d])'
    BY <1>5, <1>7, CallKinds DEF HalfWritten
  <1>16. Pending({"create", "recover"})' # {}
    BY <1>1, <1>4, <1>5 DEF Pending
  <1> QED BY <1>14, <1>15, <1>16

\* The calls that are cut short are not torn: nobody's entries are mixed.
LEMMA WholeCut ==
  ASSUME IInv, Whole, NEW cs \in SUBSET Calls,
         \A c \in cs : call'[c] = Idle,
         \A d \in Calls \ cs : call'[d] = call[d],
         store' = store, disturbed' = Disturbed(cs)
  PROVE  Whole'
  <1> SUFFICES ASSUME NotTorn' PROVE Whole!2'
    BY DEF Whole
  <1>1. NotTorn /\ NoOverlap /\ \A c \in cs : ~Tears(c)
    BY DEF NotTorn, NoOverlap, Disturbed
  <1>2. \A d \in Calls : HalfWritten(call[d])'
    <2> SUFFICES ASSUME NEW d \in Calls PROVE HalfWritten(call[d])'
      OBVIOUS
    <2>1. CASE d \in cs
      BY <2>1, CallKinds DEF HalfWritten
    <2>2. CASE d \notin cs
      BY <1>1, <2>2 DEF Whole, HalfWritten, OneHolder, AccountKey, AccountId
    <2> QED BY <2>1, <2>2
  <1>3. ASSUME Pending({"create", "recover"})' = {}
        PROVE  OneHolder'
    <2>1. CASE Pending({"create", "recover"}) = {}
      BY <1>1, <2>1 DEF Whole, OneHolder, AccountKey, AccountId
    <2>2. CASE Pending({"create", "recover"}) # {}
      <3>1. PICK c \in Calls : call[c].op \in {"create", "recover"}
        BY <2>2 DEF Pending
      <3>2. c \in cs
        BY <1>3, <3>1 DEF Pending
      <3>3. HalfWritten(call[c]) /\ ~Tears(c)
        BY <1>1, <3>2 DEF Whole
      <3>4. call[c].todo \in Seq(Entries)
        BY <3>1, CallFields DEF IInv, TypeOK, FormCall
      <3>5. DOMAIN call[c].todo = 1 .. Len(call[c].todo)
        BY <3>4
      <3>6. \/ Awaited(call[c], "libredrive_master_key")
            \/ ~Awaited(call[c], "public_id")
            \/ store["username"] = None
        BY <3>1, <3>3, <3>5 DEF Tears, Awaited
      <3>7. OneHolder
        BY <3>1, <3>3, <3>6 DEF HalfWritten, OneHolder
      <3> QED BY <3>7 DEF OneHolder, AccountKey, AccountId
    <2> QED BY <2>1, <2>2
  <1> QED BY <1>2, <1>3

LEMMA WholeNext == IInv /\ Whole /\ [Next]_vars => Whole'
  <1> SUFFICES ASSUME IInv, Whole, [Next]_vars PROVE Whole'
    OBVIOUS
  <1>t. TypeOK /\ call \in [Calls -> CallStates]
    BY DEF IInv, TypeOK
  <1>k. {"libredrive_master_key", "public_id", "username"} \subseteq Entries
        /\ "master_key" \notin {"libredrive_master_key", "public_id", "username"}
    BY DEF Entries
  <1>1. ASSUME NEW c \in Calls, CheckAuth(c) PROVE Whole'
    <2> DEFINE new == [op |-> "load", todo |-> Awaits("load", FALSE),
                       user |-> None, complete |-> TRUE]
    <2>1. new \in LoadCall /\ new.op = "load"
      BY AwaitsType DEF LoadCall
    <2>2. Start(c, new) /\ store' = store
      BY <1>1 DEF CheckAuth
    <2> HIDE DEF new
    <2>3. new \in CallStates
      BY <2>1, CallKinds
    <2> QED BY <2>1, <2>2, <2>3, WholeStart
  <1>2. ASSUME NEW c \in Calls, NEW op \in {"create", "recover"}, NEW s \in Seeds,
               NEW p \in BOOLEAN, Begin(c, op, s, p)
        PROVE  Whole'
    <2> DEFINE new == [op |-> op, todo |-> Awaits(op, p), seed |-> s, shown |-> TRUE]
    <2>1. new \in FormCall /\ new.op = op /\ new.todo = Awaits(op, p)
      BY AwaitsType DEF FormCall
    <2>2. Start(c, new) /\ store' = store
      BY <1>2 DEF Begin
    <2>3. \A e \in {"libredrive_master_key", "public_id"} :
            \E i \in 1 .. Len(Awaits(op, p)) : Awaits(op, p)[i] = e
      BY <1>2, AwaitsType
    <2> HIDE DEF new
    <2>4. new \in CallStates
      BY <2>1, CallKinds
    <2>5. Awaited(new, "libredrive_master_key") /\ Awaited(new, "public_id")
      BY <2>1, <2>3 DEF Awaited
    <2>6. \A i \in 1 .. Len(new.todo) :
            new.todo[i] = "libredrive_master_key" => i = 1
      BY <2>1, KeyComesFirst
    <2> QED BY <2>2, <2>4, <2>5, <2>6, WholeStart
  <1>3. ASSUME NEW c \in Calls, Leave(c) PROVE Whole'
    <2> DEFINE next == [call[c] EXCEPT !.shown = FALSE]
    <2>1. /\ call[c] \in FormCall /\ call' = [call EXCEPT ![c] = next]
          /\ store' = store /\ disturbed' = disturbed
      BY <1>3, <1>t, CallFields DEF Leave
    <2>2. next.op = call[c].op /\ next.todo = call[c].todo /\ next.seed = call[c].seed
      BY <2>1 DEF FormCall
    <2> HIDE DEF next
    <2>3. /\ call'[c] = next /\ \A d \in Calls : d # c => call'[d] = call[d]
          /\ Pending({"create", "recover"})' = Pending({"create", "recover"})
      BY <1>t, <2>1, <2>2 DEF Pending
    <2>4. NotTorn' => NotTorn
      BY <2>1 DEF NotTorn
    <2>5. OneHolder' = OneHolder /\ AccountKey' = AccountKey /\ AccountId' = AccountId
      BY <2>1 DEF OneHolder, AccountKey, AccountId
    <2>6. \A d \in Calls : HalfWritten(call[d]) => HalfWritten(call[d])'
      <3> SUFFICES ASSUME NEW d \in Calls, HalfWritten(call[d])
                   PROVE  HalfWritten(call[d])'
        OBVIOUS
      <3>1. call'[d].op = call[d].op /\ call'[d].todo = call[d].todo
            /\ call'[d].seed = call[d].seed
        BY <2>2, <2>3
      <3> QED BY <2>5, <3>1 DEF HalfWritten, Awaited
    <2> QED BY <2>3, <2>4, <2>5, <2>6 DEF Whole
  <1>4. ASSUME NEW c \in Calls, BeginLogout(c) \/ BeginUpload(c) PROVE Whole'
    <2>1. \E new \in CallStates :
            Start(c, new) /\ store' = store /\ new.op \notin {"create", "recover"}
      <3>1. CASE BeginLogout(c)
        <4> DEFINE new == [op |-> "logout", todo |-> Awaits("logout", FALSE)]
        <4>1. new \in LogoutCall /\ new.op = "logout" /\ Start(c, new) /\ store' = store
          BY <3>1, AwaitsType DEF BeginLogout, LogoutCall
        <4> QED BY <4>1, CallKinds
      <3>2. CASE BeginUpload(c)
        <4> DEFINE new == [op |-> "loadMasterKey", owner |-> auth.user]
        <4>1. new \in LookupCall /\ new.op = "loadMasterKey"
              /\ Start(c, new) /\ store' = store
          BY <1>t, <3>2 DEF BeginUpload, LookupCall, TypeOK
        <4> QED BY <4>1, CallKinds
      <3> QED BY <1>4, <3>1, <3>2
    <2> QED BY <2>1, WholeStart
  <1>5. ASSUME NEW c \in Calls, Fail(c) PROVE Whole'
    <2>1. /\ call' = [call EXCEPT ![c] = Idle] /\ store' = store
          /\ disturbed' = Disturbed({c})
      BY <1>5 DEF Fail
    <2> QED BY <1>t, <2>1, WholeCut
  <1>6. ASSUME Restart PROVE Whole'
    <2>1. /\ call' = [c \in Calls |-> Idle] /\ store' = store
          /\ disturbed' = Disturbed({c \in Calls : call[c] # Idle})
      BY <1>6 DEF Restart
    <2> QED BY <2>1, WholeCut
  <1>7. ASSUME RecoverInvalid \/ UNCHANGED vars PROVE Whole'
    <2>1. call' = call /\ store' = store /\ disturbed' = disturbed
      BY <1>7 DEF RecoverInvalid, vars
    <2> QED BY <2>1 DEF Whole, NotTorn, Pending, HalfWritten, Awaited, OneHolder,
                        AccountKey, AccountId
  <1>8. ASSUME NEW c \in Calls, Step(c), ~Write(c), ~Enter(c) PROVE Whole'
    <2>1. /\ call[c].op \notin {"idle", "create", "recover"}
          /\ disturbed' = disturbed
      BY <1>8 DEF Step, LoadRead, LoadDone, Delete, DeleteAll, LogoutDone,
                  LoadMasterKey, ReadFallback, WriteFallback
    <2>2. /\ \A d \in Calls : d # c => call'[d] = call[d]
          /\ call'[c].op \notin {"create", "recover"}
      <3>1. CASE LoadRead(c)
        <4>1. call[c] \in LoadCall
          BY <1>t, <3>1, CallFields DEF LoadRead
        <4> QED BY <1>t, <3>1, <4>1 DEF LoadRead, LoadCall
      <3>2. CASE Delete(c)
        <4>1. call[c] \in LogoutCall
          BY <1>t, <3>2, CallFields DEF Delete
        <4> QED BY <1>t, <3>2, <4>1 DEF Delete, LogoutCall
      <3>3. CASE LoadMasterKey(c) \/ ReadFallback(c)
        <4>1. call[c] \in LookupCall
          BY <1>t, <3>3, CallFields DEF LoadMasterKey, ReadFallback
        <4> QED BY <1>t, <3>3, <4>1, CallKinds
                DEF LoadMasterKey, ReadFallback, LookupCall, Encrypted
      <3>4. CASE LoadDone(c) \/ DeleteAll(c) \/ LogoutDone(c) \/ WriteFallback(c)
        BY <1>t, <3>4, CallKinds
           DEF LoadDone, DeleteAll, LogoutDone, WriteFallback, Encrypted
      <3> QED BY <1>8, <3>1, <3>2, <3>3, <3>4 DEF Step
    <2>3. \A e \in {"libredrive_master_key", "public_id", "username"} :
            store'[e] \in {store[e], None}
      <3>1. CASE Delete(c)
        <4> DEFINE head == Head(call[c].todo)
        <4>1. call[c] \in LogoutCall
          BY <1>t, <3>1, CallFields DEF Delete
        <4>2. /\ store' = [store EXCEPT ![head] = None]
              /\ store \in [Entries -> Seeds \cup TempKeys \cup {Given, None}]
          BY <1>t, <3>1, <4>1 DEF Delete, TypeOK
        <4> QED BY <1>k, <4>2
      <3>2. CASE DeleteAll(c)
        BY <1>k, <3>2 DEF DeleteAll, Empty
      <3>3. CASE WriteFallback(c)
        BY <1>k, <1>t, <3>3 DEF WriteFallback, TypeOK
      <3>4. CASE LoadRead(c) \/ LoadDone(c) \/ LogoutDone(c) \/ LoadMasterKey(c)
                 \/ ReadFallback(c)
        BY <3>4 DEF LoadRead, LoadDone, LogoutDone, LoadMasterKey, ReadFallback
      <3> QED BY <1>8, <3>1, <3>2, <3>3, <3>4 DEF Step
    <2>4. call[c] # Idle
      BY <2>1, CallKinds
    <2> QED BY <2>1, <2>2, <2>3, <2>4, WholeFrame
  <1>9. ASSUME NEW c \in Calls, Enter(c) PROVE Whole'
    <2> SUFFICES ASSUME NotTorn' PROVE Whole!2'
      BY DEF Whole
    <2>1. /\ call[c].op \in {"create", "recover"} /\ call[c].todo = <<>>
          /\ call'[c] = Idle /\ \A d \in Calls : d # c => call'[d] = call[d]
          /\ store' = store /\ disturbed' = disturbed
      BY <1>9, <1>t DEF Enter
    <2>2. NotTorn /\ HalfWritten(call[c])
      BY <2>1 DEF NotTorn, Whole
    <2>3. AccountKey = call[c].seed /\ AccountId = call[c].seed
      BY <2>1, <2>2 DEF HalfWritten, Awaited
    <2>4. OneHolder'
      BY <2>1, <2>3 DEF OneHolder, AccountKey, AccountId
    <2>5. \A d \in Calls : d # c => call[d] = Idle
      BY <2>1, <2>2, Alone, CallKinds DEF IInv, NotTorn, NoOverlap
    <2>6. \A d \in Calls : HalfWritten(call[d])'
      BY <2>1, <2>5, CallKinds DEF HalfWritten
    <2> QED BY <2>4, <2>6
  <1> QED BY <1>1, <1>2, <1>3, <1>4, <1>5, <1>6, <1>7, <1>8, <1>9, WholeWrite DEF Next

\* A start logs in the account whose master key is stored, whatever calls of
\* AuthNotifier failed or were cut short before, unless calls overlapped or
\* one stopped between the writes of its key and its id over a named account.
THEOREM LoadTheorem == Spec => LoadIsOfOneAccount
  <1>1. Init => Whole
    BY CallKinds DEF Init, Whole, Pending, HalfWritten, OneHolder, AccountKey,
                     Empty, Entries
  <1>2. ASSUME IInv, Whole, NEW c \in Calls, LoadDone(c), auth'.user # None, NotTorn
        PROVE  store["libredrive_master_key"] = auth'.user
    <2>1. /\ call[c].op = "load" /\ call[c].todo = <<>> /\ call[c].complete
          /\ call[c] # Idle /\ auth'.user = call[c].user
      BY <1>2, CallKinds DEF LoadDone
    <2>2. NoOverlap /\ \A d \in Calls : d # c => call[d] = Idle
      BY <1>2, <2>1, Alone DEF IInv, NotTorn, NoOverlap
    <2>3. LoadedBy(call[c])
      BY <1>2, <2>2 DEF IInv, Loaded
    <2>4. /\ store["libredrive_master_key"] # None /\ store["public_id"] # None
          /\ store["username"] # None /\ call[c].user = AccountId
      BY <2>1, <2>3 DEF LoadedBy, Awaited
    <2>5. OneHolder
      BY <1>2, <2>1, <2>2, CallKinds DEF Whole, Pending
    <2> QED BY <2>1, <2>4, <2>5 DEF OneHolder, AccountKey, AccountId
  <1>3. IInv /\ Whole => [\A c \in Calls :
           LoadDone(c) /\ auth'.user # None /\ {"overlap", "torn"} \cap disturbed = {}
             => store["libredrive_master_key"] = auth'.user]_vars
    BY <1>2 DEF NotTorn
  <1> QED BY <1>1, <1>3, WholeNext, Invariance, PTL DEF Spec, LoadIsOfOneAccount

-----------------------------------------------------------------------------
(* Every call runs out of steps, and one that ends stops the spinner *)

\* The awaits ahead of a call.
StepsLeft(r) ==
  CASE r.op = "idle" -> 0
    [] r.op \in {"load", "create", "recover"} -> Len(r.todo) + 1
    [] r.op = "logout" -> Len(r.todo) + 2
    [] r.op = "loadMasterKey" -> 3
    [] r.op = "readFallback" -> 2
    [] OTHER -> 1

\* Leaving a form changes what its call will do, not how long it takes.
CallsRunOut ==
  [][\A c \in Calls : call[c] # Idle =>
       /\ StepsLeft(call[c])' \in Nat
       /\ StepsLeft(call[c])' <= StepsLeft(call[c])
       /\ Step(c) => StepsLeft(call[c])' < StepsLeft(call[c])]_vars

\* The end of a load, a creation or a recovery resets isLoading.
SpinnerStops ==
  [][\A c \in Calls :
       call[c].op \in {"load", "create", "recover"} /\ call[c]' = Idle
         => ~auth.loading']_vars

LEMMA StepsType ==
  ASSUME NEW r \in CallStates
  PROVE  StepsLeft(r) \in Nat /\ (r # Idle => StepsLeft(r) > 0)
  <1>1. r.op \in {"load", "create", "recover", "logout"} =>
          r.todo \in Seq(Entries) /\ Len(r.todo) \in Nat
    BY CallFields DEF LoadCall, FormCall, LogoutCall
  <1> QED BY <1>1, CallFields DEF StepsLeft

\* An await passed: one entry less to touch, or the next stage of the call.
LEMMA StepNearer ==
  ASSUME TypeOK, NEW c \in Calls, Step(c)
  PROVE  /\ StepsLeft(call'[c]) < StepsLeft(call[c])
         /\ \A d \in Calls \ {c} : call'[d] = call[d]
  <1> DEFINE r == call[c]
  <1>t. r \in CallStates /\ call \in [Calls -> CallStates]
    BY DEF TypeOK
  <1>i. ASSUME call' = [call EXCEPT ![c] = Idle], r.op # "idle"
        PROVE  /\ StepsLeft(call'[c]) < StepsLeft(r)
               /\ \A d \in Calls \ {c} : call'[d] = call[d]
    <2>1. r # Idle /\ StepsLeft(Idle) = 0
      BY <1>i, CallKinds DEF StepsLeft
    <2> QED BY <1>i, <1>t, <2>1, StepsType
  <1>1. ASSUME NEW s, call' = [call EXCEPT ![c] = s], s.op = r.op,
               s.todo = Tail(r.todo), r.todo # <<>>,
               r.op \in {"load", "create", "recover", "logout"}
        PROVE  /\ StepsLeft(call'[c]) < StepsLeft(r)
               /\ \A d \in Calls \ {c} : call'[d] = call[d]
    <2>1. r.todo \in Seq(Entries)
      BY <1>1, <1>t, CallFields DEF LoadCall, FormCall, LogoutCall
    <2>2. Len(Tail(r.todo)) = Len(r.todo) - 1 /\ Len(r.todo) \in Nat
      BY <1>1, <2>1
    <2>3. call'[c] = s /\ \A d \in Calls \ {c} : call'[d] = call[d]
      BY <1>1, <1>t
    <2>4. /\ StepsLeft(r) - Len(r.todo) \in {1, 2}
          /\ StepsLeft(s) = StepsLeft(r) - 1
      BY <1>1, <2>2 DEF StepsLeft
    <2>5. StepsLeft(r) \in Nat
      BY <1>t, StepsType
    <2> QED BY <2>3, <2>4, <2>5
  <1>2. CASE LoadRead(c)
    <2> DEFINE e == Head(r.todo)
               s == [r EXCEPT !.todo = Tail(@),
                              !.user = IF e = "public_id" THEN store[e] ELSE @,
                              !.complete = @ /\ store[e] # None]
    <2>1. call' = [call EXCEPT ![c] = s] /\ r.op = "load" /\ r.todo # <<>>
      BY <1>2, <1>t DEF LoadRead
    <2>2. r \in LoadCall
      BY <1>t, <2>1, CallFields
    <2>3. s.op = r.op /\ s.todo = Tail(r.todo)
      BY <2>2 DEF LoadCall
    <2> QED BY <1>1, <2>1, <2>3
  <1>3. CASE Write(c)
    <2> DEFINE s == [r EXCEPT !.todo = Tail(@)]
    <2>1. /\ call' = [call EXCEPT ![c] = s]
          /\ r.op \in {"create", "recover"} /\ r.todo # <<>>
      BY <1>3, <1>t DEF Write
    <2>2. r \in FormCall
      BY <1>t, <2>1, CallFields
    <2>3. s.op = r.op /\ s.todo = Tail(r.todo)
      BY <2>2 DEF FormCall
    <2> QED BY <1>1, <2>1, <2>3
  <1>4. CASE Delete(c)
    <2> DEFINE s == [r EXCEPT !.todo = Tail(@)]
    <2>1. call' = [call EXCEPT ![c] = s] /\ r.op = "logout" /\ r.todo # <<>>
      BY <1>4, <1>t DEF Delete
    <2>2. r \in LogoutCall
      BY <1>t, <2>1, CallFields
    <2>3. s.op = r.op /\ s.todo = Tail(r.todo)
      BY <2>2 DEF LogoutCall
    <2> QED BY <1>1, <2>1, <2>3
  <1>5. CASE LoadDone(c) \/ Enter(c) \/ LogoutDone(c) \/ WriteFallback(c)
    BY <1>5, <1>i DEF LoadDone, Enter, LogoutDone, WriteFallback, Encrypted
  <1>6. CASE DeleteAll(c)
    <2>1. /\ call' = [call EXCEPT ![c] = [op |-> "loggedOut"]]
          /\ r.op = "logout" /\ r.todo = <<>>
      BY <1>6 DEF DeleteAll
    <2>2. StepsLeft(r) = 2 /\ StepsLeft([op |-> "loggedOut"]) = 1
      BY <2>1 DEF StepsLeft
    <2> QED BY <1>t, <2>1, <2>2
  <1>7. CASE LoadMasterKey(c)
    <2>1. r.op = "loadMasterKey" /\ r \in LookupCall
      BY <1>7, <1>t, CallFields DEF LoadMasterKey
    <2>2. \/ call' = [call EXCEPT ![c] = Idle]
          \/ call' = [call EXCEPT ![c] = [r EXCEPT !.op = "readFallback"]]
      BY <1>7, <1>t DEF LoadMasterKey, Encrypted
    <2>3. StepsLeft([r EXCEPT !.op = "readFallback"]) = 2 /\ StepsLeft(r) = 3
      BY <2>1 DEF LookupCall, StepsLeft
    <2> QED BY <1>i, <1>t, <2>1, <2>2, <2>3
  <1>8. CASE ReadFallback(c)
    <2>1. r.op = "readFallback"
      BY <1>8 DEF ReadFallback
    <2>2. \/ call' = [call EXCEPT ![c] = Idle]
          \/ \E t : call' = [call EXCEPT ![c] = [op |-> "writeFallback",
                                                 owner |-> r.owner, key |-> t]]
      BY <1>8, <1>t DEF ReadFallback, Encrypted
    <2>3. /\ StepsLeft(r) = 2
          /\ \A t : StepsLeft([op |-> "writeFallback", owner |-> r.owner,
                               key |-> t]) = 1
      BY <2>1 DEF StepsLeft
    <2> QED BY <1>i, <1>t, <2>1, <2>2, <2>3
  <1> QED BY <1>2, <1>3, <1>4, <1>5, <1>6, <1>7, <1>8 DEF Step

\* Nothing but its own steps changes how much is left of a call, unless it
\* fails, its form is left or the app ends.
LEMMA RunsOutStep ==
  ASSUME TypeOK, TypeOK', [Next]_vars, NEW c \in Calls, call[c] # Idle
  PROVE  /\ StepsLeft(call'[c]) \in Nat
         /\ StepsLeft(call'[c]) <= StepsLeft(call[c])
         /\ Step(c) => StepsLeft(call'[c]) < StepsLeft(call[c])
  <1>t. /\ call[c] \in CallStates /\ call'[c] \in CallStates
        /\ StepsLeft(call[c]) \in Nat /\ StepsLeft(call'[c]) \in Nat
        /\ call \in [Calls -> CallStates]
    BY StepsType DEF TypeOK
  <1>s. Step(c) => StepsLeft(call'[c]) < StepsLeft(call[c])
    BY StepNearer
  <1>i. call'[c] = Idle => StepsLeft(call'[c]) <= StepsLeft(call[c])
    <2>1. StepsLeft(Idle) = 0
      BY CallKinds DEF StepsLeft
    <2> QED BY <1>t, <2>1
  <1>1. ASSUME NEW d \in Calls,
               CheckAuth(d) \/ BeginLogout(d) \/ BeginUpload(d)
        PROVE  call'[c] = call[c]
    BY <1>1, <1>t DEF CheckAuth, BeginLogout, BeginUpload, Start
  <1>2. ASSUME NEW d \in Calls, Leave(d)
        PROVE  StepsLeft(call'[c]) = StepsLeft(call[c])
    <2>1. CASE c = d
      <3>1. call'[c] = [call[c] EXCEPT !.shown = FALSE] /\ call[c] \in FormCall
        BY <1>2, <1>t, <2>1, CallFields DEF Leave
      <3>2. call'[c].op = call[c].op /\ call'[c].todo = call[c].todo
        BY <3>1 DEF FormCall
      <3> QED BY <3>1, <3>2 DEF StepsLeft, FormCall
    <2>2. CASE c # d
      BY <1>2, <1>t, <2>2 DEF Leave
    <2> QED BY <2>1, <2>2
  <1>3. ASSUME NEW d \in Calls, Fail(d)
        PROVE  call'[c] = call[c] \/ call'[c] = Idle
    BY <1>3, <1>t DEF Fail
  <1>4. ASSUME NEW d \in Calls, Step(d)
        PROVE  StepsLeft(call'[c]) <= StepsLeft(call[c])
    BY <1>4, <1>t, StepNearer
  <1>5. ASSUME RecoverInvalid \/ Restart \/ UNCHANGED vars
        PROVE  call'[c] = call[c] \/ call'[c] = Idle
    <2>1. CASE Restart
      BY <2>1 DEF Restart
    <2>2. CASE RecoverInvalid \/ UNCHANGED vars
      BY <2>2 DEF RecoverInvalid, vars
    <2> QED BY <1>5, <2>1, <2>2
  <1>6. ASSUME NEW d \in Calls, NEW s \in Seeds, NEW p \in BOOLEAN,
               Begin(d, "create", s, TRUE) \/ Begin(d, "recover", s, p)
        PROVE  call'[c] = call[c]
    BY <1>6, <1>t DEF Begin, Start
  <1>7. \/ call'[c] = call[c] \/ call'[c] = Idle
        \/ StepsLeft(call'[c]) <= StepsLeft(call[c])
    <2>1. CASE \E d \in Calls : Leave(d)
      BY <2>1, <1>2, <1>t
    <2>2. CASE \E d \in Calls : CheckAuth(d) \/ BeginLogout(d) \/ BeginUpload(d)
      BY <2>2, <1>1
    <2>3. CASE \E d \in Calls : \/ \E s \in Seeds : Begin(d, "create", s, TRUE)
                              \/ \E s \in Seeds, p \in BOOLEAN :
                                   Begin(d, "recover", s, p)
      BY <2>3, <1>6
    <2>4. CASE \E d \in Calls : Fail(d) \/ Step(d)
      BY <2>4, <1>3, <1>4
    <2> QED BY <2>1, <2>2, <2>3, <2>4, <1>5 DEF Next
  <1>8. StepsLeft(call'[c]) <= StepsLeft(call[c])
    <2>1. CASE call'[c] = call[c]
      BY <2>1, <1>t
    <2> QED BY <2>1, <1>i, <1>7
  <1> QED BY <1>t, <1>s, <1>8

\* The end of a load, a creation or a recovery, successful or not, resets
\* isLoading, whatever other calls have made of it.
LEMMA SpinnerStep ==
  ASSUME TypeOK, [Next]_vars, NEW c \in Calls,
         call[c].op \in {"load", "create", "recover"}, call'[c] = Idle
  PROVE  ~auth'.loading
  <1>t. /\ call \in [Calls -> CallStates] /\ call[c] # Idle
        /\ call'[c] # call[c] /\ auth \in [user : Seeds \cup {None}, loading : BOOLEAN]
    BY CallKinds DEF TypeOK
  <1>1. \A d \in Calls : ~CheckAuth(d) /\ ~BeginLogout(d) /\ ~BeginUpload(d)
    BY <1>t DEF CheckAuth, BeginLogout, BeginUpload, Start
  <1>2. \A d \in Calls, op \in {"create", "recover"}, s \in Seeds, p \in BOOLEAN :
          ~Begin(d, op, s, p)
    BY <1>t DEF Begin, Start
  <1>3. \A d \in Calls : ~Leave(d)
    <2> SUFFICES ASSUME NEW d \in Calls, Leave(d) PROVE FALSE
      OBVIOUS
    <2>1. d = c
      BY <1>t DEF Leave
    <2>2. call'[c].op = call[c].op
      <3>1. call'[c] = [call[c] EXCEPT !.shown = FALSE] /\ call[c] \in FormCall
        BY <1>t, <2>1, CallFields DEF Leave
      <3> QED BY <3>1 DEF FormCall
    <2> QED BY <2>2, CallKinds
  <1>4. ASSUME NEW d \in Calls, Fail(d)
        PROVE  ~auth'.loading
    <2>1. d = c
      BY <1>4, <1>t DEF Fail
    <2> QED BY <1>4, <1>t, <2>1 DEF Fail, AfterError
  <1>5. ASSUME NEW d \in Calls, Step(d)
        PROVE  ~auth'.loading
    <2>1. d = c /\ Step(c)
      BY <1>5, <1>t, StepNearer
    <2>2. CASE LoadRead(c) \/ Write(c)
      <3>1. call'[c].op = call[c].op
        <4>1. CASE LoadRead(c)
          <5>1. call[c] \in LoadCall
            BY <1>t, <4>1, CallFields DEF LoadRead
          <5> QED BY <1>t, <4>1, <5>1 DEF LoadRead, LoadCall
        <4>2. CASE Write(c)
          <5>1. call[c] \in FormCall
            BY <1>t, <4>2, CallFields DEF Write
          <5> QED BY <1>t, <4>2, <5>1 DEF Write, FormCall
        <4> QED BY <2>2, <4>1, <4>2
      <3> QED BY <3>1, CallKinds
    <2>3. CASE LoadDone(c) \/ Enter(c)
      BY <2>3 DEF LoadDone, Enter
    <2>4. /\ ~Delete(c) /\ ~DeleteAll(c) /\ ~LogoutDone(c)
          /\ ~LoadMasterKey(c) /\ ~ReadFallback(c) /\ ~WriteFallback(c)
      BY DEF Delete, DeleteAll, LogoutDone, LoadMasterKey, ReadFallback,
         WriteFallback
    <2> QED BY <2>1, <2>2, <2>3, <2>4 DEF Step
  <1>6. CASE RecoverInvalid \/ Restart
    BY <1>6, <1>t DEF RecoverInvalid, Restart
  <1>7. CASE UNCHANGED vars
    BY <1>7, <1>t DEF vars
  <1> QED BY <1>1, <1>2, <1>3, <1>4, <1>5, <1>6, <1>7 DEF Next

\* No call about the account goes on for ever, and the end of a load, a
\* creation or a recovery resets isLoading: with SpinnerHasCall, a spinner shown
\* is one whose call has a bounded number of awaits left (AuthNotifier).
THEOREM CallsEnd == Spec => CallsRunOut /\ SpinnerStops
  <1>1. ASSUME TypeOK, TypeOK', [Next]_vars
        PROVE  [\A c \in Calls : call[c] # Idle =>
                  /\ StepsLeft(call[c])' \in Nat
                  /\ StepsLeft(call[c])' <= StepsLeft(call[c])
                  /\ Step(c) => StepsLeft(call[c])' < StepsLeft(call[c])]_vars
    BY <1>1, RunsOutStep
  <1>2. ASSUME TypeOK, [Next]_vars
        PROVE  [\A c \in Calls :
                  call[c].op \in {"load", "create", "recover"} /\ call[c]' = Idle
                    => ~auth.loading']_vars
    BY <1>2, SpinnerStep
  <1> QED BY <1>1, <1>2, TypeCorrect, PTL DEF Spec, CallsRunOut, SpinnerStops
=============================================================================
