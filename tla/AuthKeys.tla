------------------------------ MODULE AuthKeys ------------------------------
(***************************************************************************)
(* The account of the app and its keys: AuthNotifier (auth_provider.dart), *)
(* the entries of SeedPhraseService (seed_phrase_service.dart) in the      *)
(* platform's secure storage, CryptoService.getMasterKey                   *)
(* (crypto_service.dart), and the screens that start these calls.          *)
(*                                                                         *)
(* An account is its seed phrase.  The master key and the public id are    *)
(* derived from the phrase alone, so an entry is modelled by the phrase of *)
(* the account that wrote it.  An action is the code between two awaits;   *)
(* calls of several screens run side by side.                              *)
(***************************************************************************)
EXTENDS Naturals, Sequences, FiniteSets

CONSTANTS
  Seeds,      \* seed phrases
  TempKeys,   \* keys getMasterKey may generate when it finds none
  Calls,      \* bound: calls in flight
  MaxFiles,   \* bound: files uploaded
  Faults,     \* which of "crash" (the app dies) and "fail" (storage throws) occur
  Given,      \* a user name or a password hash, whosever it is
  None

ASSUME AuthAssumption ==
  /\ None \notin Seeds \cup TempKeys \cup {Given}
  /\ Seeds \cap TempKeys = {}
  /\ Faults \subseteq {"crash", "fail"}

Entries == {"libredrive_seed", "libredrive_master_key", "public_id",
            "username", "password_hash", "master_key"}

Empty == [e \in Entries |-> None]

VARIABLES
  store,      \* secure storage: whose value each entry has
  auth,       \* AuthNotifier.state: the publicId logged in, and isLoading
  screen,     \* "splash", "welcome" (and the forms above it) or "home"
  call,       \* the calls in flight
  files,      \* who uploaded each file of the vault, and its key
  disturbed   \* history: "cut" once a call was cut short or failed, "torn"
              \* once that fell between the writes of a key and of its id,
              \* "overlap" and the others once two calls ran at a time

vars == <<store, auth, screen, call, files, disturbed>>

Idle == [op |-> "idle"]

UploadOps == {"loadMasterKey", "readFallback", "writeFallback"}
Pending(ops) == {c \in Calls : call[c].op \in ops}
AccountOps == {"load", "create", "recover", "logout", "loggedOut"}

\* A call starts; others may be running.
Start(c, new) ==
  /\ call[c] = Idle
  /\ call' = [call EXCEPT ![c] = new]
  /\ disturbed' = disturbed \cup IF \E d \in Calls : call[d] # Idle
                                 THEN {"overlap", "cut", "torn"} ELSE {}

\* A form is disabled while the call it started is running.
FormEnabled == \A c \in Pending({"create", "recover"}) : ~call[c].shown

\* A recovery that forgets the master key. (Faulty... definitions are wrong
\* variants of a definition that follows them.)
FaultyAwaits(op, password) ==
  CASE op = "create"  -> <<"libredrive_master_key", "libredrive_seed",
                           "public_id", "username", "password_hash">>
    [] op = "recover" -> <<"public_id", "username">>
    [] op = "logout"  -> <<"libredrive_seed", "libredrive_master_key">>
    [] op = "load"    -> <<"public_id", "username", "libredrive_master_key">>

\* The entries a call touches, in the order of its awaits.
Awaits(op, password) ==
  CASE op = "create"  -> <<"libredrive_master_key", "libredrive_seed",
                           "public_id", "username", "password_hash">>
    [] op = "recover" -> <<"libredrive_master_key", "public_id", "username">>
                         \o IF password THEN <<"libredrive_seed", "password_hash">>
                                        ELSE <<>>
    [] op = "logout"  -> <<"libredrive_seed", "libredrive_master_key">>
    [] op = "load"    -> <<"public_id", "username", "libredrive_master_key">>

Init ==
  /\ store = Empty
  /\ auth = [user |-> None, loading |-> FALSE]
  /\ screen = "splash"
  /\ call = [c \in Calls |-> Idle]
  /\ files = {}
  /\ disturbed = {}

-----------------------------------------------------------------------------
(* Starting the app *)

\* _checkAuth reads the login state for the first time, which creates the
\* notifier and starts _loadSavedAuth; the answer is that of the fresh state.
CheckAuth(c) ==
  /\ screen = "splash"
  /\ screen' = IF auth.user # None THEN "home" ELSE "welcome"
  /\ auth' = [auth EXCEPT !.loading = TRUE]
  /\ Start(c, [op |-> "load", todo |-> Awaits("load", FALSE),
               user |-> None, complete |-> TRUE])
  /\ UNCHANGED <<store, files>>

\* The entry of the master key is not asked for.
FaultyLoadRead(c) ==
  /\ call[c].op = "load" /\ call[c].todo # <<>>
  /\ LET e == Head(call[c].todo)
     IN  call' = [call EXCEPT
           ![c].todo = Tail(@),
           ![c].user = IF e = "public_id" THEN store[e] ELSE @,
           ![c].complete = @ /\ (store[e] # None \/ e = "libredrive_master_key")]
  /\ UNCHANGED <<store, auth, screen, files, disturbed>>

LoadRead(c) ==
  /\ call[c].op = "load" /\ call[c].todo # <<>>
  /\ LET e == Head(call[c].todo)
     IN  call' = [call EXCEPT
           ![c].todo = Tail(@),
           ![c].user = IF e = "public_id" THEN store[e] ELSE @,
           ![c].complete = @ /\ store[e] # None]
  /\ UNCHANGED <<store, auth, screen, files, disturbed>>

LoadDone(c) ==
  /\ call[c].op = "load" /\ call[c].todo = <<>>
  /\ auth' = [user |-> IF call[c].complete THEN call[c].user ELSE None,
              loading |-> FALSE]
  /\ call' = [call EXCEPT ![c] = Idle]
  /\ UNCHANGED <<store, screen, files, disturbed>>

-----------------------------------------------------------------------------
(* Creating and recovering an account *)

\* createAccount from the seed phrase screen, recoverAccount from its form.
Begin(c, op, s, password) ==
  /\ screen = "welcome" /\ FormEnabled
  /\ auth' = [auth EXCEPT !.loading = TRUE]
  /\ Start(c, [op |-> op, todo |-> Awaits(op, password), seed |-> s, shown |-> TRUE])
  /\ UNCHANGED <<store, screen, files>>

\* recoverAccount of a phrase that does not validate.
RecoverInvalid ==
  /\ screen = "welcome" /\ FormEnabled
  /\ auth' = [auth EXCEPT !.loading = FALSE]
  /\ UNCHANGED <<store, screen, call, files, disturbed>>

\* The user goes back while the call runs on.
Leave(c) ==
  /\ call[c].op \in {"create", "recover"} /\ call[c].shown
  /\ call' = [call EXCEPT ![c].shown = FALSE]
  /\ UNCHANGED <<store, auth, screen, files, disturbed>>

\* One awaited write of either call.
Write(c) ==
  /\ call[c].op \in {"create", "recover"} /\ call[c].todo # <<>>
  /\ LET e == Head(call[c].todo)
     IN  store' = [store EXCEPT
           ![e] = IF e \in {"username", "password_hash"} THEN Given ELSE call[c].seed]
  /\ call' = [call EXCEPT ![c].todo = Tail(@)]
  /\ UNCHANGED <<auth, screen, files, disturbed>>

\* Logged in; the form, if it is still there, goes on to the home screen.
Enter(c) ==
  /\ call[c].op \in {"create", "recover"} /\ call[c].todo = <<>>
  /\ auth' = [user |-> call[c].seed, loading |-> FALSE]
  /\ screen' = IF call[c].shown THEN "home" ELSE screen
  /\ call' = [call EXCEPT ![c] = Idle]
  /\ UNCHANGED <<store, files, disturbed>>

-----------------------------------------------------------------------------
(* Logging out *)

BeginLogout(c) ==
  /\ screen = "home"
  /\ Start(c, [op |-> "logout", todo |-> Awaits("logout", FALSE)])
  /\ UNCHANGED <<store, auth, screen, files>>

\* SeedPhraseService.clearAll
Delete(c) ==
  /\ call[c].op = "logout" /\ call[c].todo # <<>>
  /\ store' = [store EXCEPT ![Head(call[c].todo)] = None]
  /\ call' = [call EXCEPT ![c].todo = Tail(@)]
  /\ UNCHANGED <<auth, screen, files, disturbed>>

DeleteAll(c) ==
  /\ call[c].op = "logout" /\ call[c].todo = <<>>
  /\ store' = Empty
  /\ call' = [call EXCEPT ![c] = [op |-> "loggedOut"]]
  /\ UNCHANGED <<auth, screen, files, disturbed>>

\* The home screen gives way to the welcome screen if the context of the
\* dialog, which is closed already, is still mounted.
LogoutDone(c) ==
  /\ call[c].op = "loggedOut"
  /\ auth' = [user |-> None, loading |-> FALSE]
  /\ screen' \in {screen, "welcome"}
  /\ call' = [call EXCEPT ![c] = Idle]
  /\ UNCHANGED <<store, files, disturbed>>

-----------------------------------------------------------------------------
(* Encrypting a file: getMasterKey *)

TemporaryKeysInUse ==
  {store["master_key"]} \cup {f.key : f \in files}
    \cup {call[c].key : c \in Pending({"writeFallback"})}

BeginUpload(c) ==
  /\ screen = "home"
  /\ Cardinality(files) + Cardinality(Pending(UploadOps)) < MaxFiles
  /\ Start(c, [op |-> "loadMasterKey", owner |-> auth.user])
  /\ UNCHANGED <<store, auth, screen, files>>

Encrypted(c, key) ==
  /\ files' = files \cup {[owner |-> call[c].owner, key |-> key]}
  /\ call' = [call EXCEPT ![c] = Idle]

\* The old entry is tried first.
FaultyFallbackFirst(c) ==
  /\ call[c].op = "loadMasterKey"
  /\ call' = [call EXCEPT ![c].op = "readFallback"]
  /\ UNCHANGED <<store, auth, screen, files, disturbed>>

\* A missing key is not noticed.
FaultyNullCheck(c) ==
  /\ call[c].op = "loadMasterKey"
  /\ Encrypted(c, store["libredrive_master_key"])
  /\ UNCHANGED <<store, auth, screen, disturbed>>

LoadMasterKey(c) ==
  /\ call[c].op = "loadMasterKey"
  /\ LET key == store["libredrive_master_key"]
     IN  \/ key # None /\ Encrypted(c, key)
         \/ key = None /\ call' = [call EXCEPT ![c].op = "readFallback"]
                       /\ UNCHANGED files
  /\ UNCHANGED <<store, auth, screen, disturbed>>

ReadFallback(c) ==
  /\ call[c].op = "readFallback"
  /\ LET key == store["master_key"]
     IN  \/ key # None /\ Encrypted(c, key)
         \/ /\ key = None
            /\ \E t \in TempKeys \ TemporaryKeysInUse :
                 call' = [call EXCEPT ![c] = [op |-> "writeFallback",
                                              owner |-> @.owner, key |-> t]]
            /\ UNCHANGED files
  /\ UNCHANGED <<store, auth, screen, disturbed>>

WriteFallback(c) ==
  /\ call[c].op = "writeFallback"
  /\ store' = [store EXCEPT !["master_key"] = call[c].key]
  /\ Encrypted(c, call[c].key)
  /\ UNCHANGED <<auth, screen, disturbed>>

-----------------------------------------------------------------------------
(* Faults *)

\* The error paths without the reset of isLoading.
FaultyAfterError(c) ==
  IF call[c].op = "load" THEN [user |-> None, loading |-> FALSE] ELSE auth

\* The catch clause of each call; logout and uploads have none here.
AfterError(c) ==
  CASE call[c].op = "load" -> [user |-> None, loading |-> FALSE]
    [] call[c].op \in {"create", "recover"} -> [auth EXCEPT !.loading = FALSE]
    [] OTHER -> auth

\* A creation or recovery that is cut short here leaves its key next to the
\* id and the name of the account before it.
Tears(c) ==
  /\ call[c].op \in {"create", "recover"}
  /\ \A i \in DOMAIN call[c].todo : call[c].todo[i] # "libredrive_master_key"
  /\ \E i \in DOMAIN call[c].todo : call[c].todo[i] = "public_id"
  /\ store["username"] # None

\* The history after the calls in cs are cut short.
Disturbed(cs) ==
  disturbed \cup {"cut" : c \in cs} \cup {"torn" : c \in {c \in cs : Tears(c)}}

\* The awaited storage call throws.
Fail(c) ==
  /\ "fail" \in Faults
  /\ call[c].op \notin {"idle", "loggedOut"}
  /\ call[c].op \in {"load", "create", "recover"} => call[c].todo # <<>>
  /\ auth' = AfterError(c)
  /\ call' = [call EXCEPT ![c] = Idle]
  /\ disturbed' = Disturbed({c})
  /\ UNCHANGED <<store, screen, files>>

\* The app ends, in the middle of its calls if it crashes, and starts again.
Restart ==
  /\ screen # "splash"
  /\ "crash" \in Faults \/ \A c \in Calls : call[c] = Idle
  /\ auth' = [user |-> None, loading |-> FALSE]
  /\ screen' = "splash"
  /\ call' = [c \in Calls |-> Idle]
  /\ disturbed' = Disturbed({c \in Calls : call[c] # Idle})
  /\ UNCHANGED <<store, files>>

Step(c) ==
  \/ LoadRead(c) \/ LoadDone(c)
  \/ Write(c) \/ Enter(c)
  \/ Delete(c) \/ DeleteAll(c) \/ LogoutDone(c)
  \/ LoadMasterKey(c) \/ ReadFallback(c) \/ WriteFallback(c)

Next ==
  \/ \E c \in Calls :
       \/ CheckAuth(c)
       \/ \E s \in Seeds : Begin(c, "create", s, TRUE)
       \/ \E s \in Seeds, p \in BOOLEAN : Begin(c, "recover", s, p)
       \/ Leave(c)
       \/ BeginLogout(c)
       \/ BeginUpload(c)
       \/ Step(c)
       \/ Fail(c)
  \/ RecoverInvalid
  \/ Restart

Spec == Init /\ [][Next]_vars

-----------------------------------------------------------------------------
(* Properties *)

CallStates ==
  {Idle, [op |-> "loggedOut"]}
    \cup [op : {"load"}, todo : Seq(Entries), user : Seeds \cup {None},
          complete : BOOLEAN]
    \cup [op : {"create", "recover"}, todo : Seq(Entries), seed : Seeds,
          shown : BOOLEAN]
    \cup [op : {"logout"}, todo : Seq(Entries)]
    \cup [op : {"loadMasterKey", "readFallback"}, owner : Seeds \cup {None}]
    \cup [op : {"writeFallback"}, owner : Seeds \cup {None}, key : TempKeys]

TypeOK ==
  /\ store \in [Entries -> Seeds \cup TempKeys \cup {Given, None}]
  /\ store["master_key"] \in TempKeys \cup {None}
  /\ \A e \in {"libredrive_seed", "libredrive_master_key", "public_id"} :
       store[e] \in Seeds \cup {None}
  /\ auth \in [user : Seeds \cup {None}, loading : BOOLEAN]
  /\ screen \in {"splash", "welcome", "home"}
  /\ call \in [Calls -> CallStates]
  /\ disturbed \subseteq {"cut", "overlap", "torn"}
  /\ files \subseteq [owner : Seeds \cup {None}, key : Seeds \cup TempKeys]

Settled == Pending(AccountOps) = {}

\* auth_provider.dart:132: "Generate the SAME public ID (deterministic!)":
\* the account shown is the one whose key is in the secure storage.  The
\* entries are written one by one, over those of an earlier account.
ShownIdIsOfKey ==
  Settled /\ auth.user # None => store["libredrive_master_key"] = auth.user

\* The same while calls neither overlap nor are cut short: then creation,
\* recovery, logout and the next start always leave id and key of one account.
IdIsOfKey == disturbed = {} => ShownIdIsOfKey

\* A file is encrypted with the key of the account that uploaded it, under
\* the same condition: the fallback of getMasterKey is never taken by an
\* account that is logged in.
KeyIsOfTheAccount ==
  disturbed = {} => \A f \in files : f.owner # None => f.key = f.owner

\* What a crash or a failure left half done of an account or of a logout is
\* not taken for an account when the app starts again: the load logs in the
\* account whose key is stored, or nobody.  Creations, recoveries and logouts
\* may have been cut short any number of times; only one that stopped between
\* its key and its id, over an account with a name, lets a start mix the two.
LoadIsOfOneAccount ==
  [][\A c \in Calls :
       LoadDone(c) /\ auth'.user # None /\ {"overlap", "torn"} \cap disturbed = {}
         => store["libredrive_master_key"] = auth'.user]_vars

\* The spinner is shown only while a call that will end it is running,
\* whatever fails, overlaps or is left.
SpinnerHasCall ==
  auth.loading => Pending({"load", "create", "recover"}) # {}
=============================================================================
