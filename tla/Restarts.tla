------------------------------ MODULE Restarts ------------------------------
(***************************************************************************)
(* One gateway process after another over the same files: each is started  *)
(* with an environment of its own (gateway/config.py), which create_app    *)
(* accepts or refuses, appends to the database it was given, with or       *)
(* without a checkpoint store, answers GET /v1/audit/verify, and dies at   *)
(* any moment.  The administrative key is left out: it decides who may ask *)
(* for the verdict and nothing else.                                       *)
(*                                                                         *)
(* One process runs at a time, and append blocks its event loop, so within *)
(* a process nothing comes between a commit and its save but a crash.      *)
(***************************************************************************)
EXTENDS AuditChain, FiniteSetsExt

CONSTANTS Databases,      \* values of GATEWAY_AUDIT_DB
          StrongKeys,     \* HMAC keys of at least MIN_HMAC_KEY_LENGTH characters
          ShortKey,       \* one that is shorter
          Environments,   \* the environments the gateway is started in
          MaxRecords      \* bound on the records of all databases together

DevKey == "INSECURE_DEV_KEY"
Empty == "unset"

HmacKeys == StrongKeys \cup {ShortKey, DevKey, Empty}

\* What the environment can hold.  credentials are the providers whose API key
\* is set; values says whether every field has a value of its type and range;
\* policy is what GATEWAY_POLICY_FILE leads to.
Settings ==
    [ app_env     : {"development", "test", "production"},
      values      : {"valid", "invalid"},
      provider    : {"mock", "openai", "anthropic"},
      credentials : SUBSET {"openai", "anthropic"},
      hmac_key    : HmacKeys,
      checkpoint  : BOOLEAN,
      db          : Databases,
      policy      : {"default", "loaded", "unreadable", "unknown_action", "not_an_object"} ]

ASSUME KeysAreDistinct ==
    /\ {ShortKey, DevKey, Empty} \cap StrongKeys = {}
    /\ Cardinality({ShortKey, DevKey, Empty}) = 3

\* No file, as saved and app name it, is not a database.
ASSUME DatabasesAreFiles == "none" \notin Databases

ASSUME EnvironmentsAreSettings == Environments \subseteq Settings

VARIABLES
    pc,        \* "down", "serving" or "saving"
    app,       \* what the running process was built from
    tables,    \* the audit_log of each database
    store,     \* the checkpoint file
    saved      \* the database and the id of the record saved last

vars == <<pc, app, tables, store, saved>>

\* The empty key becomes the development key outside production.
EffectiveKey(s) ==
    IF s.app_env # "production" /\ s.hmac_key = Empty THEN DevKey ELSE s.hmac_key

\* Mutation: the development key is not looked for.
UnsafeInProduction_DevKey(s) ==
    \/ s.hmac_key \in {Empty, ShortKey}
    \/ s.provider # "mock" /\ s.provider \notin s.credentials

\* _enforce_security_rules in production.
UnsafeInProduction(s) ==
    \/ s.hmac_key \in {Empty, ShortKey, DevKey}
    \/ s.provider # "mock" /\ s.provider \notin s.credentials

\* load_policy raises: ConfigurationError, or AttributeError for JSON that is
\* no object.  Either ends create_app.
PolicyRefused(s) == s.policy \in {"unreadable", "unknown_action", "not_an_object"}

\* What create_app keeps of the settings for the audit path.
App(s) == [ app_env |-> s.app_env, key |-> EffectiveKey(s),
            checkpoint |-> s.checkpoint, db |-> s.db ]

NoApp == [ app_env |-> "none", key |-> Empty, checkpoint |-> FALSE, db |-> "none" ]

Unsaved == [db |-> "none", id |-> 0]

Init ==
    /\ pc = "down" /\ app = NoApp
    /\ tables = [d \in Databases |-> << >>]
    /\ store = NoCheckpoint /\ saved = Unsaved

-----------------------------------------------------------------------------

\* create_app, unless Settings.load or load_policy raises.  A database file
\* that AuditLogger cannot open or create its table in ends the start too, and
\* leaves what a start that was not tried leaves.
Start(s) ==
    /\ pc = "down"
    /\ s.values = "valid"
    /\ s.app_env = "production" => ~ UnsafeInProduction(s)
    /\ ~ PolicyRefused(s)
    /\ pc' = "serving"
    /\ app' = App(s)
    /\ UNCHANGED <<tables, store, saved>>

Table == tables[app.db]
Appended == MapThenSumSet(LAMBDA d : Len(tables[d]), Databases)

\* append up to the commit, under the key the process was started with.  No
\* two records have the same content: it is named by its place.
CommitRecord ==
    /\ pc = "serving"
    /\ Appended < MaxRecords
    /\ LET tail == TailOf(Table)
           row  == Seal(app.key, tail.next_id, <<app.db, tail.next_id>>, tail.prev_hash)
       IN  tables' = [tables EXCEPT ![app.db] = Append(Table, row)]
    /\ pc' = IF app.checkpoint THEN "saving" ELSE "serving"
    /\ UNCHANGED <<app, store, saved>>

\* Mutation: the store refuses to go back to a smaller id.
SaveCheckpoint_NewerOnly ==
    /\ pc = "saving"
    /\ pc' = "serving"
    /\ IF store.last_record_id < Len(Table)
         THEN /\ store' = CheckpointOf(Table[Len(Table)])
              /\ saved' = [db |-> app.db, id |-> Len(Table)]
         ELSE UNCHANGED <<store, saved>>
    /\ UNCHANGED <<app, tables>>

SaveCheckpoint ==
    /\ pc = "saving"
    /\ pc' = "serving"
    /\ store' = CheckpointOf(Table[Len(Table)])
    /\ saved' = [db |-> app.db, id |-> Len(Table)]
    /\ UNCHANGED <<app, tables>>

\* The store raises OSError, which append turns into AuditWriteError.
SaveFails ==
    /\ pc = "saving"
    /\ pc' = "serving"
    /\ UNCHANGED <<app, tables, store, saved>>

\* The process ends or dies; the files stay.
Stop ==
    /\ pc # "down"
    /\ pc' = "down"
    /\ app' = NoApp
    /\ UNCHANGED <<tables, store, saved>>

Next ==
    \/ \E s \in Environments : Start(s)
    \/ CommitRecord \/ SaveCheckpoint \/ SaveFails
    \/ Stop

Spec == Init /\ [][Next]_vars

-----------------------------------------------------------------------------
(* What the running process answers to GET /v1/audit/verify.               *)

\* A request is served before or after append; in between this is the verdict
\* the files would lead to.
AuditVerify == VerifyWithStore(app.key, Table, app.checkpoint, store)

\* The rows another process sealed with a key that is not the verifier's.
ForeignRows == {k \in DOMAIN Table : Table[k].record_mac # Mac(app.key, Table[k].record_hash)}

-----------------------------------------------------------------------------

\* After any sequence of restarts the verdict on an untouched log says what
\* really differs: a record sealed with another key is reported at the first
\* such record; else a checkpoint that was last saved for another database is;
\* else, whatever the process missed to save and however often the store was
\* switched off and on, the log is never called invalid, the tail is verified
\* exactly when the last save was of the newest record of this database, and
\* a configured store that holds nothing makes the log unverifiable.
VerdictExplained ==
    pc # "down" =>
        CASE ForeignRows # {} ->
               AuditVerify = Verdict("invalid", Min(ForeignRows), Min(ForeignRows), FALSE)
          [] ForeignRows = {} /\ app.checkpoint /\ saved.db \in Databases \ {app.db} ->
               AuditVerify.status = "invalid" /\ ~ AuditVerify.tail_verified
          [] ForeignRows = {} /\ ~ (app.checkpoint /\ saved.db \in Databases \ {app.db}) ->
               /\ AuditVerify.status = CASE Table = << >> -> "empty"
                                         [] Table # << >> /\ app.checkpoint /\ saved = Unsaved -> "unverifiable"
                                         [] OTHER -> "valid"
               /\ AuditVerify.tail_verified <=>
                     app.checkpoint /\ saved = [db |-> app.db, id |-> Len(Table)]

\* "A silent fallback here would make every audit MAC forgeable": a production
\* process never vouches for a record that was sealed with the public
\* development key or a short one, though an earlier process wrote it so.
ProductionVouchesForStrongKeys ==
    pc # "down" /\ app.app_env = "production" /\ AuditVerify.status # "invalid" =>
        \A k \in DOMAIN Table :
            \E key \in StrongKeys : Table[k].record_mac = Mac(key, Table[k].record_hash)

\* The verdicts of one process never contradict each other, whatever it
\* appends and whichever of its saves fail: a row reported once is reported for
\* ever, at the same place; a log called valid is never called anything else;
\* and every other verdict - on a checkpoint an earlier process left for another
\* database or before a crash, or on a store that was never written - ends with
\* the first save that succeeds (audit_logger.py, 208-218).
VerdictsAreStable ==
    [][ pc # "down" /\ pc' # "down" =>
          /\ ForeignRows # {} => AuditVerify' = AuditVerify
          /\ AuditVerify.status = "valid" => AuditVerify'.status = "valid"
          /\ SaveCheckpoint /\ ForeignRows = {} =>
                AuditVerify'.status = "valid" /\ AuditVerify'.tail_verified ]_vars
=============================================================================
