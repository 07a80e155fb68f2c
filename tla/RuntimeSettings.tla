--------------------------- MODULE RuntimeSettings ---------------------------
(***************************************************************************)
(* The settings an administrator changes while the platform runs: language *)
(* model provider, keys, Slack channel (api/v1/llm_settings,               *)
(* api/v1/slack_settings, services/settings_store).  They live twice: as   *)
(* attributes of the settings object of the API process, assigned one by   *)
(* one while the update waits for the database, and as rows of             *)
(* system_settings, written by the transaction of the update.  A start     *)
(* takes the rows over the environment's defaults.  Two updates interleave *)
(* at every await; PostgreSQL serialises their rows, nothing serialises    *)
(* the attributes.                                                         *)
(***************************************************************************)
EXTENDS Integers, Sequences, FiniteSets

CONSTANTS SettingKeys,   \* in the order the handler looks at them
          SettingValues, \* what may be set, besides the empty string
          Updates,       \* requests to update
          MaxRestarts    \* bound: restarts of the API process

VARIABLES attribute, \* the settings object of the API process
          row,       \* committed rows of system_settings
          update,    \* the requests
          clean,     \* no overlap, failure or cleared key since the last start
          restarts   \* bound

settingVars == <<attribute, row, update, clean, restarts>>

Empty == "empty"
Default == "default"          \* what the environment gives
NoRow == "no_row"
Unset == "unset"              \* the field is absent from the body
Stored == SettingValues \cup {Empty}

Keys == { SettingKeys[i] : i \in DOMAIN SettingKeys }

ASSUME SettingAssumption ==
  /\ SettingKeys \in Seq(Keys)
  /\ \A i, j \in DOMAIN SettingKeys : SettingKeys[i] = SettingKeys[j] => i = j
  /\ {Empty, Default, NoRow, Unset} \cap SettingValues = {}
  /\ MaxRestarts \in Nat

\* apply_llm_settings_from_db: a row counts when its value is not empty.
Applied(rows, k) == IF rows[k] \in {NoRow, Empty} THEN Default ELSE rows[k]
AfterStart(rows) == [k \in Keys |-> Applied(rows, k)]

NoUpdate == [ pc |-> "idle", body |-> [k \in Keys |-> Unset], at |-> 1,
              pending |-> [k \in Keys |-> Unset],   \* ORM objects not flushed
              insert |-> {},                        \* of these, the new ones
              flushed |-> [k \in Keys |-> Unset] ]  \* written, not committed

InFlight == { u \in Updates : update[u].pc \in {"assign", "select"} }

SettingInit ==
  /\ attribute = [k \in Keys |-> Default]
  /\ row = [k \in Keys |-> NoRow]
  /\ update = [u \in Updates |-> NoUpdate]
  /\ clean = TRUE
  /\ restarts = 0

-----------------------------------------------------------------------------
\* PUT /settings/llm or /settings/slack; require_role has been passed.
RequestUpdate(u, body) ==
  /\ update[u].pc = "idle"
  /\ update' = [update EXCEPT ![u] = [NoUpdate EXCEPT !.pc = "assign", !.body = body]]
  /\ clean' = (clean /\ InFlight = {} /\ \A k \in Keys : body[k] # Empty)
  /\ UNCHANGED <<attribute, row, restarts>>

\* The next field that is given: the attribute is assigned before the row is
\* looked up.
MutAssign(k, value) == attribute[k]
Assign(k, value) == value

AssignField(u) ==
  LET m == update[u]  k == SettingKeys[m.at] IN
  /\ m.pc = "assign" /\ m.at <= Len(SettingKeys)
  /\ IF m.body[k] = Unset
     THEN /\ update' = [update EXCEPT ![u].at = @ + 1]
          /\ UNCHANGED attribute
     ELSE /\ attribute' = [attribute EXCEPT ![k] = Assign(k, m.body[k])]
          /\ update' = [update EXCEPT ![u].pc = "select"]
  /\ UNCHANGED <<row, clean, restarts>>

\* Writing what is pending waits for whoever has written the same row and not
\* committed; an INSERT then finds the key taken.
FlushWaits(u) ==
  \E k \in Keys : /\ update[u].pending[k] # Unset
                  /\ \E v \in InFlight \ {u} : update[v].flushed[k] # Unset
Taken(u) == \E k \in update[u].insert : row[k] # NoRow
Flushed(m) == [k \in Keys |-> IF m.pending[k] # Unset THEN m.pending[k] ELSE m.flushed[k]]

\* The session is rolled back; the attributes stay as assigned.
FailUpdate(u) ==
  /\ update' = [update EXCEPT ![u] = [NoUpdate EXCEPT !.pc = "failed"]]
  /\ clean' = FALSE
  /\ UNCHANGED <<attribute, row, restarts>>

\* save_setting: the SELECT flushes what came before it, then finds the row or
\* not; a row that already holds the value is left alone.
SelectRow(u) ==
  LET m == update[u]  k == SettingKeys[m.at] IN
  /\ m.pc = "select"
  /\ ~FlushWaits(u)
  /\ IF Taken(u) THEN FailUpdate(u)
     ELSE /\ update' = [update EXCEPT ![u] =
               [ m EXCEPT !.pc = "assign", !.at = @ + 1,
                          !.flushed = Flushed(m),
                          !.insert = IF row[k] = NoRow THEN {k} ELSE {},
                          !.pending = [j \in Keys |-> IF j = k /\ row[k] # m.body[k]
                                                      THEN m.body[k] ELSE Unset] ]]
          /\ UNCHANGED <<attribute, row, clean, restarts>>

CommitUpdate(u) ==
  LET m == update[u] IN
  /\ m.pc = "assign" /\ m.at > Len(SettingKeys)
  /\ ~FlushWaits(u)
  /\ IF Taken(u) THEN FailUpdate(u)
     ELSE /\ row' = [k \in Keys |-> IF Flushed(m)[k] # Unset THEN Flushed(m)[k] ELSE row[k]]
          /\ update' = [update EXCEPT ![u] = [NoUpdate EXCEPT !.pc = "done"]]
          /\ UNCHANGED <<attribute, clean, restarts>>

\* The database fails under the update.
LoseUpdate(u) == u \in InFlight /\ FailUpdate(u)

\* lifespan() goes on with the defaults when it cannot read the rows.
StartValues(rows, reachable) == AfterStart(IF reachable THEN rows ELSE [k \in Keys |-> NoRow])

\* The API process dies and starts again.
RestartProcess(reachable) ==
  /\ restarts < MaxRestarts
  /\ restarts' = restarts + 1
  /\ attribute' = StartValues(row, reachable)
  /\ update' = [u \in Updates |-> IF u \in InFlight THEN NoUpdate ELSE update[u]]
  /\ clean' = reachable
  /\ UNCHANGED row

SettingNext ==
  \/ \E u \in Updates :
       \/ \E body \in [Keys -> Stored \cup {Unset}] : RequestUpdate(u, body)
       \/ AssignField(u)
       \/ SelectRow(u)
       \/ CommitUpdate(u)
       \/ LoseUpdate(u)
  \/ \E reachable \in BOOLEAN : RestartProcess(reachable)

SettingSpec == SettingInit /\ [][SettingNext]_settingVars

-----------------------------------------------------------------------------
SettingTypeOK ==
  /\ attribute \in [Keys -> Stored \cup {Default}]
  /\ row \in [Keys -> Stored \cup {NoRow}]
  /\ clean \in BOOLEAN /\ restarts \in 0..MaxRestarts
  /\ \A u \in Updates : /\ update[u].pc \in {"idle", "assign", "select", "done", "failed"}
                        /\ update[u].at \in 1..(Len(SettingKeys) + 1)
                        /\ update[u].insert \subseteq Keys

\* The docstring of update_llm_settings: changes "are applied in-memory AND
\* persisted to DB so they survive restarts".  They do as long as the updates
\* did not overlap, fail, or clear a key: whenever none is in flight, a start
\* would come up with exactly the settings in use.
SettingsSurviveRestart ==
  clean /\ InFlight = {} => attribute = AfterStart(row)
=============================================================================
