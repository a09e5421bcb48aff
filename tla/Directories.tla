---------------------------- MODULE Directories ----------------------------
(***************************************************************************)
(* One account in a real directory and what the connectors do to it        *)
(* (providers/entra.py, okta.py, active_directory.py).  A call is the set  *)
(* of results it may have: the account afterwards and what the caller      *)
(* gets.  "error" is a GraphError, which every caller catches; "raised" is *)
(* an exception it does not expect, which ends its request; "conflict" is  *)
(* a ProviderConflictError.  Which results a fault allows:                 *)
(*   "none"     nothing goes wrong                                         *)
(*   "refused"  the directory refuses, or cannot be reached                *)
(*   "lost"     something was done, and the caller is told otherwise       *)
(***************************************************************************)
EXTENDS Naturals

Kinds    == {"ENTRA", "OKTA", "ACTIVE_DIRECTORY"}
Accounts == {"none", "off", "on"}
Answers  == {"ok", "conflict", "error", "raised"}
FaultsOfACall == {"none", "refused", "lost"}

Result(account, answer) == [account |-> account, answer |-> answer]
Switch(enabled) == IF enabled THEN "on" ELSE "off"

\* Entra looks the name up, then posts the account as it shall be: the answer may be lost.
EntraCreate(account, enabled, fault) ==
    IF account # "none" THEN {Result(account, "conflict")}
    ELSE CASE fault = "none"    -> {Result(Switch(enabled), "ok")}
           [] fault = "refused" -> {Result("none", "error")}
           [] fault = "lost"    -> {Result(Switch(enabled), "error")}

\* Okta: the same shape; `activate' says whether the new account is switched on.
OktaCreate(account, enabled, fault) ==
    IF account # "none" THEN {Result(account, "conflict")}
    ELSE CASE fault = "none"    -> {Result(Switch(enabled), "ok")}
           [] fault = "refused" -> {Result("none", "error")}
           [] fault = "lost"    -> {Result(Switch(enabled), "error")}

\* Active Directory adds the object disabled, then sets its password, then enables it if
\* asked.  Refused on the way, it deletes the object again without looking whether that
\* worked; a connection that breaks on the way raises, with the object left behind.
AdCreate(account, enabled, fault) ==
    IF account # "none" THEN {Result(account, "conflict")}
    ELSE CASE fault = "none"    -> {Result(Switch(enabled), "ok")}
           [] fault = "refused" -> {Result("none", "error")}
           [] fault = "lost"    -> {Result("off", "error"), Result("off", "raised")}

CreateUser(kind, account, enabled, fault) ==
    CASE kind = "ENTRA" -> EntraCreate(account, enabled, fault)
      [] kind = "OKTA"  -> OktaCreate(account, enabled, fault)
      [] kind = "ACTIVE_DIRECTORY" -> AdCreate(account, enabled, fault)

\* One PATCH: an account that is gone is an error.
EntraEnable(account, enabled, fault) ==
    IF account = "none" \/ fault = "refused" THEN {Result(account, "error")}
    ELSE {Result(Switch(enabled), IF fault = "lost" THEN "error" ELSE "ok")}

\* One lifecycle call.
OktaEnable(account, enabled, fault) ==
    IF account = "none" \/ fault = "refused" THEN {Result(account, "error")}
    ELSE {Result(Switch(enabled), IF fault = "lost" THEN "error" ELSE "ok")}

\* Reads the flags, writes them with one bit changed; nothing to write is a success.  A
\* connection that breaks after the bind raises.
AdEnable(account, enabled, fault) ==
    IF account = "none" \/ fault = "refused" THEN {Result(account, "error")}
    ELSE IF account = Switch(enabled) THEN {Result(account, "ok")}
    ELSE {Result(Switch(enabled), IF fault = "lost" THEN "raised" ELSE "ok")}

SetUserEnabled(kind, account, enabled, fault) ==
    CASE kind = "ENTRA" -> EntraEnable(account, enabled, fault)
      [] kind = "OKTA"  -> OktaEnable(account, enabled, fault)
      [] kind = "ACTIVE_DIRECTORY" -> AdEnable(account, enabled, fault)

\* One DELETE: an account that is gone is an error.
EntraDelete(account, fault) ==
    IF account = "none" \/ fault = "refused" THEN {Result(account, "error")}
    ELSE {Result("none", IF fault = "lost" THEN "error" ELSE "ok")}

\* Two DELETEs, the first of which only switches the account off; a second that finds
\* nothing left is a success.
OktaDelete(account, fault) ==
    IF account = "none" \/ fault = "refused" THEN {Result(account, "error")}
    ELSE IF fault = "lost" THEN {Result("off", "error"), Result("none", "error")}
    ELSE {Result("none", "ok")}

\* An account that is gone is a success.
AdDelete(account, fault) ==
    IF fault = "refused" THEN {Result(account, "error")}
    ELSE {Result("none", IF fault = "lost" /\ account # "none" THEN "raised" ELSE "ok")}

DeleteUser(kind, account, fault) ==
    CASE kind = "ENTRA" -> EntraDelete(account, fault)
      [] kind = "OKTA"  -> OktaDelete(account, fault)
      [] kind = "ACTIVE_DIRECTORY" -> AdDelete(account, fault)
=============================================================================
