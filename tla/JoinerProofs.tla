------------------------------ MODULE JoinerProofs ------------------------------
(***************************************************************************)
(* MCJoiner, and what it is made of: the privileged accounts of a person   *)
(* who is there (PrivilegedAccounts), for any account types, requests and  *)
(* number of handlers, then the joiners.                                   *)
(*                                                                         *)
(* A handler that makes a privileged account, or writes to its row, read   *)
(* the request or the row some time ago.  It is right because what it      *)
(* relied on is never taken back: a request keeps its type, a linked row   *)
(* stays linked, and what was agreed to stays agreed (Kept; AgreedInv).    *)
(* One handler at a time, accounts, requests and rows move together        *)
(* (PrivilegedAlone).                                                      *)
(*                                                                         *)
(* Of the joiners themselves: JoinerInv is kept whatever interleaves,      *)
(* AloneJoiner while one handler is under way at a time.  It says what     *)
(* each phase's copy of the row and its unwritten account rows have to do  *)
(* with the accounts (Flight), and each status with the targets (Regular). *)
(*                                                                         *)
(* Last, MCIntake: the people whom imports bring in, for any number of     *)
(* imports, files and people.                                              *)
(***************************************************************************)
EXTENDS MCJoiner, MCIntake, FiniteSetTheorems, WellFoundedInduction, TLAPS

\* The instance counts as this module does.
LEMMA SameCount == ASSUME NEW S PROVE Privileged!Cardinality(S) = Cardinality(S)
BY DEF Privileged!Cardinality, Cardinality


\* What handler o relies on.
Carries(o) ==
    /\ o.phase \in {"create", "save"} => /\ request[o.request] # Privileged!Absent /\ request[o.request].type = o.type
                                         /\ o.type \in agreed
    /\ o.phase = "reject" => request[o.request] # Privileged!Absent
    /\ o.phase \in {"switch", "record", "note"} => Privileged!Linked(o.type)
    /\ o.phase \in {"leave", "note"} => \A t \in o.todo : Privileged!Linked(t)

AgreedInv == Privileged!TypeOK /\ Privileged!MadeAsAgreed /\ \A p \in Privileged!Procs : Carries(task[p])

\* What no step takes back.
Kept == /\ \A r \in Asked : request[r] # Privileged!Absent => request'[r] # Privileged!Absent /\ request'[r].type = request[r].type
        /\ \A t \in Types : Privileged!Linked(t) => Privileged!Linked(t)'
        /\ agreed \subseteq agreed'

LEMMA IdleCarries == Privileged!Idle \in Privileged!Handler \cup {Privileged!Idle} /\ Carries(Privileged!Idle)
BY DEF Privileged!Idle, Carries

LEMMA CarriesOn ==
    ASSUME Privileged!TypeOK, Kept, NEW o \in Privileged!Handler \cup {Privileged!Idle}, Carries(o)
    PROVE  Carries(o)'
<1>1. o.phase \in {"create", "save", "reject"} => o.request \in Asked
    BY DEF Privileged!Handler, Privileged!Idle
<1>2. o.phase \in {"switch", "record", "note"} => o.type \in Types
    BY DEF Privileged!Handler, Privileged!Idle
<1>3. o.phase \in {"leave", "note"} => o.todo \subseteq Types
    BY DEF Privileged!Handler, Privileged!Idle
<1>. QED
    BY <1>1, <1>2, <1>3 DEF Carries, Kept

\* A step in which handler p becomes o, if any does.
LEMMA Moves ==
    ASSUME AgreedInv, Kept, NEW p \in Privileged!Procs, NEW o \in Privileged!Handler \cup {Privileged!Idle}, Carries(o)',
           task' = task \/ task' = [task EXCEPT ![p] = o]
    PROVE  task' \in [Privileged!Procs -> Privileged!Handler \cup {Privileged!Idle}] /\ \A x \in Privileged!Procs : Carries(task[x])'
<1>1. task' \in [Privileged!Procs -> Privileged!Handler \cup {Privileged!Idle}]
    BY DEF AgreedInv, Privileged!TypeOK
<1>2. ASSUME NEW x \in Privileged!Procs PROVE Carries(task[x])'
    <2>1. Carries(task[x]) /\ task[x] \in Privileged!Handler \cup {Privileged!Idle}
        BY DEF AgreedInv, Privileged!TypeOK
    <2>2. task'[x] = task[x] \/ task'[x] = o
        BY DEF AgreedInv, Privileged!TypeOK
    <2>3. CASE task'[x] = task[x]
        <3>1. \A h \in Privileged!Handler \cup {Privileged!Idle} : Carries(h) => Carries(h)'
            BY CarriesOn DEF AgreedInv
        <3>. QED
            BY <2>1, <2>3, <3>1 DEF Carries, Privileged!Linked
    <2>4. CASE task'[x] = o
        BY <2>4 DEF Carries, Privileged!Linked
    <2>. QED
        BY <2>2, <2>3, <2>4
<1>. QED
    BY <1>1, <1>2

Shape == /\ kind \in Privileged!Kinds /\ policy \subseteq Types /\ request \in [Asked -> Privileged!Request \cup {Privileged!Absent}]
         /\ shadow \in [Types -> Privileged!Accounts] /\ row \in [Types -> Privileged!UserRow \cup {Privileged!Absent}]
         /\ left \in {"no", "running", "done"} /\ agreed \subseteq Types /\ since \subseteq Types

LEMMA Steps ==
    ASSUME AgreedInv, Kept, Shape', Privileged!MadeAsAgreed', NEW p \in Privileged!Procs, NEW o \in Privileged!Handler \cup {Privileged!Idle}, Carries(o)',
           task' = task \/ task' = [task EXCEPT ![p] = o]
    PROVE  AgreedInv'
<1>1. task' \in [Privileged!Procs -> Privileged!Handler \cup {Privileged!Idle}] /\ \A x \in Privileged!Procs : Carries(task[x])'
    BY Moves
<1>. QED
    BY <1>1 DEF AgreedInv, Privileged!TypeOK, Shape

\* A step that changes nothing but who is under way, the counters and what was agreed to.
LEMMA Stays ==
    ASSUME AgreedInv, request' = request, shadow' = shadow, row' = row, kind' = kind,
           policy' \subseteq Types, left' \in {"no", "running", "done"}, since' = since,
           agreed \subseteq agreed', agreed' \subseteq Types
    PROVE  Kept /\ Shape' /\ Privileged!MadeAsAgreed'
BY DEF AgreedInv, Privileged!TypeOK, Kept, Shape, Privileged!MadeAsAgreed, Privileged!Linked

-----------------------------------------------------------------------------
\* What the directory does to an account that is not there, or to one of the kinds there are.
LEMMA CreateTyped ==
    ASSUME NEW k \in Privileged!Kinds, NEW a \in Privileged!Accounts, NEW f \in Privileged!FaultsOfACall, NEW r \in Privileged!CreateUser(k, a, TRUE, f)
    PROVE  r.account \in Privileged!Accounts
BY DEF Privileged!Kinds, Privileged!Accounts, Privileged!FaultsOfACall, Privileged!CreateUser, Privileged!EntraCreate, Privileged!OktaCreate, Privileged!AdCreate, Privileged!Result, Privileged!Switch

LEMMA SwitchTyped ==
    ASSUME NEW k \in Privileged!Kinds, NEW a \in Privileged!Accounts, NEW e \in BOOLEAN, NEW f \in Privileged!FaultsOfACall,
           NEW r \in Privileged!SetUserEnabled(k, a, e, f)
    PROVE  r.account \in Privileged!Accounts /\ (a = "none" => r.account = "none")
BY DEF Privileged!Kinds, Privileged!Accounts, Privileged!FaultsOfACall, Privileged!SetUserEnabled, Privileged!EntraEnable, Privileged!OktaEnable, Privileged!AdEnable, Privileged!Result, Privileged!Switch

LEMMA SwitchOffTyped ==
    ASSUME NEW k \in Privileged!Kinds, NEW a \in Privileged!Accounts, NEW f \in Privileged!FaultsOfACall,
           NEW r \in Privileged!SetUserEnabled(k, a, FALSE, f)
    PROVE  r.account \in Privileged!Accounts /\ (a = "none" => r.account = "none")
BY DEF Privileged!Kinds, Privileged!Accounts, Privileged!FaultsOfACall, Privileged!SetUserEnabled, Privileged!EntraEnable, Privileged!OktaEnable, Privileged!AdEnable, Privileged!Result, Privileged!Switch

-----------------------------------------------------------------------------
LEMMA PolicyKeeps == ASSUME AgreedInv, NEW t \in Types, Privileged!UpdatePolicy(t) PROVE AgreedInv'
<1>1. Kept /\ Shape' /\ Privileged!MadeAsAgreed'
    BY Stays DEF Privileged!UpdatePolicy, AgreedInv, Privileged!TypeOK
<1>2. Privileged!Leaver \in Privileged!Procs /\ task' = task
    BY DEF Privileged!Procs, Privileged!UpdatePolicy
<1>. QED
    BY <1>1, <1>2, IdleCarries, Steps DEF Carries, Privileged!Idle

\* A request is made, and provisioned at once only if its policy asks for nobody.
LEMMA CreateRequestKeeps ==
    ASSUME AgreedInv, NEW q \in Callers, NEW r \in Asked, Privileged!CreateRequest(q, r) PROVE AgreedInv'
<1>1. PICK t \in Types :
        /\ request[r] = Privileged!Absent
        /\ request' = [request EXCEPT ![r] = [status |-> "PENDING_APPROVAL", type |-> t]]
        /\ task' = IF Privileged!AtOnce(t) THEN [task EXCEPT ![q] = Privileged!Provision(r, t)] ELSE task
        /\ agreed' = IF t \in policy THEN agreed ELSE agreed \cup {t}
        /\ UNCHANGED <<kind, policy, shadow, row, left, since>>
    BY DEF Privileged!CreateRequest
<1>. DEFINE new == [status |-> "PENDING_APPROVAL", type |-> t]
<1>2. /\ request \in [Asked -> Privileged!Request \cup {Privileged!Absent}] /\ new \in Privileged!Request /\ new # Privileged!Absent /\ new.status # "PROVISIONED"
      /\ new.type = t
    BY DEF AgreedInv, Privileged!TypeOK, Privileged!Request, Privileged!Statuses, Privileged!Absent
<1>3. Kept
    BY <1>1, <1>2 DEF Kept, Privileged!Linked
<1>4. Shape'
    BY <1>1, <1>2 DEF Shape, AgreedInv, Privileged!TypeOK
<1>5. Privileged!MadeAsAgreed'
    BY <1>1, <1>2 DEF Privileged!MadeAsAgreed, AgreedInv, Privileged!Linked
<1>6. Privileged!Provision(r, t) \in Privileged!Handler \cup {Privileged!Idle}
    BY DEF Privileged!Provision, Privileged!Handler
<1>7. Privileged!AtOnce(t) => Carries(Privileged!Provision(r, t))'
    BY <1>1, <1>2 DEF Privileged!AtOnce, Carries, Privileged!Provision
<1>8. q \in Privileged!Procs
    BY DEF Privileged!Procs
<1>. QED
    BY <1>1, <1>3, <1>4, <1>5, <1>6, <1>7, <1>8, IdleCarries, Steps DEF Carries, Privileged!Idle

LEMMA ApproveKeeps ==
    ASSUME AgreedInv, NEW q \in Callers, NEW r \in Asked, Privileged!ApproveRequest(q, r) PROVE AgreedInv'
<1>1. request[r] \in Privileged!Request /\ request[r] # Privileged!Absent
    BY DEF Privileged!ApproveRequest, Privileged!Pending, AgreedInv, Privileged!TypeOK, Privileged!Absent
<1>2. request[r].type \in Types
    BY <1>1 DEF Privileged!Request
<1>3. Kept /\ Shape' /\ Privileged!MadeAsAgreed'
    BY <1>2, Stays DEF Privileged!ApproveRequest, AgreedInv, Privileged!TypeOK
<1>4. Privileged!Provision(r, request[r].type) \in Privileged!Handler \cup {Privileged!Idle} /\ Carries(Privileged!Provision(r, request[r].type))'
    BY <1>1, <1>2 DEF Privileged!ApproveRequest, Privileged!Provision, Privileged!Handler, Carries
<1>. QED
    BY <1>3, <1>4, Steps DEF Privileged!ApproveRequest, Privileged!Start, Privileged!Procs

LEMMA StartRejectKeeps ==
    ASSUME AgreedInv, NEW q \in Callers, NEW r \in Asked, Privileged!StartReject(q, r) PROVE AgreedInv'
<1>. DEFINE o == [phase |-> "reject", request |-> r]
<1>1. request[r] # Privileged!Absent
    BY DEF Privileged!StartReject, Privileged!Pending, Privileged!Absent
<1>2. Kept /\ Shape' /\ Privileged!MadeAsAgreed'
    BY Stays DEF Privileged!StartReject, AgreedInv, Privileged!TypeOK
<1>3. o \in Privileged!Handler \cup {Privileged!Idle} /\ Carries(o)'
    BY <1>1 DEF Privileged!StartReject, Privileged!Handler, Carries
<1>. QED
    BY <1>2, <1>3, Steps DEF Privileged!StartReject, Privileged!Start, Privileged!Procs

\* A request whose status is written keeps its type; one that becomes PROVISIONED has its
\* account linked.
LEMMA StatusWritten ==
    ASSUME AgreedInv, NEW r \in Asked, request[r] # Privileged!Absent, NEW s \in Privileged!Statuses,
           request' = [request EXCEPT ![r].status = s]
    PROVE  /\ request' \in [Asked -> Privileged!Request \cup {Privileged!Absent}]
           /\ \A x \in Asked : request[x] # Privileged!Absent => request'[x] # Privileged!Absent /\ request'[x].type = request[x].type
           /\ \A x \in Asked : request'[x].status = "PROVISIONED" =>
                  (request[x].status = "PROVISIONED" /\ request'[x].type = request[x].type) \/ (x = r /\ s = "PROVISIONED")
<1>1. request \in [Asked -> Privileged!Request \cup {Privileged!Absent}] /\ request[r] \in Privileged!Request
    BY DEF AgreedInv, Privileged!TypeOK
<1>. DEFINE new == [request[r] EXCEPT !.status = s]
<1>2. new \in Privileged!Request /\ new.type = request[r].type /\ new.status = s
    BY <1>1 DEF Privileged!Request
<1>3. new # Privileged!Absent
    BY <1>2 DEF Privileged!Request, Privileged!Statuses, Privileged!Absent
<1>4. request' = [request EXCEPT ![r] = new]
    BY <1>1
<1>. HIDE DEF new
<1>5. \A x \in Asked : request'[x] = IF x = r THEN new ELSE request[x]
    BY <1>1, <1>4
<1>6. request' \in [Asked -> Privileged!Request \cup {Privileged!Absent}]
    BY <1>1, <1>2, <1>4
<1>7. \A x \in Asked : request[x] # Privileged!Absent => request'[x] # Privileged!Absent /\ request'[x].type = request[x].type
    BY <1>2, <1>3, <1>5
<1>8. \A x \in Asked : request'[x].status = "PROVISIONED" =>
                  (request[x].status = "PROVISIONED" /\ request'[x].type = request[x].type) \/ (x = r /\ s = "PROVISIONED")
    BY <1>2, <1>5
<1>. QED
    BY <1>6, <1>7, <1>8

LEMMA RejectKeeps == ASSUME AgreedInv, NEW q \in Callers, Privileged!RejectRequest(q) PROVE AgreedInv'
<1>1. q \in Privileged!Procs /\ task[q] \in Privileged!Handler \cup {Privileged!Idle} /\ Carries(task[q]) /\ task[q].phase = "reject"
    BY DEF Privileged!RejectRequest, AgreedInv, Privileged!TypeOK, Privileged!Procs
<1>2. task[q].request \in Asked /\ request[task[q].request] # Privileged!Absent
    BY <1>1 DEF Privileged!Handler, Privileged!Idle, Carries
<1>3. request' = [request EXCEPT ![task[q].request].status = "REJECTED"] /\ "REJECTED" \in Privileged!Statuses
    BY DEF Privileged!RejectRequest, Privileged!Statuses
<1>4. Kept
    BY <1>2, <1>3, StatusWritten DEF Privileged!RejectRequest, Kept, Privileged!Linked
<1>5. Shape'
    BY <1>2, <1>3, StatusWritten DEF Privileged!RejectRequest, Shape, AgreedInv, Privileged!TypeOK
<1>6. Privileged!MadeAsAgreed'
    BY <1>2, <1>3, StatusWritten DEF Privileged!RejectRequest, Privileged!MadeAsAgreed, AgreedInv, Privileged!Linked
<1>7. Carries(Privileged!Idle)'
    BY DEF Carries, Privileged!Idle
<1>. QED
    BY <1>1, <1>4, <1>5, <1>6, <1>7, IdleCarries, Steps DEF Privileged!RejectRequest, Privileged!Ends

-----------------------------------------------------------------------------
\* The directory answers.
LEMMA PrivilegedCallCreateKeeps == ASSUME AgreedInv, NEW q \in Callers, Privileged!CallCreate(q) PROVE AgreedInv'
<1>1. q \in Privileged!Procs /\ task[q] \in Privileged!Handler \cup {Privileged!Idle} /\ Carries(task[q]) /\ task[q].phase = "create"
    BY DEF Privileged!CallCreate, AgreedInv, Privileged!TypeOK, Privileged!Procs
<1>. PICK h : h = task[q]
    OBVIOUS
<1>2. h \in [phase : {"create", "save"}, request : Asked, type : Types, made : BOOLEAN]
    BY <1>1 DEF Privileged!Handler, Privileged!Idle
<1>3. /\ kind \in Privileged!Kinds /\ shadow \in [Types -> Privileged!Accounts] /\ h.type \in agreed
      /\ request[h.request] # Privileged!Absent /\ request[h.request].type = h.type
    BY <1>1 DEF AgreedInv, Privileged!TypeOK, Carries
<1>4. PICK f \in Privileged!FaultsOfACall : \E r \in Privileged!CreateUser(kind, shadow[h.type], TRUE, f) :
        /\ shadow' = [shadow EXCEPT ![h.type] = r.account]
        /\ since' = IF r.account = shadow[h.type] THEN since ELSE Privileged!Later(h.type)
        /\ task' = [task EXCEPT ![q] = IF r.answer = "raised" THEN Privileged!Idle
                                   ELSE [@ EXCEPT !.phase = "save", !.made = r.answer = "ok"]]
    BY DEF Privileged!CallCreate
<1>5. PICK r \in Privileged!CreateUser(kind, shadow[h.type], TRUE, f) :
        /\ shadow' = [shadow EXCEPT ![h.type] = r.account]
        /\ since' = IF r.account = shadow[h.type] THEN since ELSE Privileged!Later(h.type)
        /\ task' = [task EXCEPT ![q] = IF r.answer = "raised" THEN Privileged!Idle
                                   ELSE [@ EXCEPT !.phase = "save", !.made = r.answer = "ok"]]
    BY <1>4
<1>6. r.account \in Privileged!Accounts
    BY <1>2, <1>3, CreateTyped
<1>7. UNCHANGED <<kind, policy, request, row, left, agreed>>
    BY DEF Privileged!CallCreate
<1>8. Kept
    BY <1>7 DEF Kept, Privileged!Linked
<1>9. since' \subseteq Types
    BY <1>2, <1>5 DEF Privileged!Later, AgreedInv, Privileged!TypeOK
<1>10. Shape'
    BY <1>2, <1>3, <1>5, <1>6, <1>7, <1>9 DEF Shape, AgreedInv, Privileged!TypeOK
<1>11. Privileged!MadeAsAgreed'
    BY <1>2, <1>3, <1>5, <1>7 DEF Privileged!MadeAsAgreed, AgreedInv, Privileged!Linked
<1>. PICK ok \in BOOLEAN : ok = (r.answer = "ok")
    OBVIOUS
<1>. PICK saving : saving = [h EXCEPT !.phase = "save", !.made = ok]
    OBVIOUS
<1>12. task' = [task EXCEPT ![q] = Privileged!Idle] \/ task' = [task EXCEPT ![q] = saving]
    BY <1>5
<1>13. /\ saving \in [phase : {"create", "save"}, request : Asked, type : Types, made : BOOLEAN]
       /\ saving.phase = "save" /\ saving.request = h.request /\ saving.type = h.type
    BY <1>2
<1>14. saving \in Privileged!Handler \cup {Privileged!Idle}
    BY <1>13 DEF Privileged!Handler
<1>15. Carries(saving)'
    BY <1>3, <1>7, <1>13 DEF Carries
<1>16. Carries(Privileged!Idle)'
    BY DEF Carries, Privileged!Idle
<1>. QED
    BY <1>1, <1>8, <1>10, <1>11, <1>12, <1>14, <1>15, <1>16, IdleCarries, Steps

\* The request is settled, and the row of an account that was made is linked with it.
LEMMA SaveKeeps == ASSUME AgreedInv, NEW q \in Callers, Privileged!Save(q) PROVE AgreedInv'
<1>. DEFINE h == task[q]
            s == IF h.made THEN "PROVISIONED" ELSE "FAILED"
<1>1. q \in Privileged!Procs /\ h \in Privileged!Handler \cup {Privileged!Idle} /\ Carries(h) /\ h.phase = "save"
    BY DEF Privileged!Save, AgreedInv, Privileged!TypeOK, Privileged!Procs
<1>2. h.request \in Asked /\ h.type \in Types /\ h.made \in BOOLEAN
    BY <1>1 DEF Privileged!Handler, Privileged!Idle
<1>3. request[h.request] # Privileged!Absent /\ request[h.request].type = h.type /\ h.type \in agreed
    BY <1>1 DEF Carries
<1>4. /\ request' = [request EXCEPT ![h.request].status = s]
      /\ row' = IF h.made THEN [row EXCEPT ![h.type] = Privileged!TakesOver] ELSE row
      /\ UNCHANGED <<kind, policy, shadow, left, agreed, since>> /\ task' = [task EXCEPT ![q] = Privileged!Idle]
    BY DEF Privileged!Save, Privileged!Stored, Privileged!Ends
<1>5. s \in Privileged!Statuses
    BY DEF Privileged!Statuses
<1>6. Privileged!TakesOver \in Privileged!UserRow /\ Privileged!TakesOver # Privileged!Absent /\ Privileged!TakesOver.linked
    BY DEF Privileged!TakesOver, Privileged!UserRow, Privileged!Absent
<1>7. row \in [Types -> Privileged!UserRow \cup {Privileged!Absent}]
    BY DEF AgreedInv, Privileged!TypeOK
<1>. HIDE DEF h
<1>8. row' \in [Types -> Privileged!UserRow \cup {Privileged!Absent}]
    BY <1>2, <1>4, <1>6, <1>7
<1>. DEFINE stands(t) == row'[t] # Privileged!Absent /\ row'[t].linked
<1>9. /\ \A t \in Types : Privileged!Linked(t) => stands(t)
      /\ h.made => stands(h.type)
      /\ \A t \in Types : stands(t) => Privileged!Linked(t) \/ t = h.type
    <2>1. \A t \in Types : row'[t] = IF h.made /\ t = h.type THEN Privileged!TakesOver ELSE row[t]
        BY <1>2, <1>4, <1>7
    <2>. QED
        BY <1>2, <1>6, <2>1 DEF Privileged!Linked
<1>. HIDE DEF s
<1>10. /\ request' \in [Asked -> Privileged!Request \cup {Privileged!Absent}]
       /\ \A x \in Asked : request[x] # Privileged!Absent => request'[x] # Privileged!Absent /\ request'[x].type = request[x].type
       /\ \A x \in Asked : request'[x].status = "PROVISIONED" =>
                  (request[x].status = "PROVISIONED" /\ request'[x].type = request[x].type) \/ (x = h.request /\ s = "PROVISIONED")
    BY <1>2, <1>3, <1>4, <1>5, StatusWritten
<1>11. s = "PROVISIONED" => h.made
    BY <1>2 DEF s
<1>12. Kept
    BY <1>4, <1>9, <1>10 DEF Kept, Privileged!Linked
<1>13. Shape'
    BY <1>4, <1>8, <1>10 DEF Shape, AgreedInv, Privileged!TypeOK
<1>14. \A t \in Types : (shadow'[t] # "none" \/ Privileged!Linked(t)') => t \in agreed'
    BY <1>3, <1>4, <1>9 DEF Privileged!MadeAsAgreed, AgreedInv, Privileged!Linked
<1>15. ASSUME NEW x \in Asked, request'[x].status = "PROVISIONED" PROVE stands(request'[x].type)
    <2>1. CASE request[x].status = "PROVISIONED" /\ request'[x].type = request[x].type
        <3>1. Privileged!Linked(request[x].type) /\ request[x] # Privileged!Absent
            BY <2>1 DEF Privileged!MadeAsAgreed, AgreedInv, Privileged!Absent
        <3>2. request[x].type \in Types
            BY <3>1 DEF AgreedInv, Privileged!TypeOK, Privileged!Request
        <3>. QED
            BY <1>9, <2>1, <3>1, <3>2
    <2>2. CASE x = h.request /\ s = "PROVISIONED"
        <3>1. request'[x].type = h.type
            BY <1>3, <1>10, <2>2
        <3>. QED
            BY <1>9, <1>11, <2>2, <3>1
    <2>. HIDE DEF stands
    <2>. QED
        BY <1>10, <1>15, <2>1, <2>2
<1>16. Privileged!MadeAsAgreed'
    BY <1>14, <1>15 DEF Privileged!MadeAsAgreed, Privileged!Linked
<1>17. Carries(Privileged!Idle)'
    BY DEF Carries, Privileged!Idle
<1>. QED
    BY <1>1, <1>4, <1>12, <1>13, <1>16, <1>17, IdleCarries, Steps

-----------------------------------------------------------------------------
\* A step that writes rows without linking or unlinking any, and makes no account.
LEMMA RowsHold ==
    ASSUME AgreedInv, UNCHANGED <<kind, policy, request, agreed>>,
           shadow' \in [Types -> Privileged!Accounts], \A t \in Types : shadow[t] = "none" => shadow'[t] = "none",
           row' \in [Types -> Privileged!UserRow \cup {Privileged!Absent}],
           \A t \in Types : (row'[t] # Privileged!Absent /\ row'[t].linked) <=> Privileged!Linked(t),
           left' \in {"no", "running", "done"}, since' \subseteq Types
    PROVE  Kept /\ Shape' /\ Privileged!MadeAsAgreed'
<1>1. Kept
    BY DEF Kept, Privileged!Linked
<1>2. Shape'
    BY DEF Shape, AgreedInv, Privileged!TypeOK
<1>3. ASSUME NEW x \in Asked, request[x].status = "PROVISIONED" PROVE request[x].type \in Types
    BY <1>3 DEF AgreedInv, Privileged!TypeOK, Privileged!Request, Privileged!Absent
<1>4. Privileged!MadeAsAgreed'
    BY <1>3 DEF Privileged!MadeAsAgreed, AgreedInv, Privileged!Linked
<1>. QED
    BY <1>1, <1>2, <1>4

\* A row whose status is written.
LEMMA RowWritten ==
    ASSUME AgreedInv, NEW t \in Types, Privileged!Linked(t), NEW s \in {"ACTIVE", "DISABLED"},
           row' = [row EXCEPT ![t].status = s]
    PROVE  /\ row' \in [Types -> Privileged!UserRow \cup {Privileged!Absent}]
           /\ \A x \in Types : (row'[x] # Privileged!Absent /\ row'[x].linked) <=> Privileged!Linked(x)
<1>1. row \in [Types -> Privileged!UserRow \cup {Privileged!Absent}] /\ row[t] \in Privileged!UserRow
    BY DEF AgreedInv, Privileged!TypeOK, Privileged!Linked
<1>. PICK new : new = [row[t] EXCEPT !.status = s]
    OBVIOUS
<1>2. new \in Privileged!UserRow /\ new.linked = row[t].linked /\ new # Privileged!Absent
    <2>1. new \in Privileged!UserRow /\ new.linked = row[t].linked /\ new.status = s
        BY <1>1 DEF Privileged!UserRow
    <2>. QED
        BY <2>1 DEF Privileged!Absent
<1>3. row' = [row EXCEPT ![t] = new]
    OBVIOUS
<1>. QED
    BY <1>1, <1>2, <1>3 DEF Privileged!Linked

LEMMA SetAccountEnabledKeeps ==
    ASSUME AgreedInv, NEW q \in Callers, NEW t \in Types, Privileged!SetAccountEnabled(q, t) PROVE AgreedInv'
<1>1. PICK enabled \in BOOLEAN : task' = [task EXCEPT ![q] = [phase |-> "switch", type |-> t, enabled |-> enabled, read |-> row[t].status]]
    BY DEF Privileged!SetAccountEnabled, Privileged!Start
<1>. PICK o : o = [phase |-> "switch", type |-> t, enabled |-> enabled, read |-> row[t].status]
    OBVIOUS
<1>2. Privileged!Linked(t) /\ row[t] \in Privileged!UserRow
    BY DEF Privileged!SetAccountEnabled, Privileged!Linked, AgreedInv, Privileged!TypeOK
<1>3. Kept /\ Shape' /\ Privileged!MadeAsAgreed'
    BY Stays DEF Privileged!SetAccountEnabled, AgreedInv, Privileged!TypeOK
<1>4. o \in Privileged!Handler \cup {Privileged!Idle}
    BY <1>2 DEF Privileged!Handler, Privileged!UserRow
<1>5. Carries(o)'
    BY <1>2 DEF Privileged!SetAccountEnabled, Carries, Privileged!Linked
<1>. QED
    BY <1>1, <1>3, <1>4, <1>5, Steps DEF Privileged!Procs

LEMMA CallSwitchKeeps == ASSUME AgreedInv, NEW q \in Callers, Privileged!CallSwitch(q) PROVE AgreedInv'
<1>1. q \in Privileged!Procs /\ task[q] \in Privileged!Handler \cup {Privileged!Idle} /\ Carries(task[q]) /\ task[q].phase = "switch"
    BY DEF Privileged!CallSwitch, AgreedInv, Privileged!TypeOK, Privileged!Procs
<1>. PICK h : h = task[q]
    OBVIOUS
<1>2. h \in [phase : {"switch", "record"}, type : Types, enabled : BOOLEAN, read : {"ACTIVE", "DISABLED"}] /\ Privileged!Linked(h.type)
    BY <1>1 DEF Privileged!Handler, Privileged!Idle, Carries
<1>3. kind \in Privileged!Kinds /\ shadow \in [Types -> Privileged!Accounts] /\ row \in [Types -> Privileged!UserRow \cup {Privileged!Absent}]
    BY DEF AgreedInv, Privileged!TypeOK
<1>4. PICK f \in Privileged!FaultsOfACall : \E r \in Privileged!SetUserEnabled(kind, shadow[h.type], h.enabled, f) :
        /\ shadow' = [shadow EXCEPT ![h.type] = r.account]
        /\ since' = IF h.enabled THEN Privileged!Later(h.type) ELSE since
        /\ task' = [task EXCEPT ![q] = IF r.answer = "ok" THEN [@ EXCEPT !.phase = "record"] ELSE Privileged!Idle]
    BY DEF Privileged!CallSwitch
<1>5. PICK r \in Privileged!SetUserEnabled(kind, shadow[h.type], h.enabled, f) :
        /\ shadow' = [shadow EXCEPT ![h.type] = r.account]
        /\ since' = IF h.enabled THEN Privileged!Later(h.type) ELSE since
        /\ task' = [task EXCEPT ![q] = IF r.answer = "ok" THEN [@ EXCEPT !.phase = "record"] ELSE Privileged!Idle]
    BY <1>4
<1>6. r.account \in Privileged!Accounts /\ (shadow[h.type] = "none" => r.account = "none")
    BY <1>2, <1>3, SwitchTyped
<1>7. UNCHANGED <<kind, policy, request, row, left, agreed>>
    BY DEF Privileged!CallSwitch
<1>8. since' \subseteq Types /\ left' \in {"no", "running", "done"}
    BY <1>2, <1>5, <1>7 DEF Privileged!Later, AgreedInv, Privileged!TypeOK
<1>9. shadow' \in [Types -> Privileged!Accounts] /\ \A t \in Types : shadow[t] = "none" => shadow'[t] = "none"
    BY <1>2, <1>3, <1>5, <1>6
<1>10. Kept /\ Shape' /\ Privileged!MadeAsAgreed'
    BY <1>3, <1>7, <1>8, <1>9, RowsHold DEF Privileged!Linked
<1>. PICK o : o = [h EXCEPT !.phase = "record"]
    OBVIOUS
<1>11. /\ o \in [phase : {"switch", "record"}, type : Types, enabled : BOOLEAN, read : {"ACTIVE", "DISABLED"}]
       /\ o.phase = "record" /\ o.type = h.type
    BY <1>2
<1>12. o \in Privileged!Handler \cup {Privileged!Idle}
    BY <1>11 DEF Privileged!Handler
<1>13. Carries(o)' /\ Carries(Privileged!Idle)'
    BY <1>2, <1>7, <1>11 DEF Carries, Privileged!Linked, Privileged!Idle
<1>14. task' = [task EXCEPT ![q] = o] \/ task' = [task EXCEPT ![q] = Privileged!Idle]
    BY <1>5
<1>. QED
    BY <1>1, <1>10, <1>12, <1>13, <1>14, IdleCarries, Steps

LEMMA RecordKeeps == ASSUME AgreedInv, NEW q \in Callers, Privileged!Record(q) PROVE AgreedInv'
<1>1. q \in Privileged!Procs /\ task[q] \in Privileged!Handler \cup {Privileged!Idle} /\ Carries(task[q]) /\ task[q].phase = "record"
    BY DEF Privileged!Record, AgreedInv, Privileged!TypeOK, Privileged!Procs
<1>2. task[q].type \in Types /\ Privileged!Linked(task[q].type)
    BY <1>1 DEF Privileged!Handler, Privileged!Idle, Carries
<1>. PICK s : s = Privileged!StatusOf(Privileged!Switch(task[q].enabled))
    OBVIOUS
<1>3. s \in {"ACTIVE", "DISABLED"}
    BY DEF Privileged!StatusOf
<1>4. row' = row \/ row' = [row EXCEPT ![task[q].type].status = s]
    BY DEF Privileged!Record, Privileged!Written
<1>5. row' \in [Types -> Privileged!UserRow \cup {Privileged!Absent}] /\ \A x \in Types : (row'[x] # Privileged!Absent /\ row'[x].linked) <=> Privileged!Linked(x)
    <2>1. CASE row' = row
        BY <2>1 DEF AgreedInv, Privileged!TypeOK, Privileged!Linked
    <2>2. CASE row' = [row EXCEPT ![task[q].type].status = s]
        BY <1>2, <1>3, <2>2, RowWritten
    <2>. QED
        BY <1>4, <2>1, <2>2
<1>6. Kept /\ Shape' /\ Privileged!MadeAsAgreed'
    BY <1>5, RowsHold DEF Privileged!Record, AgreedInv, Privileged!TypeOK
<1>7. Carries(Privileged!Idle)'
    BY DEF Carries, Privileged!Idle
<1>. QED
    BY <1>1, <1>6, <1>7, IdleCarries, Steps DEF Privileged!Record, Privileged!Ends

-----------------------------------------------------------------------------
\* The leaver process, the sync, and a stop of the process.
LEMMA StartLeavingKeeps == ASSUME AgreedInv, Privileged!StartLeaving PROVE AgreedInv'
<1>. PICK o : o = [phase |-> "leave", todo |-> Privileged!ToDisable]
    OBVIOUS
<1>1. Kept /\ Shape' /\ Privileged!MadeAsAgreed'
    BY Stays DEF Privileged!StartLeaving, AgreedInv, Privileged!TypeOK
<1>2. o \in Privileged!Handler \cup {Privileged!Idle}
    BY DEF Privileged!Handler, Privileged!ToDisable
<1>3. o.phase = "leave" /\ \A t \in o.todo : Privileged!Linked(t)
    BY DEF Privileged!ToDisable
<1>4. Carries(o)'
    BY <1>3 DEF Privileged!StartLeaving, Carries, Privileged!Linked
<1>. QED
    BY <1>1, <1>2, <1>4, Steps DEF Privileged!StartLeaving, Privileged!Start, Privileged!Procs

LEMMA CallDisableKeeps == ASSUME AgreedInv, Privileged!CallDisable PROVE AgreedInv'
<1>1. /\ Privileged!Leaver \in Privileged!Procs /\ task[Privileged!Leaver] \in Privileged!Handler \cup {Privileged!Idle} /\ Carries(task[Privileged!Leaver])
      /\ task[Privileged!Leaver].phase = "leave"
    BY DEF Privileged!CallDisable, AgreedInv, Privileged!TypeOK, Privileged!Procs
<1>. PICK h : h = task[Privileged!Leaver]
    OBVIOUS
<1>2. h \in [phase : {"leave"}, todo : SUBSET Types] /\ \A t \in h.todo : Privileged!Linked(t)
    BY <1>1 DEF Privileged!Handler, Privileged!Idle, Carries
<1>3. kind \in Privileged!Kinds /\ shadow \in [Types -> Privileged!Accounts] /\ row \in [Types -> Privileged!UserRow \cup {Privileged!Absent}]
    BY DEF AgreedInv, Privileged!TypeOK
<1>4. PICK t \in task[Privileged!Leaver].todo, f \in Privileged!FaultsOfACall : \E r \in Privileged!SetUserEnabled(kind, shadow[t], FALSE, f) :
        /\ shadow' = [shadow EXCEPT ![t] = r.account]
        /\ task' = [task EXCEPT ![Privileged!Leaver] = CASE r.answer = "ok"     -> [phase |-> "note", type |-> t, todo |-> @.todo \ {t}]
                                          [] r.answer = "raised" -> Privileged!Idle
                                          [] OTHER               -> [phase |-> "leave", todo |-> @.todo \ {t}]]
    BY DEF Privileged!CallDisable
<1>5. PICK r \in Privileged!SetUserEnabled(kind, shadow[t], FALSE, f) :
        /\ shadow' = [shadow EXCEPT ![t] = r.account]
        /\ task' = [task EXCEPT ![Privileged!Leaver] = CASE r.answer = "ok"     -> [phase |-> "note", type |-> t, todo |-> @.todo \ {t}]
                                          [] r.answer = "raised" -> Privileged!Idle
                                          [] OTHER               -> [phase |-> "leave", todo |-> @.todo \ {t}]]
    BY <1>4
<1>6. t \in Types /\ Privileged!Linked(t)
    BY <1>2
<1>7. r.account \in Privileged!Accounts /\ (shadow[t] = "none" => r.account = "none")
    <2>1. shadow[t] \in Privileged!Accounts
        BY <1>3, <1>6
    <2>. QED
        BY <1>3, <2>1, SwitchOffTyped
<1>8. UNCHANGED <<kind, policy, request, row, left, agreed, since>>
    BY DEF Privileged!CallDisable
<1>9. shadow' \in [Types -> Privileged!Accounts] /\ \A x \in Types : shadow[x] = "none" => shadow'[x] = "none"
    BY <1>3, <1>5, <1>6, <1>7
<1>10. Kept /\ Shape' /\ Privileged!MadeAsAgreed'
    BY <1>3, <1>8, <1>9, RowsHold DEF Privileged!Linked, AgreedInv, Privileged!TypeOK
<1>. PICK noted : noted = [phase |-> "note", type |-> t, todo |-> h.todo \ {t}]
    OBVIOUS
<1>. PICK goesOn : goesOn = [phase |-> "leave", todo |-> h.todo \ {t}]
    OBVIOUS
<1>11. /\ goesOn \in [phase : {"leave"}, todo : SUBSET Types] /\ goesOn.phase = "leave"
       /\ goesOn.todo \subseteq h.todo
    BY <1>2
<1>12. noted \in Privileged!Handler \cup {Privileged!Idle} /\ goesOn \in Privileged!Handler \cup {Privileged!Idle}
    BY <1>2, <1>6, <1>11 DEF Privileged!Handler
<1>13. Carries(noted)' /\ Carries(Privileged!Idle)'
    BY <1>2, <1>6, <1>8 DEF Carries, Privileged!Linked, Privileged!Idle
<1>14. Carries(goesOn)'
    BY <1>2, <1>8, <1>11 DEF Carries, Privileged!Linked
<1>15. \/ task' = [task EXCEPT ![Privileged!Leaver] = noted]
       \/ task' = [task EXCEPT ![Privileged!Leaver] = Privileged!Idle]
       \/ task' = [task EXCEPT ![Privileged!Leaver] = goesOn]
    BY <1>5
<1>. QED
    BY <1>1, <1>10, <1>12, <1>13, <1>14, <1>15, IdleCarries, Steps

LEMMA NoteDisabledKeeps == ASSUME AgreedInv, Privileged!NoteDisabled PROVE AgreedInv'
<1>1. /\ Privileged!Leaver \in Privileged!Procs /\ task[Privileged!Leaver] \in Privileged!Handler \cup {Privileged!Idle} /\ Carries(task[Privileged!Leaver])
      /\ task[Privileged!Leaver].phase = "note"
    BY DEF Privileged!NoteDisabled, AgreedInv, Privileged!TypeOK, Privileged!Procs
<1>. PICK h : h = task[Privileged!Leaver]
    OBVIOUS
<1>2. h.type \in Types /\ h.todo \subseteq Types /\ Privileged!Linked(h.type) /\ \A t \in h.todo : Privileged!Linked(t)
    BY <1>1 DEF Privileged!Handler, Privileged!Idle, Carries
<1>3. row' = [row EXCEPT ![h.type].status = "DISABLED"] /\ UNCHANGED <<kind, policy, request, shadow, left, agreed, since>>
    BY DEF Privileged!NoteDisabled
<1>4. row' \in [Types -> Privileged!UserRow \cup {Privileged!Absent}] /\ \A x \in Types : (row'[x] # Privileged!Absent /\ row'[x].linked) <=> Privileged!Linked(x)
    BY <1>2, <1>3, RowWritten
<1>5. Kept /\ Shape' /\ Privileged!MadeAsAgreed'
    BY <1>3, <1>4, RowsHold DEF AgreedInv, Privileged!TypeOK
<1>. PICK o : o = [phase |-> "leave", todo |-> h.todo]
    OBVIOUS
<1>6. o \in Privileged!Handler \cup {Privileged!Idle}
    BY <1>2 DEF Privileged!Handler
<1>7. Carries(o)'
    BY <1>2, <1>4 DEF Carries, Privileged!Linked
<1>. QED
    BY <1>1, <1>5, <1>6, <1>7, Steps DEF Privileged!NoteDisabled

LEMMA FinishLeavingKeeps == ASSUME AgreedInv, Privileged!FinishLeaving PROVE AgreedInv'
<1>1. Kept /\ Shape' /\ Privileged!MadeAsAgreed'
    BY Stays DEF Privileged!FinishLeaving, AgreedInv, Privileged!TypeOK
<1>2. Carries(Privileged!Idle)'
    BY DEF Carries, Privileged!Idle
<1>. QED
    BY <1>1, <1>2, IdleCarries, Steps DEF Privileged!FinishLeaving, Privileged!Ends, Privileged!Procs

LEMMA SyncReadKeeps == ASSUME AgreedInv, Privileged!SyncRead PROVE AgreedInv'
<1>. PICK o : o = [phase |-> "sync", listed |-> shadow]
    OBVIOUS
<1>1. Kept /\ Shape' /\ Privileged!MadeAsAgreed'
    BY Stays DEF Privileged!SyncRead, AgreedInv, Privileged!TypeOK
<1>2. o \in Privileged!Handler \cup {Privileged!Idle} /\ Carries(o)'
    BY DEF Privileged!Handler, Carries, AgreedInv, Privileged!TypeOK
<1>. QED
    BY <1>1, <1>2, Steps DEF Privileged!SyncRead, Privileged!Start, Privileged!Procs

LEMMA SyncSaveKeeps == ASSUME AgreedInv, Privileged!SyncSave PROVE AgreedInv'
<1>1. row \in [Types -> Privileged!UserRow \cup {Privileged!Absent}]
    BY DEF AgreedInv, Privileged!TypeOK
<1>2. ASSUME NEW t \in Types, NEW a
      PROVE  Privileged!Upserted(t, a) \in Privileged!UserRow \cup {Privileged!Absent} /\ ((Privileged!Upserted(t, a) # Privileged!Absent /\ Privileged!Upserted(t, a).linked) <=> Privileged!Linked(t))
    <2>1. CASE a = "none"
        <3>1. Privileged!Upserted(t, a) = row[t]
            BY <2>1 DEF Privileged!Upserted
        <3>. QED
            BY <1>1, <3>1 DEF Privileged!Linked
    <2>2. CASE a # "none" /\ row[t] = Privileged!Absent
        <3>1. Privileged!Upserted(t, a) = [linked |-> FALSE, status |-> Privileged!StatusOf(a)]
            BY <2>2 DEF Privileged!Upserted
        <3>. QED
            BY <2>2, <3>1 DEF Privileged!Linked, Privileged!UserRow, Privileged!StatusOf
    <2>3. CASE a # "none" /\ row[t] # Privileged!Absent
        <3>1. Privileged!Upserted(t, a) = [row[t] EXCEPT !.status = Privileged!StatusOf(a)] /\ row[t] \in Privileged!UserRow
            BY <1>1, <2>3 DEF Privileged!Upserted
        <3>2. Privileged!StatusOf(a) \in {"ACTIVE", "DISABLED"}
            BY DEF Privileged!StatusOf
        <3>3. Privileged!Upserted(t, a) \in Privileged!UserRow /\ Privileged!Upserted(t, a).linked = row[t].linked
            BY <3>1, <3>2 DEF Privileged!UserRow
        <3>4. Privileged!Upserted(t, a) # Privileged!Absent
            BY <3>3 DEF Privileged!UserRow, Privileged!Absent
        <3>. QED
            BY <2>3, <3>3, <3>4 DEF Privileged!Linked
    <2>. QED
        BY <2>1, <2>2, <2>3
<1>3. row' = [t \in Types |-> Privileged!Upserted(t, task[Privileged!Sync].listed[t])]
    BY DEF Privileged!SyncSave
<1>4. \A t \in Types : row'[t] = Privileged!Upserted(t, task[Privileged!Sync].listed[t])
    BY <1>3
<1>5. row' \in [Types -> Privileged!UserRow \cup {Privileged!Absent}]
    BY <1>2, <1>3
<1>6. \A t \in Types : (row'[t] # Privileged!Absent /\ row'[t].linked) <=> Privileged!Linked(t)
    BY <1>2, <1>4
<1>7. Kept /\ Shape' /\ Privileged!MadeAsAgreed'
    BY <1>5, <1>6, RowsHold DEF Privileged!SyncSave, AgreedInv, Privileged!TypeOK
<1>8. Carries(Privileged!Idle)'
    BY DEF Carries, Privileged!Idle
<1>. QED
    BY <1>7, <1>8, IdleCarries, Steps DEF Privileged!SyncSave, Privileged!Ends, Privileged!Procs

LEMMA PrivilegedCrashKeeps == ASSUME AgreedInv, Privileged!Crash PROVE AgreedInv'
<1>1. Kept /\ Shape' /\ Privileged!MadeAsAgreed'
    BY Stays DEF Privileged!Crash, AgreedInv, Privileged!TypeOK
<1>2. task' \in [Privileged!Procs -> Privileged!Handler \cup {Privileged!Idle}] /\ \A x \in Privileged!Procs : task'[x] = Privileged!Idle
    BY DEF Privileged!Crash
<1>3. \A x \in Privileged!Procs : Carries(task[x])'
    BY <1>2 DEF Carries, Privileged!Idle
<1>. QED
    BY <1>1, <1>2, <1>3 DEF AgreedInv, Privileged!TypeOK, Shape

-----------------------------------------------------------------------------
LEMMA InitAgreed == Privileged!Init => AgreedInv
<1>. SUFFICES ASSUME Privileged!Init PROVE AgreedInv
    OBVIOUS
<1>1. task \in [Privileged!Procs -> Privileged!Handler \cup {Privileged!Idle}] /\ \A p \in Privileged!Procs : task[p] = Privileged!Idle
    BY DEF Privileged!Init
<1>2. Privileged!TypeOK
    BY <1>1 DEF Privileged!Init, Privileged!TypeOK, Privileged!Accounts
<1>3. Privileged!MadeAsAgreed
    BY DEF Privileged!Init, Privileged!MadeAsAgreed, Privileged!Linked, Privileged!Absent
<1>. QED
    BY <1>1, <1>2, <1>3, IdleCarries DEF AgreedInv

LEMMA NextAgreed == AgreedInv /\ [Privileged!Next]_(Privileged!vars) => AgreedInv'
<1>. SUFFICES ASSUME AgreedInv, [Privileged!Next]_(Privileged!vars) PROVE AgreedInv'
    OBVIOUS
<1>1. CASE UNCHANGED Privileged!vars
    BY <1>1 DEF Privileged!vars, AgreedInv, Privileged!TypeOK, Privileged!MadeAsAgreed, Carries, Privileged!Linked
<1>2. ASSUME NEW t \in Types, Privileged!UpdatePolicy(t) PROVE AgreedInv'
    BY <1>2, PolicyKeeps
<1>3. ASSUME NEW q \in Callers, NEW r \in Asked, Privileged!CreateRequest(q, r) \/ Privileged!ApproveRequest(q, r) \/ Privileged!StartReject(q, r)
      PROVE  AgreedInv'
    BY <1>3, CreateRequestKeeps, ApproveKeeps, StartRejectKeeps
<1>4. ASSUME NEW q \in Callers, Privileged!RejectRequest(q) \/ Privileged!CallCreate(q) \/ Privileged!Save(q) \/ Privileged!CallSwitch(q) \/ Privileged!Record(q)
      PROVE  AgreedInv'
    BY <1>4, RejectKeeps, PrivilegedCallCreateKeeps, SaveKeeps, CallSwitchKeeps, RecordKeeps
<1>5. ASSUME NEW q \in Callers, NEW t \in Types, Privileged!SetAccountEnabled(q, t) PROVE AgreedInv'
    BY <1>5, SetAccountEnabledKeeps
<1>6. CASE Privileged!StartLeaving \/ Privileged!CallDisable \/ Privileged!NoteDisabled \/ Privileged!FinishLeaving
    BY <1>6, StartLeavingKeeps, CallDisableKeeps, NoteDisabledKeeps, FinishLeavingKeeps
<1>7. CASE Privileged!SyncRead \/ Privileged!SyncSave \/ Privileged!Crash
    BY <1>7, SyncReadKeeps, SyncSaveKeeps, PrivilegedCrashKeeps
<1>. QED
    BY <1>1, <1>2, <1>3, <1>4, <1>5, <1>6, <1>7 DEF Privileged!Next

\* The strengthened invariant: besides what the two theorems below say, every handler under
\* way can rely on what it has read of its request and rows (privileged_accounts.py).
THEOREM PrivilegedInductive == Privileged!Spec => []AgreedInv
BY InitAgreed, NextAgreed, PTL DEF Privileged!Spec

\* Rows, accounts and handlers keep their shape.
THEOREM PrivilegedTyped == Privileged!Spec => []Privileged!TypeOK
<1>1. AgreedInv => Privileged!TypeOK
    BY DEF AgreedInv
<1>. QED
    BY <1>1, PrivilegedInductive, PTL

\* No privileged account comes to be that nobody agreed to, and what a request says was
\* provisioned is linked to its person, for any number of handlers, requests and faults.
THEOREM PrivilegedAgreed == Privileged!Spec => []Privileged!MadeAsAgreed
<1>1. AgreedInv => Privileged!MadeAsAgreed
    BY DEF AgreedInv
<1>. QED
    BY <1>1, PrivilegedInductive, PTL
-----------------------------------------------------------------------------
(***************************************************************************)
(* One handler at a time, no answer lost and the process not stopped:      *)
(* what a handler has read is so when it commits, so accounts, requests    *)
(* and rows move together, except for the one account that a handler has   *)
(* made or switched and not yet written down (Unsettled).                  *)
(***************************************************************************)
PrivilegedSerial  == \A p, x \in Privileged!Procs : task[p] # Privileged!Idle /\ task[x] # Privileged!Idle => p = x
PrivilegedCounted == failures \in [Privileged!Faults -> Nat]

Provisioned(t) == [status |-> "PROVISIONED", type |-> t]
NoneMade(t) == \A r \in Asked : request[r] # Provisioned(t)
OneMade(t)  == \E r \in Asked : \A x \in Asked : request[x] = Provisioned(t) <=> x = r

PrivilegedStraight(t) ==
    /\ shadow[t] = "none" => NoneMade(t)
    /\ shadow[t] # "none" => OneMade(t) /\ Privileged!Linked(t) /\ row[t].status = Privileged!StatusOf(shadow[t])

Unsettled(o, t) == /\ o.phase \in {"save", "record", "note"} /\ o.type = t
                   /\ o.phase = "save" => o.made

\* What handler o has read, or done and not written down.
Fits(o) ==
    /\ o.phase \in {"create", "save", "reject"} => Privileged!Pending(o.request)
    /\ o.phase = "save" /\ o.made => shadow[o.type] = "on" /\ NoneMade(o.type)
    /\ o.phase \in {"switch", "record"} => row[o.type].status = o.read
    /\ o.phase = "record" => shadow[o.type] = Privileged!Switch(o.enabled) /\ OneMade(o.type)
    /\ o.phase = "note" => shadow[o.type] = "off" /\ OneMade(o.type)
    /\ o.phase = "sync" => o.listed = shadow

\* The leaver process has yet to disable what is on, unless it came to be on since.
Leaving(o) == o.phase \in {"leave", "note"} =>
    /\ left = "running"
    /\ Privileged!Told /\ failures["refused"] = 0 => \A t \in Types : shadow[t] = "on" => t \in since \cup o.todo

PrivilegedAlone ==
    /\ PrivilegedSerial /\ PrivilegedCounted
    /\ Privileged!Told => /\ \A t \in Types : (\A p \in Privileged!Procs : ~Unsettled(task[p], t)) => PrivilegedStraight(t)
               /\ \A p \in Privileged!Procs : Fits(task[p])
    /\ Leaving(task[Privileged!Leaver]) /\ Privileged!NoneSurvive

LEMMA InitAlone == Privileged!Init => PrivilegedAlone
<1>. SUFFICES ASSUME Privileged!Init PROVE PrivilegedAlone
    OBVIOUS
<1>1. \A p \in Privileged!Procs : task[p] = Privileged!Idle
    BY DEF Privileged!Init
<1>2. Privileged!Leaver \in Privileged!Procs /\ task[Privileged!Leaver] = Privileged!Idle
    BY <1>1 DEF Privileged!Procs
<1>3. PrivilegedSerial /\ PrivilegedCounted
    BY <1>1 DEF Privileged!Init, PrivilegedSerial, PrivilegedCounted
<1>4. \A t \in Types : PrivilegedStraight(t)
    BY DEF Privileged!Init, PrivilegedStraight, NoneMade, Provisioned, Privileged!Absent
<1>5. Fits(Privileged!Idle) /\ Leaving(Privileged!Idle)
    BY DEF Fits, Leaving, Privileged!Idle
<1>6. Privileged!NoneSurvive
    BY DEF Privileged!Init, Privileged!NoneSurvive
<1>. QED
    BY <1>1, <1>2, <1>3, <1>4, <1>5, <1>6 DEF PrivilegedAlone

\* Nothing is under way beside a handler that starts, goes on or ends.
LEMMA Acting ==
    ASSUME AgreedInv, PrivilegedAlone, PrivilegedSerial', NEW p \in Privileged!Procs, NEW o, task' = [task EXCEPT ![p] = o],
           task[p] # Privileged!Idle \/ o # Privileged!Idle
    PROVE  task'[p] = o /\ \A x \in Privileged!Procs \ {p} : task[x] = Privileged!Idle /\ task'[x] = Privileged!Idle
<1>1. task'[p] = o /\ \A x \in Privileged!Procs \ {p} : task'[x] = task[x]
    BY DEF AgreedInv, Privileged!TypeOK
<1>2. ASSUME NEW x \in Privileged!Procs \ {p} PROVE task[x] = Privileged!Idle
    BY <1>1 DEF PrivilegedAlone, PrivilegedSerial
<1>. QED
    BY <1>1, <1>2

\* What is so of the accounts while nobody but p is under way.
LEMMA Before ==
    ASSUME PrivilegedAlone, Privileged!Told, NEW p \in Privileged!Procs, \A x \in Privileged!Procs \ {p} : task[x] = Privileged!Idle
    PROVE  Fits(task[p]) /\ \A t \in Types : ~Unsettled(task[p], t) => PrivilegedStraight(t)
<1>1. \A t : ~Unsettled(Privileged!Idle, t)
    BY DEF Unsettled, Privileged!Idle
<1>2. ASSUME NEW t \in Types, ~Unsettled(task[p], t) PROVE PrivilegedStraight(t)
    <2>1. \A x \in Privileged!Procs : ~Unsettled(task[x], t)
        BY <1>1, <1>2
    <2>. QED
        BY <2>1 DEF PrivilegedAlone
<1>. QED
    BY <1>2 DEF PrivilegedAlone

\* Enough for the next state to be as PrivilegedAlone has it: of the accounts, and of who left.
After(o) == Privileged!Told => Fits(o) /\ \A t \in Types : ~Unsettled(o, t) => PrivilegedStraight(t)

LEMMA PrivilegedSettles ==
    ASSUME PrivilegedSerial', PrivilegedCounted', NEW p \in Privileged!Procs, NEW o, task'[p] = o, \A x \in Privileged!Procs \ {p} : task'[x] = Privileged!Idle,
           After(o)', Leaving(task[Privileged!Leaver])', Privileged!NoneSurvive'
    PROVE  PrivilegedAlone'
<1>1. Fits(Privileged!Idle)'
    BY DEF Fits, Privileged!Idle
<1>2. ASSUME Privileged!Told', NEW t \in Types, \A x \in Privileged!Procs : ~Unsettled(task'[x], t) PROVE PrivilegedStraight(t)'
    <2>1. ~Unsettled(o, t)
        BY <1>2
    <2>. QED
        BY <1>2, <2>1 DEF After, Unsettled
<1>3. ASSUME Privileged!Told', NEW x \in Privileged!Procs PROVE Fits(task[x])'
    <2>1. CASE x = p
        <3>1. Fits(o)'
            BY <1>3 DEF After
        <3>. QED
            BY <2>1, <3>1 DEF Fits, Privileged!Pending, NoneMade, OneMade, Provisioned
    <2>2. CASE x # p
        BY <1>1, <2>2 DEF Fits, Privileged!Pending, NoneMade, OneMade, Provisioned
    <2>. QED
        BY <2>1, <2>2
<1>4. Privileged!Told' => (\A t \in Types : (\A x \in Privileged!Procs : ~Unsettled(task[x], t)) => PrivilegedStraight(t))'
    BY <1>2 DEF Unsettled
<1>. QED
    BY <1>3, <1>4 DEF PrivilegedAlone

\* An account that is on after the step was on before, or came to be on since.
LEMMA Leaves ==
    ASSUME PrivilegedAlone, left' = left, since \subseteq since',
           Privileged!Told' /\ failures'["refused"] = 0 => Privileged!Told /\ failures["refused"] = 0,
           \A t \in Types : shadow'[t] = "on" => shadow[t] = "on" \/ t \in since' \/ left = "no",
           task'[Privileged!Leaver] = task[Privileged!Leaver] \/ task'[Privileged!Leaver].phase \notin {"leave", "note"}
    PROVE  Leaving(task[Privileged!Leaver])' /\ Privileged!NoneSurvive'
<1>1. Privileged!NoneSurvive'
    BY DEF PrivilegedAlone, Privileged!NoneSurvive
<1>2. Leaving(task[Privileged!Leaver])'
    <2>1. CASE task'[Privileged!Leaver] = task[Privileged!Leaver]
        BY <2>1 DEF PrivilegedAlone, Leaving
    <2>2. CASE task'[Privileged!Leaver].phase \notin {"leave", "note"}
        BY <2>2 DEF Leaving
    <2>. QED
        BY <2>1, <2>2
<1>. QED
    BY <1>1, <1>2

\* What a fault counted says of the time before.
LEMMA Counts ==
    ASSUME PrivilegedCounted, NEW f \in Privileged!FaultsOfACall, Privileged!Goes(f)
    PROVE  /\ PrivilegedCounted' /\ (Privileged!Told' => Privileged!Told /\ f # "lost")
           /\ Privileged!Told' /\ failures'["refused"] = 0 => Privileged!Told /\ failures["refused"] = 0 /\ f = "none"
<1>1. failures \in [Privileged!Faults -> Nat] /\ {"refused", "lost", "crash"} \subseteq Privileged!Faults
    BY DEF PrivilegedCounted, Privileged!Faults
<1>2. CASE f = "none"
    BY <1>1, <1>2 DEF Privileged!Goes, PrivilegedCounted, Privileged!Told
<1>3. CASE f # "none"
    <2>1. failures' = [failures EXCEPT ![f] = @ + 1] /\ f \in {"refused", "lost"}
        BY <1>3 DEF Privileged!Goes, Privileged!Count, Privileged!FaultsOfACall
    <2>2. failures' \in [Privileged!Faults -> Nat]
        BY <1>1, <2>1
    <2>3. failures'[f] = failures[f] + 1 /\ \A g \in Privileged!Faults \ {f} : failures'[g] = failures[g]
        BY <1>1, <2>1
    <2>. QED
        BY <1>1, <2>1, <2>2, <2>3 DEF PrivilegedCounted, Privileged!Told
<1>. QED
    BY <1>2, <1>3

-----------------------------------------------------------------------------
\* What the directory answers, when no answer is lost.
LEMMA SwitchTells ==
    ASSUME NEW k \in Privileged!Kinds, NEW a \in Privileged!Accounts, NEW e \in BOOLEAN, NEW f \in Privileged!FaultsOfACall, f # "lost",
           NEW r \in Privileged!SetUserEnabled(k, a, e, f)
    PROVE  /\ r.answer # "raised"
           /\ IF r.answer = "ok" THEN a # "none" /\ r.account = Privileged!Switch(e) ELSE r.account = a
           /\ f = "none" => r.answer = "ok" \/ a = "none"
BY DEF Privileged!Kinds, Privileged!Accounts, Privileged!FaultsOfACall, Privileged!SetUserEnabled, Privileged!EntraEnable, Privileged!OktaEnable, Privileged!AdEnable, Privileged!Result, Privileged!Switch

\* Whatever is refused or lost, an account that is on after a call to switch it off was on.
LEMMA PrivilegedSwitchedOn ==
    ASSUME NEW k \in Privileged!Kinds, NEW a \in Privileged!Accounts, NEW e \in BOOLEAN, NEW f \in Privileged!FaultsOfACall,
           NEW r \in Privileged!SetUserEnabled(k, a, e, f), r.account = "on", ~e
    PROVE  a = "on"
BY DEF Privileged!Kinds, Privileged!Accounts, Privileged!FaultsOfACall, Privileged!SetUserEnabled, Privileged!EntraEnable, Privileged!OktaEnable, Privileged!AdEnable, Privileged!Result, Privileged!Switch

-----------------------------------------------------------------------------
(***************************************************************************)
(* The steps, one handler at a time.                                       *)
(***************************************************************************)
\* Requests change, but none comes to be PROVISIONED, nor ceases to be.
AsMade == \A x \in Asked, t \in Types : request'[x] = Provisioned(t) <=> request[x] = Provisioned(t)

LEMMA MadeStays ==
    ASSUME AsMade, NEW t \in Types
    PROVE  (OneMade(t) => OneMade(t)') /\ (NoneMade(t) => NoneMade(t)')
BY DEF AsMade, OneMade, NoneMade, Provisioned

LEMMA StraightStays ==
    ASSUME AsMade, NEW t \in Types, PrivilegedStraight(t), shadow'[t] = shadow[t], row'[t] = row[t]
    PROVE  PrivilegedStraight(t)'
<1>1. (OneMade(t) => OneMade(t)') /\ (NoneMade(t) => NoneMade(t)')
    BY MadeStays
<1>. QED
    BY <1>1 DEF PrivilegedStraight, Privileged!Linked

LEMMA Unchanging == ASSUME request' = request PROVE AsMade
BY DEF AsMade

\* A step that starts or ends nothing: a policy, or a request that waits.
LEMMA PrivilegedAsideAlone ==
    ASSUME AgreedInv, PrivilegedAlone, task' = task, UNCHANGED <<shadow, row, left, since>>, UNCHANGED failures, AsMade,
           \A x \in Asked : Privileged!Pending(x) => Privileged!Pending(x)'
    PROVE  PrivilegedAlone'
<1>1. PrivilegedSerial' /\ PrivilegedCounted' /\ (Privileged!Told' <=> Privileged!Told)
    BY DEF PrivilegedAlone, PrivilegedSerial, PrivilegedCounted, Privileged!Told
<1>2. Leaving(task[Privileged!Leaver])' /\ Privileged!NoneSurvive'
    BY <1>1, Leaves
<1>3. ASSUME Privileged!Told, NEW t \in Types, \A x \in Privileged!Procs : ~Unsettled(task[x], t) PROVE PrivilegedStraight(t)'
    <2>1. PrivilegedStraight(t)
        BY <1>3 DEF PrivilegedAlone
    <2>. QED
        BY <2>1, StraightStays
<1>4. ASSUME Privileged!Told, NEW x \in Privileged!Procs PROVE Fits(task[x])'
    <2>. PICK h \in Privileged!Handler \cup {Privileged!Idle} : h = task[x]
        BY DEF AgreedInv, Privileged!TypeOK
    <2>1. Fits(h)
        BY <1>4 DEF PrivilegedAlone
    <2>2. h.phase \in {"create", "save", "reject"} => h.request \in Asked
        BY DEF Privileged!Handler, Privileged!Idle
    <2>3. h.phase \in {"save", "record", "note"} => h.type \in Types
        BY DEF Privileged!Handler, Privileged!Idle
    <2>4. h.phase \in {"save", "record", "note"} => (OneMade(h.type) => OneMade(h.type)') /\ (NoneMade(h.type) => NoneMade(h.type)')
        BY <2>3, MadeStays
    <2>5. Fits(h)'
        BY <2>1, <2>2, <2>4 DEF Fits
    <2>. QED
        BY <2>5 DEF Fits, Privileged!Pending, NoneMade, OneMade, Provisioned
<1>5. Privileged!Told' => (\A t \in Types : (\A x \in Privileged!Procs : ~Unsettled(task[x], t)) => PrivilegedStraight(t))'
    BY <1>1, <1>3 DEF Unsettled
<1>. QED
    BY <1>1, <1>2, <1>4, <1>5 DEF PrivilegedAlone

LEMMA PolicyAlone == ASSUME AgreedInv, PrivilegedAlone, NEW t \in Types, Privileged!UpdatePolicy(t) PROVE PrivilegedAlone'
BY PrivilegedAsideAlone, Unchanging DEF Privileged!UpdatePolicy, Privileged!Pending

\* A step of p that touches accounts, rows and requests not at all, or only settles requests
\* as FAILED or REJECTED, or makes new ones.
LEMMA QuietStep ==
    ASSUME AgreedInv, PrivilegedAlone, PrivilegedSerial', UNCHANGED <<shadow, row, left, since, failures>>, AsMade,
           NEW p \in Privileged!Procs, NEW o, task' = [task EXCEPT ![p] = o], task[p] # Privileged!Idle \/ o # Privileged!Idle,
           o.phase \notin {"leave", "note"}, \A t \in Types : ~Unsettled(task[p], t),
           Privileged!Told => Fits(o)'
    PROVE  PrivilegedAlone'
<1>1. task'[p] = o /\ \A x \in Privileged!Procs \ {p} : task[x] = Privileged!Idle /\ task'[x] = Privileged!Idle
    BY Acting
<1>2. PrivilegedCounted' /\ (Privileged!Told' <=> Privileged!Told)
    BY DEF PrivilegedAlone, PrivilegedCounted, Privileged!Told
<1>3. Privileged!Leaver \in Privileged!Procs
    BY DEF Privileged!Procs
<1>4. Leaving(task[Privileged!Leaver])' /\ Privileged!NoneSurvive'
    BY <1>1, <1>2, <1>3, Leaves
<1>5. ASSUME Privileged!Told, NEW t \in Types PROVE PrivilegedStraight(t)'
    <2>1. PrivilegedStraight(t)
        BY <1>1, <1>5, Before
    <2>. QED
        BY <2>1, StraightStays
<1>6. After(o)'
    BY <1>2, <1>5 DEF After
<1>. QED
    BY <1>1, <1>2, <1>4, <1>6, PrivilegedSettles

LEMMA IdleSettled == \A t : ~Unsettled(Privileged!Idle, t)
BY DEF Unsettled, Privileged!Idle

LEMMA CreateRequestAlone ==
    ASSUME AgreedInv, PrivilegedAlone, PrivilegedSerial', NEW q \in Callers, NEW r \in Asked, Privileged!CreateRequest(q, r) PROVE PrivilegedAlone'
<1>1. PICK t \in Types :
        /\ request[r] = Privileged!Absent /\ task[q] = Privileged!Idle
        /\ request' = [request EXCEPT ![r] = [status |-> "PENDING_APPROVAL", type |-> t]]
        /\ task' = IF Privileged!AtOnce(t) THEN [task EXCEPT ![q] = Privileged!Provision(r, t)] ELSE task
        /\ UNCHANGED <<shadow, row, left, since, failures>>
    BY DEF Privileged!CreateRequest, Privileged!MayStart
<1>2. request \in [Asked -> Privileged!Request \cup {Privileged!Absent}]
    BY DEF AgreedInv, Privileged!TypeOK
<1>3. \A x \in Asked : request'[x] = IF x = r THEN [status |-> "PENDING_APPROVAL", type |-> t] ELSE request[x]
    BY <1>1, <1>2
<1>4. AsMade
    BY <1>1, <1>3 DEF AsMade, Provisioned, Privileged!Absent
<1>5. \A x \in Asked : Privileged!Pending(x) => Privileged!Pending(x)'
    BY <1>3 DEF Privileged!Pending
<1>6. q \in Privileged!Procs
    BY DEF Privileged!Procs
<1>7. CASE Privileged!AtOnce(t)
    <2>. PICK o : o = Privileged!Provision(r, t)
        OBVIOUS
    <2>1. o.phase = "create" /\ o.request = r /\ o # Privileged!Idle
        BY DEF Privileged!Provision, Privileged!Idle
    <2>2. task' = [task EXCEPT ![q] = o]
        BY <1>1, <1>7
    <2>3. Fits(o)'
        BY <1>3, <2>1 DEF Fits, Privileged!Pending
    <2>. QED
        BY <1>1, <1>4, <1>6, <2>1, <2>2, <2>3, IdleSettled, QuietStep
<1>8. CASE ~Privileged!AtOnce(t)
    BY <1>1, <1>4, <1>5, <1>8, PrivilegedAsideAlone
<1>. QED
    BY <1>7, <1>8

LEMMA PrivilegedStarts ==
    ASSUME AgreedInv, PrivilegedAlone, PrivilegedSerial', NEW q \in Callers, NEW r \in Asked, Privileged!ApproveRequest(q, r) \/ Privileged!StartReject(q, r)
    PROVE  PrivilegedAlone'
<1>1. Privileged!Pending(r) /\ task[q] = Privileged!Idle /\ UNCHANGED <<request, shadow, row, left, since, failures>>
    BY DEF Privileged!ApproveRequest, Privileged!StartReject, Privileged!Start, Privileged!MayStart
<1>2. PICK o \in {Privileged!Provision(r, request[r].type), [phase |-> "reject", request |-> r]} : task' = [task EXCEPT ![q] = o]
    BY DEF Privileged!ApproveRequest, Privileged!StartReject, Privileged!Start
<1>3. o.phase \in {"create", "reject"} /\ o.request = r /\ o # Privileged!Idle
    BY <1>2 DEF Privileged!Provision, Privileged!Idle
<1>4. Fits(o)'
    BY <1>1, <1>3 DEF Fits, Privileged!Pending
<1>5. q \in Privileged!Procs
    BY DEF Privileged!Procs
<1>. QED
    BY <1>1, <1>2, <1>3, <1>4, <1>5, IdleSettled, Unchanging, QuietStep

LEMMA IdleFits == Fits(Privileged!Idle)' /\ Privileged!Idle.phase \notin {"leave", "note"}
BY DEF Fits, Privileged!Idle

\* Rejecting what is pending changes nothing of what was made.
LEMMA RejectAlone == ASSUME AgreedInv, PrivilegedAlone, PrivilegedSerial', NEW q \in Callers, Privileged!RejectRequest(q) PROVE PrivilegedAlone'
<1>1. q \in Privileged!Procs /\ task[q] \in Privileged!Handler \cup {Privileged!Idle} /\ task[q].phase = "reject"
    BY DEF Privileged!RejectRequest, AgreedInv, Privileged!TypeOK, Privileged!Procs
<1>2. PICK r \in Asked : r = task[q].request
    BY <1>1 DEF Privileged!Handler, Privileged!Idle
<1>3. /\ request' = [request EXCEPT ![r].status = "REJECTED"] /\ task' = [task EXCEPT ![q] = Privileged!Idle]
      /\ UNCHANGED <<shadow, row, left, since, failures>>
    BY <1>2 DEF Privileged!RejectRequest, Privileged!Ends
<1>4. task[q] # Privileged!Idle /\ \A t \in Types : ~Unsettled(task[q], t)
    BY <1>1 DEF Privileged!Idle, Unsettled
<1>5. CASE ~Privileged!Told
    <2>1. Privileged!Told' <=> Privileged!Told
        BY <1>3 DEF Privileged!Told
    <2>2. task'[q] = Privileged!Idle /\ \A x \in Privileged!Procs \ {q} : task[x] = Privileged!Idle /\ task'[x] = Privileged!Idle
        BY <1>1, <1>3, <1>4, Acting
    <2>3. PrivilegedCounted' /\ After(Privileged!Idle)'
        BY <1>3, <1>5, <2>1 DEF PrivilegedAlone, PrivilegedCounted, After
    <2>4. Privileged!Leaver \in Privileged!Procs
        BY DEF Privileged!Procs
    <2>5. Leaving(task[Privileged!Leaver])' /\ Privileged!NoneSurvive'
        BY <1>3, <2>1, <2>2, <2>4, IdleFits, Leaves
    <2>. QED
        BY <1>1, <2>2, <2>3, <2>5, PrivilegedSettles
<1>6. CASE Privileged!Told
    <2>1. request[r].status = "PENDING_APPROVAL"
        BY <1>1, <1>2, <1>6 DEF PrivilegedAlone, Fits, Privileged!Pending
    <2>2. request \in [Asked -> Privileged!Request \cup {Privileged!Absent}]
        BY DEF AgreedInv, Privileged!TypeOK
    <2>3. request[r] \in Privileged!Request
        BY <2>1, <2>2 DEF Privileged!Absent
    <2>4. request'[r].status = "REJECTED" /\ \A x \in Asked \ {r} : request'[x] = request[x]
        BY <1>3, <2>2, <2>3 DEF Privileged!Request
    <2>5. AsMade
        BY <2>1, <2>4 DEF AsMade, Provisioned
    <2>. QED
        BY <1>1, <1>3, <1>4, <2>5, IdleFits, QuietStep
<1>. QED
    BY <1>5, <1>6

\* A step of p, of the leaver process or not, after which nobody but those before is on.
LEMMA Acts ==
    ASSUME AgreedInv, PrivilegedAlone, PrivilegedSerial', PrivilegedCounted', NEW p \in Privileged!Procs, NEW o, task' = [task EXCEPT ![p] = o],
           task[p] # Privileged!Idle \/ o # Privileged!Idle, o.phase \notin {"leave", "note"}, After(o)',
           left' = left, since \subseteq since',
           Privileged!Told' /\ failures'["refused"] = 0 => Privileged!Told /\ failures["refused"] = 0,
           \A t \in Types : shadow'[t] = "on" => shadow[t] = "on" \/ t \in since' \/ left = "no"
    PROVE  PrivilegedAlone'
<1>1. task'[p] = o /\ \A x \in Privileged!Procs \ {p} : task[x] = Privileged!Idle /\ task'[x] = Privileged!Idle
    BY Acting
<1>2. Privileged!Leaver \in Privileged!Procs
    BY DEF Privileged!Procs
<1>3. task'[Privileged!Leaver] = task[Privileged!Leaver] \/ task'[Privileged!Leaver].phase \notin {"leave", "note"}
    BY <1>1, <1>2
<1>4. Leaving(task[Privileged!Leaver])' /\ Privileged!NoneSurvive'
    BY <1>3, Leaves
<1>. QED
    BY <1>1, <1>4, PrivilegedSettles

LEMMA PrivilegedCallCreateAlone == ASSUME AgreedInv, PrivilegedAlone, PrivilegedSerial', NEW q \in Callers, Privileged!CallCreate(q) PROVE PrivilegedAlone'
<1>1. q \in Privileged!Procs /\ task[q] \in Privileged!Handler \cup {Privileged!Idle} /\ task[q].phase = "create" /\ Carries(task[q])
    BY DEF Privileged!CallCreate, AgreedInv, Privileged!TypeOK, Privileged!Procs
<1>. PICK h : h = task[q]
    OBVIOUS
<1>2. h \in [phase : {"create", "save"}, request : Asked, type : Types, made : BOOLEAN] /\ h # Privileged!Idle
    BY <1>1 DEF Privileged!Handler, Privileged!Idle
<1>. PICK t \in Types : t = h.type
    BY <1>2
<1>3. kind \in Privileged!Kinds /\ shadow \in [Types -> Privileged!Accounts] /\ request \in [Asked -> Privileged!Request \cup {Privileged!Absent}]
    BY DEF AgreedInv, Privileged!TypeOK
<1>4. PICK f \in Privileged!FaultsOfACall : Privileged!Goes(f) /\ \E r \in Privileged!CreateUser(kind, shadow[t], TRUE, f) :
        /\ shadow' = [shadow EXCEPT ![t] = r.account]
        /\ since' = IF r.account = shadow[t] THEN since ELSE Privileged!Later(t)
        /\ task' = [task EXCEPT ![q] = IF r.answer = "raised" THEN Privileged!Idle
                                   ELSE [@ EXCEPT !.phase = "save", !.made = r.answer = "ok"]]
    BY DEF Privileged!CallCreate
<1>5. PICK r \in Privileged!CreateUser(kind, shadow[t], TRUE, f) :
        /\ shadow' = [shadow EXCEPT ![t] = r.account]
        /\ since' = IF r.account = shadow[t] THEN since ELSE Privileged!Later(t)
        /\ task' = [task EXCEPT ![q] = IF r.answer = "raised" THEN Privileged!Idle
                                   ELSE [@ EXCEPT !.phase = "save", !.made = r.answer = "ok"]]
    BY <1>4
<1>6. PICK ok \in BOOLEAN : ok = (r.answer = "ok")
    OBVIOUS
<1>7. PICK saving : saving = [h EXCEPT !.phase = "save", !.made = ok]
    OBVIOUS
<1>8. saving.phase = "save" /\ saving.made = ok /\ saving.type = t /\ saving.request = h.request
    BY <1>2, <1>7
<1>9. PICK o \in {Privileged!Idle, saving} : task' = [task EXCEPT ![q] = o] /\ (o = Privileged!Idle <=> r.answer = "raised")
    <2>1. saving # Privileged!Idle
        BY <1>8 DEF Privileged!Idle
    <2>2. r.answer = "raised" => task' = [task EXCEPT ![q] = Privileged!Idle]
        BY <1>5
    <2>3. r.answer # "raised" => task' = [task EXCEPT ![q] = saving]
        BY <1>5, <1>6, <1>7
    <2>. QED
        BY <2>1, <2>2, <2>3
<1>10. UNCHANGED <<request, row, left>>
    BY DEF Privileged!CallCreate
<1>11. /\ PrivilegedCounted' /\ (Privileged!Told' => Privileged!Told /\ f # "lost")
       /\ Privileged!Told' /\ failures'["refused"] = 0 => Privileged!Told /\ failures["refused"] = 0
    BY <1>4, Counts DEF PrivilegedAlone
<1>12. \A x \in Types : shadow'[x] = IF x = t THEN r.account ELSE shadow[x]
    BY <1>3, <1>5
<1>13. since \subseteq since' /\ \A x \in Types : shadow'[x] = "on" => shadow[x] = "on" \/ x \in since' \/ left = "no"
    BY <1>5, <1>12 DEF Privileged!Later
<1>14. task[q] # Privileged!Idle /\ \A x \in Privileged!Procs \ {q} : task[x] = Privileged!Idle
    BY <1>1, <1>2, <1>9, Acting
<1>15. ASSUME Privileged!Told' PROVE Fits(o)' /\ \A x \in Types : ~Unsettled(o, x) => PrivilegedStraight(x)'
    <2>1. Privileged!Told /\ f # "lost"
        BY <1>11, <1>15
    <2>2. Fits(h) /\ \A x \in Types : ~Unsettled(h, x) => PrivilegedStraight(x)
        BY <1>1, <1>14, <2>1, Before
    <2>3. Privileged!Pending(h.request) /\ \A x \in Types : PrivilegedStraight(x)
        BY <1>1, <2>2 DEF Fits, Unsettled
    <2>4. /\ r.answer # "raised"
          /\ IF ok THEN shadow[t] = "none" /\ r.account = "on" ELSE r.account = shadow[t]
        <3>1. kind \in Privileged!Kinds /\ shadow[t] \in Privileged!Accounts /\ f # "lost"
            BY <1>3, <2>1
        <3>2. /\ r.answer # "raised"
              /\ r.answer = "ok" => shadow[t] = "none" /\ r.account = "on"
              /\ r.answer # "ok" => r.account = shadow[t]
            BY <3>1 DEF Privileged!Kinds, Privileged!Accounts, Privileged!FaultsOfACall, Privileged!CreateUser, Privileged!EntraCreate, Privileged!OktaCreate, Privileged!AdCreate, Privileged!Result, Privileged!Switch
        <3>3. CASE ok
            <4>1. r.answer = "ok"
                BY <1>6, <3>3, Zenon
            <4>. QED
                BY <3>2, <3>3, <4>1
        <3>4. CASE ~ok
            <4>1. r.answer # "ok"
                BY <1>6, <3>4, Zenon
            <4>. QED
                BY <3>2, <3>4, <4>1
        <3>. QED
            BY <3>3, <3>4
    <2>5. o = saving
        BY <1>9, <2>4
    <2>6. AsMade /\ Privileged!Pending(h.request)'
        BY <1>10, <2>3 DEF AsMade, Privileged!Pending
    <2>7. ok => NoneMade(t)' /\ shadow'[t] = "on"
        <3>1. NoneMade(t) => NoneMade(t)'
            BY <2>6, MadeStays
        <3>. QED
            BY <1>12, <2>3, <2>4, <3>1 DEF PrivilegedStraight
    <2>8. Fits(saving)'
        BY <1>8, <2>6, <2>7 DEF Fits
    <2>9. ASSUME NEW x \in Types, ~Unsettled(saving, x) PROVE PrivilegedStraight(x)'
        <3>1. shadow'[x] = shadow[x] /\ row'[x] = row[x]
            BY <1>8, <1>10, <1>12, <2>4, <2>9 DEF Unsettled
        <3>. QED
            BY <2>3, <2>6, <3>1, StraightStays
    <2>. QED
        BY <2>5, <2>8, <2>9
<1>16. After(o)'
    BY <1>15 DEF After, Unsettled
<1>17. o.phase \notin {"leave", "note"}
    BY <1>8, <1>9, IdleFits
<1>. QED
    BY <1>1, <1>9, <1>10, <1>11, <1>13, <1>14, <1>16, <1>17, Acts

\* The request is settled, and an account that was made has now the request that made it.
LEMMA SaveAlone == ASSUME AgreedInv, PrivilegedAlone, PrivilegedSerial', NEW q \in Callers, Privileged!Save(q) PROVE PrivilegedAlone'
<1>1. q \in Privileged!Procs /\ task[q] \in Privileged!Handler \cup {Privileged!Idle} /\ task[q].phase = "save" /\ Carries(task[q])
    BY DEF Privileged!Save, AgreedInv, Privileged!TypeOK, Privileged!Procs
<1>. PICK h : h = task[q]
    OBVIOUS
<1>2. h \in [phase : {"create", "save"}, request : Asked, type : Types, made : BOOLEAN] /\ h # Privileged!Idle
    BY <1>1 DEF Privileged!Handler, Privileged!Idle
<1>. PICK t \in Types : t = h.type
    BY <1>2
<1>. PICK r \in Asked : r = h.request
    BY <1>2
<1>3. /\ shadow \in [Types -> Privileged!Accounts] /\ row \in [Types -> Privileged!UserRow \cup {Privileged!Absent}]
      /\ request \in [Asked -> Privileged!Request \cup {Privileged!Absent}] /\ request[r] # Privileged!Absent /\ request[r].type = t
    BY <1>1 DEF AgreedInv, Privileged!TypeOK, Carries
<1>4. /\ request' = [request EXCEPT ![r].status = IF h.made THEN "PROVISIONED" ELSE "FAILED"]
      /\ row' = IF h.made THEN [row EXCEPT ![t] = Privileged!TakesOver] ELSE row
      /\ task' = [task EXCEPT ![q] = Privileged!Idle] /\ UNCHANGED <<shadow, left, since, failures>>
    BY DEF Privileged!Save, Privileged!Stored, Privileged!Ends
<1>5. PrivilegedCounted' /\ (Privileged!Told' <=> Privileged!Told)
    BY <1>4 DEF PrivilegedAlone, PrivilegedCounted, Privileged!Told
<1>6. task[q] # Privileged!Idle /\ \A x \in Privileged!Procs \ {q} : task[x] = Privileged!Idle
    BY <1>1, <1>2, <1>4, Acting
<1>7. ASSUME Privileged!Told, NEW x \in Types PROVE PrivilegedStraight(x)'
    <2>1. Fits(h) /\ \A y \in Types : ~Unsettled(h, y) => PrivilegedStraight(y)
        BY <1>1, <1>6, <1>7, Before
    <2>2. request[r].status = "PENDING_APPROVAL" /\ (h.made => shadow[t] = "on" /\ NoneMade(t))
        BY <1>1, <2>1 DEF Fits, Privileged!Pending
    <2>3. request[r] \in Privileged!Request
        BY <1>3
    <2>4. CASE ~h.made
        <3>1. request'[r].status = "FAILED" /\ \A y \in Asked \ {r} : request'[y] = request[y]
            BY <1>3, <1>4, <2>3, <2>4 DEF Privileged!Request
        <3>2. AsMade
            BY <2>2, <3>1 DEF AsMade, Provisioned
        <3>3. PrivilegedStraight(x)
            BY <2>1, <2>4, <1>1 DEF Unsettled
        <3>. QED
            BY <1>4, <2>4, <3>2, <3>3, StraightStays
    <2>5. CASE h.made
        <3>1. request'[r] = Provisioned(t) /\ \A y \in Asked \ {r} : request'[y] = request[y]
            BY <1>3, <1>4, <2>3, <2>5 DEF Privileged!Request, Provisioned
        <3>2. row'[t] = Privileged!TakesOver /\ \A y \in Types \ {t} : row'[y] = row[y]
            BY <1>3, <1>4, <2>5
        <3>3. CASE x = t
            <4>1. \A y \in Asked : request'[y] = Provisioned(t) <=> y = r
                BY <2>2, <2>5, <3>1 DEF NoneMade
            <4>2. OneMade(t)'
                BY <4>1 DEF OneMade, Provisioned
            <4>3. shadow'[t] = "on"
                BY <1>4, <2>2, <2>5
            <4>4. Privileged!Linked(t)' /\ row'[t].status = "ACTIVE"
                BY <3>2 DEF Privileged!TakesOver, Privileged!Linked, Privileged!Absent
            <4>. QED
                BY <3>3, <4>2, <4>3, <4>4 DEF PrivilegedStraight, Privileged!StatusOf
        <3>4. CASE x # t
            <4>1. PrivilegedStraight(x)
                BY <2>1, <3>4 DEF Unsettled
            <4>2. \A y \in Asked : request'[y] = Provisioned(x) <=> request[y] = Provisioned(x)
                BY <2>2, <3>1, <3>4 DEF Provisioned
            <4>3. (OneMade(x) => OneMade(x)') /\ (NoneMade(x) => NoneMade(x)')
                BY <4>2 DEF OneMade, NoneMade, Provisioned
            <4>. QED
                BY <1>4, <3>2, <3>4, <4>1, <4>3 DEF PrivilegedStraight, Privileged!Linked
        <3>. QED
            BY <3>3, <3>4
    <2>. QED
        BY <1>2, <2>4, <2>5
<1>8. After(Privileged!Idle)'
    BY <1>5, <1>7, IdleFits DEF After
<1>9. Privileged!Told' /\ failures'["refused"] = 0 => Privileged!Told /\ failures["refused"] = 0
    BY <1>4, <1>5
<1>. QED
    BY <1>1, <1>4, <1>5, <1>6, <1>8, <1>9, IdleFits, Acts

LEMMA SetAccountEnabledAlone ==
    ASSUME AgreedInv, PrivilegedAlone, PrivilegedSerial', NEW q \in Callers, NEW t \in Types, Privileged!SetAccountEnabled(q, t) PROVE PrivilegedAlone'
<1>1. PICK enabled \in BOOLEAN :
        task' = [task EXCEPT ![q] = [phase |-> "switch", type |-> t, enabled |-> enabled, read |-> row[t].status]]
    BY DEF Privileged!SetAccountEnabled, Privileged!Start
<1>. PICK o : o = [phase |-> "switch", type |-> t, enabled |-> enabled, read |-> row[t].status]
    OBVIOUS
<1>2. o.phase = "switch" /\ o.type = t /\ o.read = row[t].status /\ o # Privileged!Idle
    BY DEF Privileged!Idle
<1>3. task[q] = Privileged!Idle /\ UNCHANGED <<request, shadow, row, left, since, failures>> /\ q \in Privileged!Procs
    BY DEF Privileged!SetAccountEnabled, Privileged!Start, Privileged!MayStart, Privileged!Procs
<1>4. Fits(o)'
    BY <1>2, <1>3 DEF Fits
<1>5. task' = [task EXCEPT ![q] = o]
    BY <1>1
<1>. QED
    BY <1>2, <1>3, <1>4, <1>5, IdleSettled, Unchanging, QuietStep

\* A switch by hand: the account is as the handler will write it down.
LEMMA CallSwitchAlone == ASSUME AgreedInv, PrivilegedAlone, PrivilegedSerial', NEW q \in Callers, Privileged!CallSwitch(q) PROVE PrivilegedAlone'
<1>1. q \in Privileged!Procs /\ task[q] \in Privileged!Handler \cup {Privileged!Idle} /\ task[q].phase = "switch" /\ Carries(task[q])
    BY DEF Privileged!CallSwitch, AgreedInv, Privileged!TypeOK, Privileged!Procs
<1>. PICK h : h = task[q]
    OBVIOUS
<1>2. h \in [phase : {"switch", "record"}, type : Types, enabled : BOOLEAN, read : {"ACTIVE", "DISABLED"}] /\ h # Privileged!Idle
    BY <1>1 DEF Privileged!Handler, Privileged!Idle
<1>. PICK t \in Types : t = h.type
    BY <1>2
<1>3. kind \in Privileged!Kinds /\ shadow \in [Types -> Privileged!Accounts] /\ shadow[t] \in Privileged!Accounts
    BY DEF AgreedInv, Privileged!TypeOK
<1>4. PICK f \in Privileged!FaultsOfACall : Privileged!Goes(f) /\ \E r \in Privileged!SetUserEnabled(kind, shadow[t], h.enabled, f) :
        /\ shadow' = [shadow EXCEPT ![t] = r.account]
        /\ since' = IF h.enabled THEN Privileged!Later(t) ELSE since
        /\ task' = [task EXCEPT ![q] = IF r.answer = "ok" THEN [@ EXCEPT !.phase = "record"] ELSE Privileged!Idle]
    BY DEF Privileged!CallSwitch
<1>5. PICK r \in Privileged!SetUserEnabled(kind, shadow[t], h.enabled, f) :
        /\ shadow' = [shadow EXCEPT ![t] = r.account]
        /\ since' = IF h.enabled THEN Privileged!Later(t) ELSE since
        /\ task' = [task EXCEPT ![q] = IF r.answer = "ok" THEN [@ EXCEPT !.phase = "record"] ELSE Privileged!Idle]
    BY <1>4
<1>6. PICK recording : recording = [h EXCEPT !.phase = "record"]
    OBVIOUS
<1>7. recording.phase = "record" /\ recording.type = t /\ recording.enabled = h.enabled /\ recording.read = h.read
    BY <1>2, <1>6
<1>8. PICK o \in {Privileged!Idle, recording} : task' = [task EXCEPT ![q] = o] /\ o = IF r.answer = "ok" THEN recording ELSE Privileged!Idle
    BY <1>5, <1>6
<1>9. UNCHANGED <<request, row, left>>
    BY DEF Privileged!CallSwitch
<1>10. /\ PrivilegedCounted' /\ (Privileged!Told' => Privileged!Told /\ f # "lost")
       /\ Privileged!Told' /\ failures'["refused"] = 0 => Privileged!Told /\ failures["refused"] = 0
    BY <1>4, Counts DEF PrivilegedAlone
<1>11. \A x \in Types : shadow'[x] = IF x = t THEN r.account ELSE shadow[x]
    BY <1>3, <1>5
<1>12. since \subseteq since' /\ \A x \in Types : shadow'[x] = "on" => shadow[x] = "on" \/ x \in since' \/ left = "no"
    <2>1. ~h.enabled /\ r.account = "on" => shadow[t] = "on"
        BY <1>2, <1>3, PrivilegedSwitchedOn
    <2>. QED
        BY <1>5, <1>11, <2>1 DEF Privileged!Later
<1>13. task[q] # Privileged!Idle /\ \A x \in Privileged!Procs \ {q} : task[x] = Privileged!Idle
    BY <1>1, <1>2, <1>8, Acting
<1>14. ASSUME Privileged!Told' PROVE Fits(o)' /\ \A x \in Types : ~Unsettled(o, x) => PrivilegedStraight(x)'
    <2>1. Privileged!Told /\ f # "lost"
        BY <1>10, <1>14
    <2>2. Fits(h) /\ \A x \in Types : ~Unsettled(h, x) => PrivilegedStraight(x)
        BY <1>1, <1>13, <2>1, Before
    <2>3. row[t].status = h.read /\ \A x \in Types : PrivilegedStraight(x)
        BY <1>1, <2>2 DEF Fits, Unsettled
    <2>4. IF r.answer = "ok" THEN shadow[t] # "none" /\ r.account = Privileged!Switch(h.enabled) ELSE r.account = shadow[t]
        BY <1>2, <1>3, <2>1, SwitchTells
    <2>5. AsMade
        BY <1>9, Unchanging
    <2>6. Fits(o)'
        <3>1. OneMade(t) => OneMade(t)'
            BY <2>5, MadeStays
        <3>2. CASE r.answer = "ok"
            <4>1. shadow'[t] = Privileged!Switch(h.enabled) /\ OneMade(t)'
                BY <1>11, <2>3, <2>4, <3>1, <3>2 DEF PrivilegedStraight
            <4>2. Fits(recording)'
                BY <1>7, <1>9, <2>3, <4>1 DEF Fits
            <4>. QED
                BY <1>8, <3>2, <4>2
        <3>3. CASE r.answer # "ok"
            BY <1>8, <3>3, IdleFits
        <3>. QED
            BY <3>2, <3>3
    <2>7. ASSUME NEW x \in Types, ~Unsettled(o, x) PROVE PrivilegedStraight(x)'
        <3>1. shadow'[x] = shadow[x] /\ row'[x] = row[x]
            BY <1>7, <1>8, <1>9, <1>11, <2>4, <2>7 DEF Unsettled
        <3>. QED
            BY <2>3, <2>5, <3>1, StraightStays
    <2>. QED
        BY <2>6, <2>7
<1>15. After(o)'
    BY <1>14 DEF After, Unsettled
<1>16. o.phase \notin {"leave", "note"}
    BY <1>7, <1>8, IdleFits
<1>. QED
    BY <1>1, <1>8, <1>9, <1>10, <1>12, <1>13, <1>15, <1>16, Acts

\* A row that is written as its account is.
LEMMA WrittenStraight ==
    ASSUME NEW t \in Types, row \in [Types -> Privileged!UserRow \cup {Privileged!Absent}], Privileged!Linked(t), OneMade(t), shadow[t] # "none",
           NEW s \in {"ACTIVE", "DISABLED"}, s = Privileged!StatusOf(shadow[t]),
           row' = [row EXCEPT ![t].status = s], UNCHANGED <<shadow, request>>
    PROVE  PrivilegedStraight(t)' /\ \A x \in Types \ {t} : row'[x] = row[x]
<1>1. row[t] \in Privileged!UserRow /\ row[t] # Privileged!Absent /\ row[t].linked
    BY DEF Privileged!Linked
<1>2. row'[t] = [row[t] EXCEPT !.status = s] /\ \A x \in Types \ {t} : row'[x] = row[x]
    OBVIOUS
<1>3. row'[t].status = s /\ row'[t].linked
    BY <1>1, <1>2 DEF Privileged!UserRow
<1>4. Privileged!Linked(t)'
    BY <1>3 DEF Privileged!Linked, Privileged!Absent
<1>5. OneMade(t)'
    BY DEF OneMade, Provisioned
<1>. QED
    BY <1>2, <1>3, <1>4, <1>5 DEF PrivilegedStraight

LEMMA RecordAlone == ASSUME AgreedInv, PrivilegedAlone, PrivilegedSerial', NEW q \in Callers, Privileged!Record(q) PROVE PrivilegedAlone'
<1>1. q \in Privileged!Procs /\ task[q] \in Privileged!Handler \cup {Privileged!Idle} /\ task[q].phase = "record" /\ Carries(task[q])
    BY DEF Privileged!Record, AgreedInv, Privileged!TypeOK, Privileged!Procs
<1>. PICK h : h = task[q]
    OBVIOUS
<1>2. h \in [phase : {"switch", "record"}, type : Types, enabled : BOOLEAN, read : {"ACTIVE", "DISABLED"}] /\ h # Privileged!Idle
    BY <1>1 DEF Privileged!Handler, Privileged!Idle
<1>. PICK t \in Types : t = h.type
    BY <1>2
<1>3. row \in [Types -> Privileged!UserRow \cup {Privileged!Absent}] /\ Privileged!Linked(t)
    BY <1>1 DEF AgreedInv, Privileged!TypeOK, Carries
<1>. PICK s : s = Privileged!StatusOf(Privileged!Switch(h.enabled))
    OBVIOUS
<1>4. /\ row' = IF s = h.read THEN row ELSE [row EXCEPT ![t].status = s]
      /\ task' = [task EXCEPT ![q] = Privileged!Idle] /\ UNCHANGED <<request, shadow, left, since, failures>>
    BY DEF Privileged!Record, Privileged!Written, Privileged!Ends
<1>5. PrivilegedCounted' /\ (Privileged!Told' <=> Privileged!Told)
    BY <1>4 DEF PrivilegedAlone, PrivilegedCounted, Privileged!Told
<1>6. task[q] # Privileged!Idle /\ \A x \in Privileged!Procs \ {q} : task[x] = Privileged!Idle
    BY <1>1, <1>2, <1>4, Acting
<1>7. ASSUME Privileged!Told, NEW x \in Types PROVE PrivilegedStraight(x)'
    <2>1. Fits(h) /\ \A y \in Types : ~Unsettled(h, y) => PrivilegedStraight(y)
        BY <1>1, <1>6, <1>7, Before
    <2>2. row[t].status = h.read /\ shadow[t] = Privileged!Switch(h.enabled) /\ OneMade(t)
        BY <1>1, <2>1 DEF Fits
    <2>3. s = Privileged!StatusOf(shadow[t]) /\ s \in {"ACTIVE", "DISABLED"} /\ shadow[t] # "none"
        BY <2>2 DEF Privileged!StatusOf, Privileged!Switch
    <2>4. AsMade
        BY <1>4, Unchanging
    <2>5. CASE s = h.read
        <3>1. PrivilegedStraight(t)
            BY <1>3, <2>2, <2>3, <2>5 DEF PrivilegedStraight
        <3>2. PrivilegedStraight(x)
            BY <2>1, <3>1 DEF Unsettled
        <3>. QED
            BY <1>4, <2>4, <2>5, <3>2, StraightStays
    <2>6. CASE s # h.read
        <3>1. PrivilegedStraight(t)' /\ \A y \in Types \ {t} : row'[y] = row[y]
            BY <1>3, <1>4, <2>2, <2>3, <2>6, WrittenStraight
        <3>2. x # t => PrivilegedStraight(x)
            BY <2>1 DEF Unsettled
        <3>. QED
            BY <1>4, <2>4, <3>1, <3>2, StraightStays
    <2>. QED
        BY <2>5, <2>6
<1>8. After(Privileged!Idle)'
    BY <1>5, <1>7, IdleFits DEF After
<1>9. Privileged!Told' /\ failures'["refused"] = 0 => Privileged!Told /\ failures["refused"] = 0
    BY <1>4, <1>5
<1>. QED
    BY <1>1, <1>4, <1>5, <1>6, <1>8, <1>9, IdleFits, Acts

-----------------------------------------------------------------------------
(***************************************************************************)
(* The leaver process, the sync, and a stop of the process.                *)
(***************************************************************************)
\* It lists what is on: rows say how accounts are when nothing else is under way.
LEMMA StartLeavingAlone == ASSUME AgreedInv, PrivilegedAlone, PrivilegedSerial', Privileged!StartLeaving PROVE PrivilegedAlone'
<1>. PICK o : o = [phase |-> "leave", todo |-> Privileged!ToDisable]
    OBVIOUS
<1>1. o.phase = "leave" /\ o.todo = Privileged!ToDisable /\ o # Privileged!Idle
    BY DEF Privileged!Idle
<1>2. /\ task' = [task EXCEPT ![Privileged!Leaver] = o] /\ task[Privileged!Leaver] = Privileged!Idle /\ left' = "running"
      /\ UNCHANGED <<request, shadow, row, since, failures>> /\ Privileged!Leaver \in Privileged!Procs
    BY DEF Privileged!StartLeaving, Privileged!Start, Privileged!MayStart, Privileged!Procs
<1>3. PrivilegedCounted' /\ (Privileged!Told' <=> Privileged!Told)
    BY <1>2 DEF PrivilegedAlone, PrivilegedCounted, Privileged!Told
<1>4. task'[Privileged!Leaver] = o /\ \A x \in Privileged!Procs \ {Privileged!Leaver} : task[x] = Privileged!Idle /\ task'[x] = Privileged!Idle
    BY <1>1, <1>2, Acting
<1>5. ASSUME Privileged!Told PROVE \A t \in Types : PrivilegedStraight(t)
    BY <1>2, <1>4, <1>5, IdleSettled, Before
<1>6. ASSUME Privileged!Told, NEW t \in Types PROVE PrivilegedStraight(t)'
    <2>1. PrivilegedStraight(t)
        BY <1>5, <1>6
    <2>. QED
        BY <1>2, <2>1, Unchanging, StraightStays
<1>7. Fits(o)' /\ \A t \in Types : ~Unsettled(o, t)
    BY <1>1 DEF Fits, Unsettled
<1>8. After(o)'
    BY <1>3, <1>6, <1>7 DEF After
<1>9. ASSUME Privileged!Told, NEW t \in Types, shadow[t] = "on" PROVE t \in Privileged!ToDisable
    <2>1. Privileged!Linked(t) /\ row[t].status = "ACTIVE"
        BY <1>5, <1>9 DEF PrivilegedStraight, Privileged!StatusOf
    <2>. QED
        BY <2>1 DEF Privileged!ToDisable
<1>10. Leaving(task[Privileged!Leaver])' /\ Privileged!NoneSurvive'
    BY <1>1, <1>2, <1>3, <1>4, <1>9 DEF Leaving, Privileged!NoneSurvive
<1>. QED
    BY <1>2, <1>3, <1>4, <1>8, <1>10, PrivilegedSettles

LEMMA CallDisableAlone == ASSUME AgreedInv, PrivilegedAlone, PrivilegedSerial', Privileged!CallDisable PROVE PrivilegedAlone'
<1>1. /\ Privileged!Leaver \in Privileged!Procs /\ task[Privileged!Leaver] \in Privileged!Handler \cup {Privileged!Idle} /\ Carries(task[Privileged!Leaver])
      /\ task[Privileged!Leaver].phase = "leave"
    BY DEF Privileged!CallDisable, AgreedInv, Privileged!TypeOK, Privileged!Procs
<1>. PICK h : h = task[Privileged!Leaver]
    OBVIOUS
<1>2. h \in [phase : {"leave"}, todo : SUBSET Types] /\ h # Privileged!Idle
    BY <1>1 DEF Privileged!Handler, Privileged!Idle
<1>3. kind \in Privileged!Kinds /\ shadow \in [Types -> Privileged!Accounts]
    BY DEF AgreedInv, Privileged!TypeOK
<1>4. PICK t \in h.todo, f \in Privileged!FaultsOfACall : Privileged!Goes(f) /\ \E r \in Privileged!SetUserEnabled(kind, shadow[t], FALSE, f) :
        /\ shadow' = [shadow EXCEPT ![t] = r.account]
        /\ task' = [task EXCEPT ![Privileged!Leaver] = CASE r.answer = "ok"     -> [phase |-> "note", type |-> t, todo |-> @.todo \ {t}]
                                          [] r.answer = "raised" -> Privileged!Idle
                                          [] OTHER               -> [phase |-> "leave", todo |-> @.todo \ {t}]]
    BY DEF Privileged!CallDisable
<1>5. PICK r \in Privileged!SetUserEnabled(kind, shadow[t], FALSE, f) :
        /\ shadow' = [shadow EXCEPT ![t] = r.account]
        /\ task' = [task EXCEPT ![Privileged!Leaver] = CASE r.answer = "ok"     -> [phase |-> "note", type |-> t, todo |-> @.todo \ {t}]
                                          [] r.answer = "raised" -> Privileged!Idle
                                          [] OTHER               -> [phase |-> "leave", todo |-> @.todo \ {t}]]
    BY <1>4
<1>. PICK noted : noted = [phase |-> "note", type |-> t, todo |-> h.todo \ {t}]
    OBVIOUS
<1>. PICK goesOn : goesOn = [phase |-> "leave", todo |-> h.todo \ {t}]
    OBVIOUS
<1>6. /\ noted.phase = "note" /\ noted.type = t /\ noted.todo = h.todo \ {t}
      /\ goesOn.phase = "leave" /\ goesOn.todo = h.todo \ {t}
    OBVIOUS
<1>7. PICK o : /\ o = CASE r.answer = "ok" -> noted [] r.answer = "raised" -> Privileged!Idle [] OTHER -> goesOn
               /\ task' = [task EXCEPT ![Privileged!Leaver] = o]
    BY <1>5
<1>8. o \in {noted, Privileged!Idle, goesOn} /\ (o = noted => r.answer = "ok") /\ (r.answer = "ok" => o = noted)
    <2>1. noted # Privileged!Idle /\ noted # goesOn
        BY <1>6 DEF Privileged!Idle
    <2>. QED
        BY <1>7, <2>1
<1>9. UNCHANGED <<request, row, left, since>> /\ t \in Types /\ shadow[t] \in Privileged!Accounts
    BY <1>2, <1>3, <1>4 DEF Privileged!CallDisable
<1>10. /\ PrivilegedCounted' /\ (Privileged!Told' => Privileged!Told /\ f # "lost")
       /\ Privileged!Told' /\ failures'["refused"] = 0 => Privileged!Told /\ failures["refused"] = 0 /\ f = "none"
    BY <1>4, Counts DEF PrivilegedAlone
<1>11. \A x \in Types : shadow'[x] = IF x = t THEN r.account ELSE shadow[x]
    BY <1>3, <1>5, <1>9
<1>12. task'[Privileged!Leaver] = o /\ \A x \in Privileged!Procs \ {Privileged!Leaver} : task[x] = Privileged!Idle /\ task'[x] = Privileged!Idle
    BY <1>1, <1>2, <1>7, Acting
<1>13. ASSUME Privileged!Told' PROVE Fits(o)' /\ \A x \in Types : ~Unsettled(o, x) => PrivilegedStraight(x)'
    <2>1. Privileged!Told /\ f # "lost"
        BY <1>10, <1>13
    <2>2. \A x \in Types : PrivilegedStraight(x)
        <3>1. \A x \in Types : ~Unsettled(h, x)
            BY <1>2 DEF Unsettled
        <3>. QED
            BY <1>1, <1>12, <2>1, <3>1, Before
    <2>3. /\ r.answer = "ok" => shadow[t] # "none" /\ r.account = "off"
          /\ r.answer # "ok" => r.account = shadow[t]
        <3>1. kind \in Privileged!Kinds /\ shadow[t] \in Privileged!Accounts /\ f # "lost"
            BY <1>3, <1>9, <2>1
        <3>. QED
            BY <3>1 DEF Privileged!Kinds, Privileged!Accounts, Privileged!FaultsOfACall, Privileged!SetUserEnabled, Privileged!EntraEnable, Privileged!OktaEnable, Privileged!AdEnable, Privileged!Result, Privileged!Switch
    <2>4. AsMade
        BY <1>9, Unchanging
    <2>5. Fits(o)'
        <3>1. CASE o = noted
            <4>1. shadow'[t] = "off" /\ OneMade(t)
                BY <1>8, <1>9, <1>11, <2>2, <2>3, <3>1 DEF PrivilegedStraight, Privileged!Switch
            <4>2. OneMade(t)'
                BY <1>9, <2>4, <4>1, MadeStays
            <4>3. Fits(noted)'
                BY <1>6, <4>1, <4>2 DEF Fits
            <4>. QED
                BY <3>1, <4>3
        <3>2. CASE o \in {Privileged!Idle, goesOn}
            <4>1. Fits(goesOn)'
                BY <1>6 DEF Fits
            <4>. QED
                BY <3>2, <4>1, IdleFits
        <3>. QED
            BY <1>8, <3>1, <3>2
    <2>6. ASSUME NEW x \in Types, ~Unsettled(o, x) PROVE PrivilegedStraight(x)'
        <3>1. shadow'[x] = shadow[x] /\ row'[x] = row[x]
            BY <1>6, <1>8, <1>9, <1>11, <2>3, <2>6 DEF Unsettled
        <3>. QED
            BY <2>2, <2>4, <3>1, StraightStays
    <2>. QED
        BY <2>5, <2>6
<1>14. After(o)'
    BY <1>13 DEF After, Unsettled
<1>15. ASSUME Privileged!Told', failures'["refused"] = 0, NEW x \in Types, shadow'[x] = "on"
       PROVE  x \in since \/ x \in h.todo \ {t}
    <2>1. Privileged!Told /\ failures["refused"] = 0 /\ f = "none"
        BY <1>10, <1>15
    <2>2. r.account # "on"
        <3>1. kind \in Privileged!Kinds /\ shadow[t] \in Privileged!Accounts /\ f # "lost" /\ f = "none"
            BY <1>3, <1>9, <2>1
        <3>. QED
            BY <3>1 DEF Privileged!Kinds, Privileged!Accounts, Privileged!FaultsOfACall, Privileged!SetUserEnabled, Privileged!EntraEnable, Privileged!OktaEnable, Privileged!AdEnable, Privileged!Result, Privileged!Switch
    <2>3. x # t /\ shadow[x] = "on"
        BY <1>11, <1>15, <2>2
    <2>. QED
        BY <1>1, <2>1, <2>3 DEF PrivilegedAlone, Leaving
<1>16. left = "running"
    BY <1>1 DEF PrivilegedAlone, Leaving
<1>17. Leaving(o)'
    <2>1. CASE o = Privileged!Idle
        BY <2>1 DEF Leaving, Privileged!Idle
    <2>2. CASE o \in {noted, goesOn}
        <3>1. o.todo = h.todo \ {t}
            BY <1>6, <2>2
        <3>. QED
            BY <1>9, <1>15, <1>16, <3>1 DEF Leaving
    <2>. QED
        BY <1>8, <2>1, <2>2
<1>18. Leaving(task[Privileged!Leaver])' /\ Privileged!NoneSurvive'
    BY <1>9, <1>12, <1>16, <1>17 DEF Leaving, Privileged!NoneSurvive
<1>. QED
    BY <1>1, <1>10, <1>12, <1>14, <1>18, PrivilegedSettles

LEMMA NoteDisabledAlone == ASSUME AgreedInv, PrivilegedAlone, PrivilegedSerial', Privileged!NoteDisabled PROVE PrivilegedAlone'
<1>1. /\ Privileged!Leaver \in Privileged!Procs /\ task[Privileged!Leaver] \in Privileged!Handler \cup {Privileged!Idle} /\ Carries(task[Privileged!Leaver])
      /\ task[Privileged!Leaver].phase = "note"
    BY DEF Privileged!NoteDisabled, AgreedInv, Privileged!TypeOK, Privileged!Procs
<1>. PICK h : h = task[Privileged!Leaver]
    OBVIOUS
<1>2. h \in [phase : {"note"}, todo : SUBSET Types, type : Types] /\ h # Privileged!Idle
    BY <1>1 DEF Privileged!Handler, Privileged!Idle
<1>. PICK t \in Types : t = h.type
    BY <1>2
<1>. PICK o : o = [phase |-> "leave", todo |-> h.todo]
    OBVIOUS
<1>3. o.phase = "leave" /\ o.todo = h.todo
    OBVIOUS
<1>4. /\ row' = [row EXCEPT ![t].status = "DISABLED"] /\ task' = [task EXCEPT ![Privileged!Leaver] = o]
      /\ UNCHANGED <<request, shadow, left, since, failures>>
    BY DEF Privileged!NoteDisabled
<1>5. PrivilegedCounted' /\ (Privileged!Told' <=> Privileged!Told)
    BY <1>4 DEF PrivilegedAlone, PrivilegedCounted, Privileged!Told
<1>6. task'[Privileged!Leaver] = o /\ \A x \in Privileged!Procs \ {Privileged!Leaver} : task[x] = Privileged!Idle /\ task'[x] = Privileged!Idle
    BY <1>1, <1>2, <1>4, Acting
<1>7. row \in [Types -> Privileged!UserRow \cup {Privileged!Absent}] /\ Privileged!Linked(t)
    BY <1>1 DEF AgreedInv, Privileged!TypeOK, Carries
<1>8. ASSUME Privileged!Told, NEW x \in Types PROVE PrivilegedStraight(x)'
    <2>1. Fits(h) /\ \A y \in Types : ~Unsettled(h, y) => PrivilegedStraight(y)
        BY <1>1, <1>6, <1>8, Before
    <2>2. shadow[t] = "off" /\ OneMade(t)
        BY <1>1, <2>1 DEF Fits
    <2>3. PrivilegedStraight(t)' /\ \A y \in Types \ {t} : row'[y] = row[y]
        BY <1>4, <1>7, <2>2, WrittenStraight DEF Privileged!StatusOf
    <2>4. AsMade
        BY <1>4, Unchanging
    <2>5. x # t => PrivilegedStraight(x)
        BY <2>1 DEF Unsettled
    <2>. QED
        BY <1>4, <2>3, <2>4, <2>5, StraightStays
<1>9. Fits(o)'
    BY <1>3 DEF Fits
<1>10. After(o)'
    BY <1>5, <1>8, <1>9 DEF After
<1>11. Leaving(h) /\ Privileged!NoneSurvive
    BY DEF PrivilegedAlone
<1>12. Leaving(task[Privileged!Leaver])' /\ Privileged!NoneSurvive'
    BY <1>1, <1>3, <1>4, <1>5, <1>6, <1>11 DEF Leaving, Privileged!NoneSurvive
<1>. QED
    BY <1>1, <1>5, <1>6, <1>10, <1>12, PrivilegedSettles

\* Nothing is left to disable: what is on came to be so since.
LEMMA FinishLeavingAlone == ASSUME AgreedInv, PrivilegedAlone, PrivilegedSerial', Privileged!FinishLeaving PROVE PrivilegedAlone'
<1>1. /\ Privileged!Leaver \in Privileged!Procs /\ task[Privileged!Leaver].phase = "leave" /\ task[Privileged!Leaver].todo = {} /\ left' = "done"
      /\ task' = [task EXCEPT ![Privileged!Leaver] = Privileged!Idle] /\ UNCHANGED <<request, shadow, row, since, failures>>
    BY DEF Privileged!FinishLeaving, Privileged!Ends, Privileged!Procs
<1>2. task[Privileged!Leaver] # Privileged!Idle
    BY <1>1 DEF Privileged!Idle
<1>3. PrivilegedCounted' /\ (Privileged!Told' <=> Privileged!Told)
    BY <1>1 DEF PrivilegedAlone, PrivilegedCounted, Privileged!Told
<1>4. task'[Privileged!Leaver] = Privileged!Idle /\ \A x \in Privileged!Procs \ {Privileged!Leaver} : task[x] = Privileged!Idle /\ task'[x] = Privileged!Idle
    BY <1>1, <1>2, Acting
<1>5. ASSUME Privileged!Told, NEW x \in Types PROVE PrivilegedStraight(x)'
    <2>1. ~Unsettled(task[Privileged!Leaver], x)
        BY <1>1 DEF Unsettled
    <2>2. PrivilegedStraight(x)
        BY <1>1, <1>4, <1>5, <2>1, Before
    <2>. QED
        BY <1>1, <2>2, Unchanging, StraightStays
<1>6. After(Privileged!Idle)'
    BY <1>3, <1>5, IdleFits DEF After
<1>7. Leaving(task[Privileged!Leaver])'
    BY <1>4 DEF Leaving, Privileged!Idle
<1>8. Privileged!NoneSurvive'
    BY <1>1, <1>3 DEF PrivilegedAlone, Leaving, Privileged!NoneSurvive
<1>. QED
    BY <1>1, <1>3, <1>4, <1>6, <1>7, <1>8, PrivilegedSettles

LEMMA SyncReadAlone == ASSUME AgreedInv, PrivilegedAlone, PrivilegedSerial', Privileged!SyncRead PROVE PrivilegedAlone'
<1>. PICK o : o = [phase |-> "sync", listed |-> shadow]
    OBVIOUS
<1>1. o.phase = "sync" /\ o.listed = shadow /\ o # Privileged!Idle
    BY DEF Privileged!Idle
<1>2. /\ task' = [task EXCEPT ![Privileged!Sync] = o] /\ task[Privileged!Sync] = Privileged!Idle /\ UNCHANGED <<request, shadow, row, left, since, failures>>
      /\ Privileged!Sync \in Privileged!Procs
    BY DEF Privileged!SyncRead, Privileged!Start, Privileged!MayStart, Privileged!Procs
<1>3. Fits(o)'
    BY <1>1, <1>2 DEF Fits
<1>. QED
    BY <1>1, <1>2, <1>3, IdleSettled, Unchanging, QuietStep

\* The sync stores of a linked account what is true of it.
LEMMA SyncSaveAlone == ASSUME AgreedInv, PrivilegedAlone, PrivilegedSerial', Privileged!SyncSave PROVE PrivilegedAlone'
<1>1. Privileged!Sync \in Privileged!Procs /\ task[Privileged!Sync].phase = "sync"
    BY DEF Privileged!SyncSave, Privileged!Procs
<1>2. /\ row' = [t \in Types |-> Privileged!Upserted(t, task[Privileged!Sync].listed[t])] /\ task' = [task EXCEPT ![Privileged!Sync] = Privileged!Idle]
      /\ UNCHANGED <<request, shadow, left, since, failures>>
    BY DEF Privileged!SyncSave, Privileged!Ends
<1>3. PrivilegedCounted' /\ (Privileged!Told' <=> Privileged!Told)
    BY <1>2 DEF PrivilegedAlone, PrivilegedCounted, Privileged!Told
<1>4. task[Privileged!Sync] # Privileged!Idle /\ \A x \in Privileged!Procs \ {Privileged!Sync} : task[x] = Privileged!Idle
    <2>1. task[Privileged!Sync] # Privileged!Idle
        BY <1>1 DEF Privileged!Idle
    <2>. QED
        BY <1>1, <1>2, <2>1, Acting
<1>5. ASSUME Privileged!Told, NEW t \in Types PROVE PrivilegedStraight(t)'
    <2>1. ~Unsettled(task[Privileged!Sync], t)
        BY <1>1 DEF Unsettled
    <2>2. PrivilegedStraight(t) /\ Fits(task[Privileged!Sync])
        BY <1>1, <1>4, <1>5, <2>1, Before
    <2>3. row'[t] = Privileged!Upserted(t, shadow[t])
        BY <1>1, <1>2, <2>2 DEF Fits
    <2>4. AsMade
        BY <1>2, Unchanging
    <2>5. CASE shadow[t] = "none"
        <3>1. row'[t] = row[t]
            BY <2>3, <2>5 DEF Privileged!Upserted
        <3>. QED
            BY <1>2, <2>2, <2>4, <3>1, StraightStays
    <2>6. CASE shadow[t] # "none"
        <3>1. OneMade(t) /\ row[t] # Privileged!Absent /\ row[t].linked
            BY <2>2, <2>6 DEF PrivilegedStraight, Privileged!Linked
        <3>2. row[t] \in Privileged!UserRow
            BY <3>1 DEF AgreedInv, Privileged!TypeOK
        <3>3. row'[t] = [row[t] EXCEPT !.status = Privileged!StatusOf(shadow[t])]
            BY <2>3, <2>6, <3>1 DEF Privileged!Upserted
        <3>4. row'[t].status = Privileged!StatusOf(shadow[t]) /\ row'[t].linked
            BY <3>1, <3>2, <3>3 DEF Privileged!UserRow
        <3>5. Privileged!Linked(t)'
            BY <3>4 DEF Privileged!Linked, Privileged!Absent, Privileged!StatusOf
        <3>6. OneMade(t)'
            BY <2>4, <3>1, MadeStays
        <3>. QED
            BY <1>2, <2>6, <3>4, <3>5, <3>6 DEF PrivilegedStraight
    <2>. QED
        BY <2>5, <2>6
<1>6. After(Privileged!Idle)'
    BY <1>3, <1>5, IdleFits DEF After
<1>7. Privileged!Told' /\ failures'["refused"] = 0 => Privileged!Told /\ failures["refused"] = 0
    BY <1>2, <1>3
<1>. QED
    BY <1>1, <1>2, <1>3, <1>4, <1>6, <1>7, IdleFits, Acts

\* Once the process has stopped, nothing is promised of the accounts.
LEMMA PrivilegedCrashAlone == ASSUME AgreedInv, PrivilegedAlone, Privileged!Crash PROVE PrivilegedAlone'
<1>1. task' = [p \in Privileged!Procs |-> Privileged!Idle] /\ failures' = [failures EXCEPT !["crash"] = @ + 1] /\ Privileged!Leaver \in Privileged!Procs
    BY DEF Privileged!Crash, Privileged!Count, Privileged!Procs
<1>2. failures \in [Privileged!Faults -> Nat] /\ "crash" \in Privileged!Faults
    BY DEF PrivilegedAlone, PrivilegedCounted, Privileged!Faults
<1>3. PrivilegedCounted' /\ ~Privileged!Told'
    BY <1>1, <1>2 DEF PrivilegedCounted, Privileged!Told
<1>4. PrivilegedSerial' /\ Leaving(task[Privileged!Leaver])'
    BY <1>1 DEF PrivilegedSerial, Leaving, Privileged!Idle
<1>. QED
    BY <1>3, <1>4 DEF PrivilegedAlone, Privileged!NoneSurvive

LEMMA StepAlone == AgreedInv /\ PrivilegedAlone /\ [Privileged!Next]_(Privileged!vars) /\ PrivilegedSerial' => PrivilegedAlone'
<1>. SUFFICES ASSUME AgreedInv, PrivilegedAlone, [Privileged!Next]_(Privileged!vars), PrivilegedSerial' PROVE PrivilegedAlone'
    OBVIOUS
<1>1. CASE UNCHANGED Privileged!vars
    BY <1>1, PrivilegedAsideAlone, Unchanging DEF Privileged!vars, Privileged!Pending
<1>2. ASSUME NEW t \in Types, Privileged!UpdatePolicy(t) PROVE PrivilegedAlone'
    BY <1>2, PolicyAlone
<1>3. ASSUME NEW q \in Callers, NEW r \in Asked, Privileged!CreateRequest(q, r) \/ Privileged!ApproveRequest(q, r) \/ Privileged!StartReject(q, r)
      PROVE  PrivilegedAlone'
    BY <1>3, CreateRequestAlone, PrivilegedStarts
<1>4. ASSUME NEW q \in Callers, Privileged!RejectRequest(q) \/ Privileged!CallCreate(q) \/ Privileged!Save(q) \/ Privileged!CallSwitch(q) \/ Privileged!Record(q)
      PROVE  PrivilegedAlone'
    BY <1>4, RejectAlone, PrivilegedCallCreateAlone, SaveAlone, CallSwitchAlone, RecordAlone
<1>5. ASSUME NEW q \in Callers, NEW t \in Types, Privileged!SetAccountEnabled(q, t) PROVE PrivilegedAlone'
    BY <1>5, SetAccountEnabledAlone
<1>6. CASE Privileged!StartLeaving \/ Privileged!CallDisable \/ Privileged!NoteDisabled \/ Privileged!FinishLeaving
    BY <1>6, StartLeavingAlone, CallDisableAlone, NoteDisabledAlone, FinishLeavingAlone
<1>7. CASE Privileged!SyncRead \/ Privileged!SyncSave \/ Privileged!Crash
    BY <1>7, SyncReadAlone, SyncSaveAlone, PrivilegedCrashAlone
<1>. QED
    BY <1>1, <1>2, <1>3, <1>4, <1>5, <1>6, <1>7 DEF Privileged!Next

-----------------------------------------------------------------------------
\* A step moves one handler, unless it stops them all.
LEMMA PrivilegedOneMoves == ASSUME Privileged!Next PROVE task' = task \/ Privileged!Crash \/ \E p \in Privileged!Procs : \E o : task' = [task EXCEPT ![p] = o]
<1>0. Callers \subseteq Privileged!Procs /\ Privileged!Sync \in Privileged!Procs /\ Privileged!Leaver \in Privileged!Procs
    BY DEF Privileged!Procs
<1>1. ASSUME NEW q \in Callers, NEW r \in Asked, Privileged!CreateRequest(q, r) \/ Privileged!ApproveRequest(q, r) \/ Privileged!StartReject(q, r)
      PROVE  task' = task \/ \E p \in Privileged!Procs : \E o : task' = [task EXCEPT ![p] = o]
    BY <1>0, <1>1 DEF Privileged!CreateRequest, Privileged!ApproveRequest, Privileged!StartReject, Privileged!Start
<1>2. ASSUME NEW q \in Callers, Privileged!RejectRequest(q) \/ Privileged!CallCreate(q) \/ Privileged!Save(q) \/ Privileged!CallSwitch(q) \/ Privileged!Record(q)
      PROVE  \E p \in Privileged!Procs : \E o : task' = [task EXCEPT ![p] = o]
    <2>1. CASE Privileged!RejectRequest(q) \/ Privileged!Save(q) \/ Privileged!Record(q)
        BY <1>0, <2>1 DEF Privileged!RejectRequest, Privileged!Save, Privileged!Record, Privileged!Ends
    <2>2. CASE Privileged!CallCreate(q)
        <3>1. \E o : task' = [task EXCEPT ![q] = o]
            BY <2>2, Zenon DEF Privileged!CallCreate
        <3>. QED
            BY <1>0, <3>1
    <2>3. CASE Privileged!CallSwitch(q)
        BY <1>0, <2>3 DEF Privileged!CallSwitch
    <2>. QED
        BY <1>2, <2>1, <2>2, <2>3
<1>3. ASSUME NEW q \in Callers, NEW t \in Types, Privileged!SetAccountEnabled(q, t)
      PROVE  \E p \in Privileged!Procs : \E o : task' = [task EXCEPT ![p] = o]
    BY <1>0, <1>3 DEF Privileged!SetAccountEnabled, Privileged!Start
<1>4. CASE Privileged!StartLeaving \/ Privileged!CallDisable \/ Privileged!NoteDisabled \/ Privileged!FinishLeaving
    BY <1>0, <1>4 DEF Privileged!StartLeaving, Privileged!CallDisable, Privileged!NoteDisabled, Privileged!FinishLeaving, Privileged!Start, Privileged!Ends
<1>5. CASE Privileged!SyncRead \/ Privileged!SyncSave
    BY <1>0, <1>5 DEF Privileged!SyncRead, Privileged!SyncSave, Privileged!Start, Privileged!Ends
<1>. QED
    BY <1>1, <1>2, <1>3, <1>4, <1>5 DEF Privileged!Next, Privileged!UpdatePolicy

\* While no more than one handler is under way after each step, no two ever are.
LEMMA SerialStays == ASSUME AgreedInv, PrivilegedSerial, [Privileged!Next]_(Privileged!vars), Cardinality(Privileged!Busy') <= 1 PROVE PrivilegedSerial'
<1>1. CASE Privileged!Crash
    BY <1>1 DEF Privileged!Crash, PrivilegedSerial
<1>2. CASE task' = task
    BY <1>2 DEF PrivilegedSerial
<1>3. ASSUME NEW p \in Privileged!Procs, NEW o, task' = [task EXCEPT ![p] = o] PROVE PrivilegedSerial'
    <2>1. SUFFICES ASSUME NEW a \in Privileged!Procs, NEW b \in Privileged!Procs, task'[a] # Privileged!Idle, task'[b] # Privileged!Idle, a # b PROVE FALSE
        BY DEF PrivilegedSerial
    <2>2. \A c \in Privileged!Procs : c # p => task'[c] = task[c]
        BY <1>3 DEF AgreedInv, Privileged!TypeOK
    <2>3. a = p \/ b = p
        BY <2>1, <2>2 DEF PrivilegedSerial
    <2>4. Privileged!Busy' = {a, b}
        BY <2>1, <2>2, <2>3 DEF Privileged!Busy, PrivilegedSerial
    <2>5. Cardinality({a, b}) = 2
        <3>1. IsFiniteSet({a}) /\ Cardinality({a}) = 1
            BY FS_Singleton
        <3>2. Cardinality({a} \cup {b}) = 2
            BY <2>1, <3>1, FS_AddElement
        <3>3. {a, b} = {a} \cup {b}
            OBVIOUS
        <3>. QED
            BY <3>2, <3>3
    <2>. QED
        BY <2>4, <2>5
<1>. QED
    BY <1>1, <1>2, <1>3, PrivilegedOneMoves DEF Privileged!vars

LEMMA AloneKeeps == AgreedInv /\ PrivilegedAlone /\ [Privileged!Next]_(Privileged!vars) /\ Cardinality(Privileged!Busy') <= 1 => PrivilegedAlone'
BY SerialStays, StepAlone DEF PrivilegedAlone

\* What PrivilegedAlone says of the requests while nothing is under way.
LEMMA AloneTells == PrivilegedAlone => Privileged!OneRequestEach /\ Privileged!NoneSurvive
<1>. SUFFICES ASSUME PrivilegedAlone, Privileged!Told, Privileged!Quiet, NEW t \in Types
              PROVE  /\ Privileged!Cardinality({r \in Asked : request[r] = Provisioned(t)})
                          = IF shadow[t] = "none" THEN 0 ELSE 1
                     /\ shadow[t] # "none" => Privileged!Linked(t) /\ row[t].status = Privileged!StatusOf(shadow[t])
    BY DEF PrivilegedAlone, Privileged!OneRequestEach, Provisioned
<1>1. \A p \in Privileged!Procs : ~Unsettled(task[p], t)
    BY DEF Privileged!Quiet, Privileged!Busy, Unsettled, Privileged!Idle
<1>2. PrivilegedStraight(t)
    BY <1>1 DEF PrivilegedAlone
<1>3. CASE shadow[t] = "none"
    <2>1. {r \in Asked : request[r] = Provisioned(t)} = {}
        BY <1>2, <1>3 DEF PrivilegedStraight, NoneMade
    <2>. QED
        BY <1>3, <2>1, FS_EmptySet, SameCount
<1>4. CASE shadow[t] # "none"
    <2>1. PICK r \in Asked : \A x \in Asked : request[x] = Provisioned(t) <=> x = r
        BY <1>2, <1>4 DEF PrivilegedStraight, OneMade
    <2>2. {x \in Asked : request[x] = Provisioned(t)} = {r}
        BY <2>1
    <2>. QED
        BY <1>2, <1>4, <2>2, FS_Singleton, SameCount DEF PrivilegedStraight
<1>. QED
    BY <1>3, <1>4

-----------------------------------------------------------------------------
(***************************************************************************)
(* The privileged accounts that MCJoiner runs: however many handlers       *)
(* overlap they are made as agreed, and of width 1 PrivilegedAlone is so.  *)
(***************************************************************************)
KeptSound == /\ AgreedInv /\ width \in Nat
             /\ width = 1 => PrivilegedAlone

LEMMA StartsSound == WideInit => KeptSound
<1>. SUFFICES ASSUME WideInit PROVE KeptSound
    OBVIOUS
<1>1. Privileged!Init /\ width \in 1..MaxInFlight
    BY DEF WideInit
<1>. QED
    BY <1>1, InitAgreed, InitAlone DEF KeptSound

LEMMA KeepsSound == KeptSound /\ [WideNext]_<<vars, others, subject, width>> => KeptSound'
<1>. SUFFICES ASSUME KeptSound, [WideNext]_<<vars, others, subject, width>> PROVE KeptSound'
    OBVIOUS
<1>1. /\ [Privileged!Next]_(Privileged!vars) /\ width' = width
      /\ Cardinality(Privileged!Busy') <= width \/ UNCHANGED Privileged!vars
    <2>1. CASE UNCHANGED others /\ width' = width
        BY <2>1 DEF others, Privileged!vars
    <2>2. CASE PrivilegedNext /\ width' = width
        BY <2>2, SameCount DEF PrivilegedNext
    <2>. QED
        BY <2>1, <2>2 DEF WideNext, others
<1>2. AgreedInv'
    BY <1>1, NextAgreed DEF KeptSound
<1>3. width = 1 => PrivilegedAlone'
    <2>1. CASE UNCHANGED Privileged!vars
        <3>1. PrivilegedSerial => PrivilegedSerial'
            BY <2>1 DEF Privileged!vars, PrivilegedSerial
        <3>. QED
            BY <1>1, <3>1, StepAlone DEF KeptSound, PrivilegedAlone
    <2>2. CASE Cardinality(Privileged!Busy') <= width
        BY <1>1, <2>2, AloneKeeps DEF KeptSound
    <2>. QED
        BY <1>1, <2>1, <2>2
<1>. QED
    BY <1>1, <1>2, <1>3 DEF KeptSound

\* privileged_accounts.py: no privileged account that nobody agreed to, whatever interleaves;
\* one handler at a time, each has the one request that made it, and none survives its
\* person's departure unless the directory refused, or somebody made or enabled it since.
THEOREM PrivilegedAlways == WideSpec => []PrivilegedSound
<1>1. KeptSound => PrivilegedSound
    <2>. SUFFICES ASSUME KeptSound PROVE PrivilegedSound
        OBVIOUS
    <2>1. Privileged!TypeOK /\ Privileged!MadeAsAgreed
        BY DEF KeptSound, AgreedInv
    <2>2. width = 1 => Privileged!OneRequestEach /\ Privileged!NoneSurvive
        BY AloneTells DEF KeptSound
    <2>. QED
        BY <2>1, <2>2 DEF PrivilegedSound, Alone
<1>. QED
    BY <1>1, StartsSound, KeepsSound, PTL DEF WideSpec

-----------------------------------------------------------------------------
(***************************************************************************)
(* Joiners, whatever interleaves.                                          *)
(***************************************************************************)
\* Who has an account has a User row.
HasUser(r) == (\E d \in Dirs : r.targets[d] \in {"CREATED", "ENABLED"}) => r.user # NoUser

\* What handler o's copy says of its person, against the row it will be written to: columns
\* it has not changed stay as others wrote them.
Own(o) ==
    /\ HasUser(o.row) /\ o.row.status # "NONE"
    /\ o.row.user = NoUser => o.read.user = NoUser
    /\ o.read.user # NoUser => joiner.user # NoUser
    /\ o.read.status # "NONE" => joiner.status # "NONE"
    /\ o.phase = "enable" => o.row.user # NoUser
    /\ o.phase = "grant" => o.row.user \in people

JoinerInv == /\ TypeOK /\ HasUser(joiner)
             /\ joiner.status = "NONE" => joiner.user = NoUser
             /\ \A p \in Procs : op[p] # Idle => Own(op[p])

Columns == {"status", "user", "targets", "requested", "start", "provisionAt"}

LEMMA Rows ==
    ASSUME NEW r
    PROVE  r \in Request <=>
             /\ r = [c \in Columns |-> r[c]]
             /\ r.status \in {"NONE", "PENDING_PROVISIONING", "SCHEDULED", "ACTIVE", "PARTIAL", "CANCELLED"}
             /\ r.user \in Dirs \cup {NoUser} /\ r.targets \in [Dirs -> TargetStatus]
             /\ r.requested \in SUBSET Dirs /\ r.start \in 0..MaxClock /\ r.provisionAt \in Nat
BY DEF Request, Columns

LEMMA HandlerShape ==
    ASSUME NEW o \in Handler
    PROVE  /\ o.read \in Request /\ o.row \in Request /\ o.rows \in [Dirs -> RowStatus] /\ o.todo \in SUBSET Dirs
           /\ o.phase \in {"create", "enable", "delete", "grant"} /\ o.started \in BOOLEAN
           /\ o.kind \in {"create", "provision", "retry", "activate", "cancel"} /\ o # Idle
BY DEF Handler, Idle

LEMMA DirsAreNumbers == Dirs \in SUBSET Nat /\ \A d \in Dirs : Kind[d] \in Kinds
BY ConstantsAssumption DEF Dirs

\* The directory a handler takes next is one of those it has to do.
LEMMA FirstIsOne == ASSUME NEW S \in SUBSET Dirs, S # {} PROVE First(S) \in S
<1>0. S \in SUBSET Nat
    BY DirsAreNumbers
<1>1. \E n \in S : \A m \in S : ~(<<m, n>> \in OpToRel(<, Nat))
    BY <1>0, NatLessThanWellFounded, WFMin
<1>2. PICK n \in S : \A m \in S : ~(<<m, n>> \in OpToRel(<, Nat))
    BY <1>1
<1>3. ASSUME NEW m \in S PROVE n <= m
    <2>1. ~(m < n)
        BY <1>0, <1>2 DEF OpToRel
    <2>. QED
        BY <1>0, <2>1
<1>. QED
    BY <1>3 DEF First

\* What becomes of a handler whose account was made, was not, was switched on, was deleted.
LEMMA MadeFields ==
    ASSUME NEW o \in Handler, NEW d \in Dirs, NEW c, c = AccountCreated(o, d)
    PROVE  /\ c \in Handler /\ c.phase = o.phase /\ c.kind = o.kind /\ c.read = o.read /\ c.started = o.started
           /\ c.row.status = o.row.status /\ c.row.requested = o.row.requested
           /\ c.row.targets = [o.row.targets EXCEPT ![d] = "CREATED"]
           /\ o.row.user = NoUser => c.row.user = d
           /\ o.row.user # NoUser => c.row.user = o.row.user
           /\ c.rows = [o.rows EXCEPT ![d] = "DISABLED"] /\ c.todo = o.todo \ {d}
BY DEF Handler, Request, TargetStatus, RowStatus, AccountCreated

LEMMA FailedFields ==
    ASSUME NEW o \in Handler, NEW d \in Dirs, NEW c, c = AccountFailed(o, d)
    PROVE  /\ c \in Handler /\ c.phase = o.phase /\ c.kind = o.kind /\ c.read = o.read /\ c.started = o.started
           /\ c.row.status = o.row.status /\ c.row.requested = o.row.requested
           /\ c.row.targets = [o.row.targets EXCEPT ![d] = "FAILED"]
           /\ c.row.user = o.row.user /\ c.rows = o.rows /\ c.todo = o.todo \ {d}
BY DEF Handler, Request, TargetStatus, AccountFailed

\* What no step takes back.
KeptRow == /\ joiner.user # NoUser => joiner'.user # NoUser
           /\ joiner.status # "NONE" => joiner'.status # "NONE"
           /\ people \subseteq people'

Rest == /\ joiner \in Request /\ account \in [Dirs -> Accounts] /\ rows \in [Dirs -> RowStatus]
        /\ people \subseteq Dirs /\ active \subseteq people /\ granted \subseteq people
        /\ on \subseteq Dirs /\ settings \in [delay : Delays, retry : BOOLEAN] /\ clock \in 0..MaxClock
        /\ HasUser(joiner) /\ (joiner.status = "NONE" => joiner.user = NoUser)

LEMMA OwnStays == ASSUME KeptRow, NEW o, Own(o) PROVE Own(o)'
BY DEF KeptRow, Own, HasUser

\* A step in which handler p becomes o, if any does.
LEMMA HandlerMoves ==
    ASSUME JoinerInv, KeptRow, Rest', NEW p \in Procs, NEW o \in Handler \cup {Idle}, o # Idle => Own(o)',
           op' = op \/ op' = [op EXCEPT ![p] = o]
    PROVE  JoinerInv'
<1>1. op' \in [Procs -> Handler \cup {Idle}]
    BY DEF JoinerInv, TypeOK
<1>2. ASSUME NEW x \in Procs, op'[x] # Idle PROVE Own(op[x])'
    <2>1. op'[x] = op[x] \/ op'[x] = o
        BY DEF JoinerInv, TypeOK
    <2>2. CASE op'[x] = op[x]
        <3>1. Own(op[x])
            BY <1>2, <2>2 DEF JoinerInv
        <3>2. PICK h : h = op[x]
            OBVIOUS
        <3>3. Own(h)'
            BY <3>1, <3>2, OwnStays
        <3>. QED
            BY <2>2, <3>2, <3>3 DEF Own, HasUser
    <2>3. CASE op'[x] = o
        BY <1>2, <2>3 DEF Own, HasUser
    <2>. QED
        BY <2>1, <2>2, <2>3
<1>. QED
    BY <1>1, <1>2 DEF JoinerInv, TypeOK, Rest

\* A commit keeps what it does not change.
LEMMA CommitWrites ==
    ASSUME JoinerInv, NEW o \in Handler, Commit(o)
    PROVE  /\ joiner' \in Request /\ rows' \in [Dirs -> RowStatus]
           /\ \A c \in Columns : joiner'[c] = IF o.row[c] = o.read[c] THEN joiner[c] ELSE o.row[c]
           /\ joiner'.status = IF o.row.status = o.read.status THEN joiner.status ELSE o.row.status
           /\ joiner'.user = IF o.row.user = o.read.user THEN joiner.user ELSE o.row.user
           /\ joiner'.targets = IF o.row.targets = o.read.targets THEN joiner.targets ELSE o.row.targets
           /\ joiner'.requested = IF o.row.requested = o.read.requested THEN joiner.requested ELSE o.row.requested
           /\ people \subseteq people' /\ people' \subseteq Dirs /\ (o.row.user # NoUser => o.row.user \in people')
<1>1. o.row \in Request /\ o.read \in Request /\ joiner \in Request /\ o.rows \in [Dirs -> RowStatus]
    BY HandlerShape DEF JoinerInv, TypeOK
<1>2. joiner' = [c \in Columns |-> IF o.row[c] = o.read[c] THEN joiner[c] ELSE o.row[c]]
    BY <1>1, Rows DEF Commit, Flushed
<1>3. /\ joiner'.status = IF o.row.status = o.read.status THEN joiner.status ELSE o.row.status
      /\ joiner'.user = IF o.row.user = o.read.user THEN joiner.user ELSE o.row.user
      /\ joiner'.targets = IF o.row.targets = o.read.targets THEN joiner.targets ELSE o.row.targets
      /\ joiner'.requested = IF o.row.requested = o.read.requested THEN joiner.requested ELSE o.row.requested
      /\ joiner'.start = IF o.row.start = o.read.start THEN joiner.start ELSE o.row.start
      /\ joiner'.provisionAt = IF o.row.provisionAt = o.read.provisionAt THEN joiner.provisionAt ELSE o.row.provisionAt
    BY <1>2 DEF Columns
<1>4. joiner' = [c \in Columns |-> joiner'[c]]
    BY <1>2
<1>5. joiner' \in Request
    BY <1>1, <1>3, <1>4, Rows
<1>6. rows' \in [Dirs -> RowStatus] /\ people' = people \cup ({o.row.user} \ {NoUser})
    BY <1>1 DEF Commit, JoinerInv, TypeOK
<1>7. people \subseteq people' /\ people' \subseteq Dirs /\ (o.row.user # NoUser => o.row.user \in people')
    BY <1>1, <1>6 DEF JoinerInv, TypeOK, Request
<1>. QED
    BY <1>2, <1>3, <1>5, <1>6, <1>7

LEMMA CommitKeeps ==
    ASSUME JoinerInv, NEW o \in Handler, Own(o), Commit(o)
    PROVE  KeptRow /\ HasUser(joiner)' /\ joiner'.status # "NONE"
           /\ (o.row.user # NoUser => joiner'.user # NoUser)
<1>1. KeptRow /\ joiner'.status # "NONE" /\ (o.row.user # NoUser => joiner'.user # NoUser)
    BY CommitWrites DEF KeptRow, Own
<1>2. HasUser(joiner)'
    <2>1. SUFFICES ASSUME joiner'.user = NoUser PROVE \A d \in Dirs : joiner'.targets[d] \notin {"CREATED", "ENABLED"}
        BY DEF HasUser
    <2>2. joiner.user = NoUser /\ o.row.user = NoUser
        BY <1>1, <2>1 DEF KeptRow
    <2>3. HasUser(joiner) /\ HasUser(o.row)
        BY DEF JoinerInv, Own
    <2>. QED
        BY <2>2, <2>3, CommitWrites DEF HasUser
<1>. QED
    BY <1>1, <1>2

-----------------------------------------------------------------------------
\* A handler that starts reads the row as it is.
LEMMA StartFields ==
    ASSUME JoinerInv, NEW k \in {"create", "provision", "retry", "activate", "cancel"},
           NEW ph \in {"create", "enable", "delete"}, NEW r \in Request, NEW S \in SUBSET Dirs,
           NEW o, o = NewOp(k, ph, r, S)
    PROVE  /\ o \in Handler /\ o.kind = k /\ o.phase = ph /\ o.read = joiner /\ o.row = r /\ o.todo = S
           /\ o.rows = [d \in Dirs |-> "none"]
<1>1. StartDue(r) \in BOOLEAN
    BY DEF StartDue
<1>2. [d \in Dirs |-> "none"] \in [Dirs -> RowStatus]
    BY DEF RowStatus
<1>. QED
    BY <1>1, <1>2 DEF NewOp, Handler, JoinerInv, TypeOK

LEMMA StartKeeps ==
    ASSUME JoinerInv, NEW p \in Procs, NEW o \in Handler, op' = [op EXCEPT ![p] = o],
           o.read = joiner, HasUser(o.row), o.row.status # "NONE", o.row.user = NoUser => joiner.user = NoUser,
           o.phase # "grant", o.phase = "enable" => o.row.user # NoUser,
           UNCHANGED <<joiner, account, rows, people, active, granted, on, settings, clock>>
    PROVE  JoinerInv'
<1>1. KeptRow /\ Rest'
    BY DEF KeptRow, Rest, JoinerInv, TypeOK, HasUser
<1>2. Own(o)'
    BY DEF Own, HasUser
<1>. QED
    BY <1>1, <1>2, HandlerMoves

LEMMA QuietKeeps ==
    ASSUME JoinerInv, UNCHANGED <<joiner, account, rows, people, active, granted, settings, op>>,
           on' \subseteq Dirs, clock' \in 0..MaxClock
    PROVE  JoinerInv'
BY DEF JoinerInv, TypeOK, Own, HasUser

LEMMA EndKeeps ==
    ASSUME JoinerInv, NEW p \in Procs, op' = [op EXCEPT ![p] = Idle], account' \in [Dirs -> Accounts],
           UNCHANGED <<joiner, rows, people, active, granted, on, settings, clock>>
    PROVE  JoinerInv'
<1>1. KeptRow /\ Rest'
    BY DEF KeptRow, Rest, JoinerInv, TypeOK, HasUser
<1>. QED
    BY <1>1, HandlerMoves

\* A handler that goes on keeps what it has read.
LEMMA ProgressKeeps ==
    ASSUME JoinerInv, NEW p \in Procs, op[p] # Idle, NEW o \in Handler, op' = [op EXCEPT ![p] = o],
           o.read = op[p].read, HasUser(o.row), o.row.status = op[p].row.status,
           o.row.user = NoUser => op[p].row.user = NoUser, o.phase # "grant",
           o.phase = "enable" => o.row.user # NoUser, account' \in [Dirs -> Accounts], UNCHANGED <<joiner, rows, people, active, granted, on, settings, clock>>
    PROVE  JoinerInv'
<1>1. KeptRow /\ Rest'
    BY DEF KeptRow, Rest, JoinerInv, TypeOK, HasUser
<1>2. Own(op[p])
    BY DEF JoinerInv
<1>3. Own(o)'
    BY <1>2 DEF Own, HasUser
<1>. QED
    BY <1>1, <1>3, HandlerMoves

\* What the directories answer is an account of one of the kinds there are.
LEMMA CreateOffTyped ==
    ASSUME NEW k \in Kinds, NEW a \in Accounts, NEW f \in FaultsOfACall, NEW r \in CreateUser(k, a, FALSE, f)
    PROVE  r.account \in Accounts
BY DEF Kinds, Accounts, FaultsOfACall, CreateUser, EntraCreate, OktaCreate, AdCreate, Result, Switch

LEMMA SwitchOnTyped ==
    ASSUME NEW k \in Kinds, NEW a \in Accounts, NEW f \in FaultsOfACall, NEW r \in SetUserEnabled(k, a, TRUE, f)
    PROVE  r.account \in Accounts
BY DEF Kinds, Accounts, FaultsOfACall, SetUserEnabled, EntraEnable, OktaEnable, AdEnable, Result, Switch

LEMMA DeleteTyped ==
    ASSUME NEW k \in Kinds, NEW a \in Accounts, NEW f \in FaultsOfACall, NEW r \in DeleteUser(k, a, f)
    PROVE  r.account \in Accounts
BY DEF Kinds, Accounts, FaultsOfACall, DeleteUser, EntraDelete, OktaDelete, AdDelete, Result

-----------------------------------------------------------------------------
\* A submission has no account yet.
LEMMA SubmittedFields ==
    ASSUME JoinerInv, NEW wanted \in SUBSET Dirs, NEW start \in clock..MaxClock, NEW r, r = Submitted(wanted, start)
    PROVE  /\ r \in Request /\ r.user = NoUser /\ r.targets = [d \in Dirs |-> "none"] /\ r.requested = wanted
           /\ r.status = IF Deferred(start) THEN "PENDING_PROVISIONING" ELSE "SCHEDULED"
<1>1. MaxClock \in Nat /\ Delays \subseteq Nat
    BY ConstantsAssumption
<1>2. clock \in Nat /\ settings.delay \in Nat /\ start \in 0..MaxClock
    <2>1. clock \in 0..MaxClock /\ settings \in [delay : Delays, retry : BOOLEAN]
        BY DEF JoinerInv, TypeOK
    <2>2. settings.delay \in Delays
        BY <2>1
    <2>3. clock \in Nat
        BY <1>1, <2>1
    <2>4. start \in 0..MaxClock
        BY <1>1, <2>1, <2>3
    <2>. QED
        BY <1>1, <2>2, <2>3, <2>4
<1>3. PICK at : at = IF Deferred(start) THEN clock + settings.delay ELSE clock
    OBVIOUS
<1>4. at \in Nat
    BY <1>2, <1>3
<1>5. r = [status |-> IF Deferred(start) THEN "PENDING_PROVISIONING" ELSE "SCHEDULED", user |-> NoUser,
           targets |-> [d \in Dirs |-> "none"], requested |-> wanted, start |-> start, provisionAt |-> at]
    BY <1>3 DEF Submitted, NoRequest
<1>. QED
    BY <1>2, <1>4, <1>5 DEF Request, TargetStatus

LEMMA CreateJoinerKeeps == ASSUME JoinerInv, NEW q \in Requests, CreateJoiner(q) PROVE JoinerInv'
<1>1. PICK picks \in (SUBSET on) \ {{}}, needs \in SUBSET Dirs, start \in clock..MaxClock :
        /\ joiner.status = "NONE"
        /\ LET r == Submitted(Wanted(picks, needs), start) IN
             IF Deferred(start) THEN joiner' = r /\ UNCHANGED op
             ELSE op' = [op EXCEPT ![q] = NewOp("create", "create", r, r.requested)] /\ UNCHANGED joiner
    BY DEF CreateJoiner
<1>2. UNCHANGED <<account, rows, people, active, granted, on, settings, clock>> /\ q \in Procs
    BY DEF CreateJoiner, Procs
<1>3. Wanted(picks, needs) \in SUBSET Dirs
    BY DEF Wanted, JoinerInv, TypeOK
<1>4. PICK r : r = Submitted(Wanted(picks, needs), start)
    OBVIOUS
<1>5. /\ r \in Request /\ r.user = NoUser /\ r.targets = [d \in Dirs |-> "none"] /\ r.requested \in SUBSET Dirs
      /\ r.status \in {"PENDING_PROVISIONING", "SCHEDULED"} /\ HasUser(r)
    BY <1>3, <1>4, SubmittedFields DEF HasUser
<1>6. joiner.user = NoUser
    BY <1>1 DEF JoinerInv
<1>7. CASE Deferred(start)
    <2>1. joiner' = r /\ op' = op
        BY <1>1, <1>4, <1>7
    <2>2. KeptRow /\ Rest'
        BY <1>2, <1>5, <1>6, <2>1 DEF KeptRow, Rest, JoinerInv, TypeOK, HasUser
    <2>. QED
        BY <1>2, <2>1, <2>2, HandlerMoves
<1>8. CASE ~Deferred(start)
    <2>1. PICK o : o = NewOp("create", "create", r, r.requested)
        OBVIOUS
    <2>2. op' = [op EXCEPT ![q] = o] /\ joiner' = joiner
        BY <1>1, <1>4, <1>8, <2>1
    <2>3. o \in Handler /\ o.phase = "create" /\ o.read = joiner /\ o.row = r
        BY <1>5, <2>1, StartFields
    <2>. QED
        BY <1>2, <1>5, <1>6, <2>2, <2>3, StartKeeps
<1>. QED
    BY <1>7, <1>8

LEMMA ProvisionDueKeeps == ASSUME JoinerInv, ProvisionDue PROVE JoinerInv'
<1>1. PICK o : o = NewOp("provision", "create", joiner, joiner.requested)
    OBVIOUS
<1>2. joiner \in Request /\ joiner.requested \in SUBSET Dirs /\ Worker \in Procs
    BY DEF JoinerInv, TypeOK, Request, Procs
<1>3. o \in Handler /\ o.phase = "create" /\ o.read = joiner /\ o.row = joiner
    BY <1>1, <1>2, StartFields
<1>4. op' = [op EXCEPT ![Worker] = o] /\ joiner.status # "NONE" /\ HasUser(joiner)
    BY <1>1 DEF ProvisionDue, JoinerInv
<1>5. UNCHANGED <<joiner, account, rows, people, active, granted, on, settings, clock>>
    BY DEF ProvisionDue
<1>. QED
    BY <1>2, <1>3, <1>4, <1>5, StartKeeps

LEMMA RetryFields ==
    ASSUME JoinerInv, NEW o,
           o = [NewOp("retry", "create", joiner, Having(joiner, {"FAILED"}))
                   EXCEPT !.started = @ \/ joiner.status \in {"ACTIVE", "PARTIAL"}]
    PROVE  /\ o \in Handler /\ o.kind = "retry" /\ o.phase = "create" /\ o.read = joiner /\ o.row = joiner
           /\ o.todo = Having(joiner, {"FAILED"}) /\ o.rows = [d \in Dirs |-> "none"]
<1>. PICK S \in SUBSET Dirs : S = Having(joiner, {"FAILED"})
    BY DEF Having
<1>1. PICK n : n = NewOp("retry", "create", joiner, S)
    OBVIOUS
<1>2. /\ n \in Handler /\ n.kind = "retry" /\ n.phase = "create" /\ n.read = joiner /\ n.row = joiner /\ n.todo = S
      /\ n.rows = [d \in Dirs |-> "none"]
    BY <1>1, StartFields DEF JoinerInv, TypeOK
<1>. DEFINE c == n.started \/ joiner.status \in {"ACTIVE", "PARTIAL"}
<1>3. c \in BOOLEAN
    OBVIOUS
<1>4. o = [n EXCEPT !.started = c]
    BY <1>1, Zenon
<1>. HIDE DEF c
<1>. QED
    BY <1>2, <1>3, <1>4 DEF Handler

LEMMA RetryKeeps == ASSUME JoinerInv, NEW p \in Procs, RetryJoiner(p) PROVE JoinerInv'
<1>1. PICK o : o = [NewOp("retry", "create", joiner, Having(joiner, {"FAILED"}))
                       EXCEPT !.started = @ \/ joiner.status \in {"ACTIVE", "PARTIAL"}]
    OBVIOUS
<1>2. op' = [op EXCEPT ![p] = o] /\ joiner.status # "NONE"
    BY <1>1, Zenon DEF RetryJoiner
<1>3. UNCHANGED <<joiner, account, rows, people, active, granted, on, settings, clock>>
    BY DEF RetryJoiner
<1>4. o \in Handler /\ o.phase = "create" /\ o.read = joiner /\ o.row = joiner
    BY <1>1, RetryFields
<1>5. HasUser(joiner)
    BY DEF JoinerInv
<1>. QED
    BY <1>2, <1>3, <1>4, <1>5, StartKeeps

LEMMA ActivateDueKeeps == ASSUME JoinerInv, ActivateDue PROVE JoinerInv'
<1>1. PICK o : o = NewOp("activate", "enable", joiner, Having(joiner, {"CREATED"}))
    OBVIOUS
<1>2. joiner \in Request /\ Having(joiner, {"CREATED"}) \in SUBSET Dirs /\ Worker \in Procs
    BY DEF JoinerInv, TypeOK, Having, Procs
<1>3. o \in Handler /\ o.phase = "enable" /\ o.read = joiner /\ o.row = joiner
    BY <1>1, <1>2, StartFields
<1>4. op' = [op EXCEPT ![Worker] = o] /\ joiner.status # "NONE" /\ HasUser(joiner) /\ joiner.user # NoUser
    BY <1>1 DEF ActivateDue, JoinerInv
<1>5. UNCHANGED <<joiner, account, rows, people, active, granted, on, settings, clock>>
    BY DEF ActivateDue
<1>. QED
    BY <1>2, <1>3, <1>4, <1>5, StartKeeps

\* The request is marked first, the accounts are deleted after.
LEMMA CancelFields ==
    ASSUME JoinerInv, NEW r, r = [joiner EXCEPT !.status = "CANCELLED"]
    PROVE  r \in Request /\ r.status = "CANCELLED" /\ r.user = joiner.user /\ r.targets = joiner.targets
           /\ r.requested = joiner.requested
BY DEF JoinerInv, TypeOK, Request

LEMMA CancelKeeps == ASSUME JoinerInv, NEW q \in Requests, CancelJoiner(q) PROVE JoinerInv'
<1>1. PICK r : r = [joiner EXCEPT !.status = "CANCELLED"]
    OBVIOUS
<1>2. PICK S \in SUBSET Dirs : op' = [op EXCEPT ![q] = NewOp("cancel", "delete", r, S)]
    BY <1>1 DEF CancelJoiner, Having
<1>3. PICK o : o = NewOp("cancel", "delete", r, S)
    OBVIOUS
<1>4. r \in Request /\ r.status = "CANCELLED" /\ r.user = joiner.user /\ HasUser(r) /\ q \in Procs
    BY <1>1, CancelFields DEF HasUser, JoinerInv, Procs
<1>5. o \in Handler /\ o.phase = "delete" /\ o.read = joiner /\ o.row = r
    BY <1>3, <1>4, StartFields
<1>6. UNCHANGED <<joiner, account, rows, people, active, granted, on, settings, clock>>
    BY DEF CancelJoiner
<1>. QED
    BY <1>2, <1>3, <1>4, <1>5, <1>6, StartKeeps

-----------------------------------------------------------------------------
\* The handler that acts, and the directory it has its turn with.
LEMMA Taking ==
    ASSUME JoinerInv, NEW p \in Procs, NEW h, h = op[p], h # Idle
    PROVE  h \in Handler /\ Own(h) /\ (h.todo # {} => First(h.todo) \in h.todo /\ First(h.todo) \in Dirs)
<1>1. h \in Handler /\ Own(h)
    BY DEF JoinerInv, TypeOK
<1>2. PICK S : S = h.todo
    OBVIOUS
<1>3. S \in SUBSET Dirs
    BY <1>1, <1>2, HandlerShape
<1>. QED
    BY <1>1, <1>2, <1>3, FirstIsOne

\* What a call to create an account does, to the account and to the handler.
LEMMA CreateCall ==
    ASSUME JoinerInv, NEW p \in Procs, NEW h, h = op[p], CallCreate(p)
    PROVE  /\ h \in Handler /\ h # Idle /\ Own(h) /\ h.phase = "create"
           /\ \E d \in Dirs, f \in FaultsOfACall : \E r \in CreateUser(Kind[d], account[d], FALSE, f), o \in Handler \cup {Idle} :
                /\ d \in h.todo /\ Goes(f)
                /\ account' = [account EXCEPT ![d] = r.account] /\ op' = [op EXCEPT ![p] = o]
                /\ r.answer = "ok" => o = AccountCreated(h, d)
                /\ r.answer = "raised" => o = Idle
                /\ r.answer \notin {"ok", "raised"} => o = AccountFailed(h, d)
<1>1. h.phase = "create" /\ h.todo # {} /\ h # Idle
    BY DEF CallCreate, Idle
<1>2. h \in Handler /\ Own(h) /\ First(h.todo) \in h.todo /\ First(h.todo) \in Dirs
    BY <1>1, Taking
<1>3. PICK d \in Dirs : d = First(h.todo)
    BY <1>2
<1>4. PICK f \in FaultsOfACall : Goes(f) /\ \E r \in CreateUser(Kind[d], account[d], FALSE, f) :
         /\ account' = [account EXCEPT ![d] = r.account]
         /\ op' = [op EXCEPT ![p] = CASE r.answer = "ok"     -> AccountCreated(h, d)
                                      [] r.answer = "raised" -> Idle
                                      [] OTHER               -> AccountFailed(h, d)]
    BY <1>3 DEF CallCreate
<1>5. PICK r \in CreateUser(Kind[d], account[d], FALSE, f) :
         /\ account' = [account EXCEPT ![d] = r.account]
         /\ op' = [op EXCEPT ![p] = CASE r.answer = "ok"     -> AccountCreated(h, d)
                                      [] r.answer = "raised" -> Idle
                                      [] OTHER               -> AccountFailed(h, d)]
    BY <1>4
<1>6. PICK o : o = CASE r.answer = "ok" -> AccountCreated(h, d) [] r.answer = "raised" -> Idle
                     [] OTHER -> AccountFailed(h, d)
    OBVIOUS
<1>7. /\ r.answer = "ok" => o = AccountCreated(h, d)
      /\ r.answer = "raised" => o = Idle
      /\ r.answer \notin {"ok", "raised"} => o = AccountFailed(h, d)
    BY <1>6
<1>8. op' = [op EXCEPT ![p] = o]
    BY <1>5, <1>6
<1>9. AccountCreated(h, d) \in Handler /\ AccountFailed(h, d) \in Handler
    BY <1>2, MadeFields, FailedFields
<1>10. o \in Handler \cup {Idle}
    BY <1>7, <1>9
<1>. QED
    BY <1>1, <1>2, <1>3, <1>4, <1>5, <1>7, <1>8, <1>10

LEMMA CallCreateKeeps == ASSUME JoinerInv, NEW p \in Procs, CallCreate(p) PROVE JoinerInv'
<1>1. PICK h : h = op[p]
    OBVIOUS
<1>2. h \in Handler /\ Own(h) /\ h.phase = "create" /\ h # Idle
    BY <1>1, CreateCall
<1>3. PICK d \in Dirs, f \in FaultsOfACall : \E r \in CreateUser(Kind[d], account[d], FALSE, f), o \in Handler \cup {Idle} :
        /\ d \in h.todo /\ Goes(f)
        /\ account' = [account EXCEPT ![d] = r.account] /\ op' = [op EXCEPT ![p] = o]
        /\ r.answer = "ok" => o = AccountCreated(h, d)
        /\ r.answer = "raised" => o = Idle
        /\ r.answer \notin {"ok", "raised"} => o = AccountFailed(h, d)
    BY <1>1, CreateCall
<1>4. PICK r \in CreateUser(Kind[d], account[d], FALSE, f), o \in Handler \cup {Idle} :
        /\ d \in h.todo /\ Goes(f)
        /\ account' = [account EXCEPT ![d] = r.account] /\ op' = [op EXCEPT ![p] = o]
        /\ r.answer = "ok" => o = AccountCreated(h, d)
        /\ r.answer = "raised" => o = Idle
        /\ r.answer \notin {"ok", "raised"} => o = AccountFailed(h, d)
    BY <1>3
<1>5. Kind[d] \in Kinds /\ account \in [Dirs -> Accounts] /\ account[d] \in Accounts
    BY DirsAreNumbers DEF JoinerInv, TypeOK
<1>6. r.account \in Accounts
    BY <1>5, CreateOffTyped
<1>7. account' \in [Dirs -> Accounts] /\ UNCHANGED <<joiner, rows, people, active, granted, on, settings, clock>>
    BY <1>4, <1>5, <1>6 DEF CallCreate
<1>8. CASE o = Idle
    BY <1>4, <1>7, <1>8, EndKeeps
<1>9. CASE o = AccountCreated(h, d)
    <2>1. /\ o \in Handler /\ o.phase = h.phase /\ o.read = h.read /\ o.row.status = h.row.status
          /\ h.row.user = NoUser => o.row.user = d
          /\ h.row.user # NoUser => o.row.user = h.row.user
        BY <1>2, <1>9 DEF AccountCreated, Handler, Request, TargetStatus, RowStatus
    <2>2. o.row.user # NoUser
        BY <2>1, ConstantsAssumption
    <2>3. HasUser(o.row)
        BY <2>2 DEF HasUser
    <2>. QED
        BY <1>1, <1>2, <1>4, <1>7, <2>1, <2>2, <2>3, ProgressKeeps
<1>10. CASE o = AccountFailed(h, d)
    <2>1. /\ o \in Handler /\ o.phase = h.phase /\ o.read = h.read /\ o.row.status = h.row.status
          /\ o.row.user = h.row.user /\ o.row.targets = [h.row.targets EXCEPT ![d] = "FAILED"]
        BY <1>2, <1>10, FailedFields
    <2>2. h.row.targets \in [Dirs -> TargetStatus] /\ HasUser(h.row)
        BY <1>2, HandlerShape DEF Own, Request
    <2>3. HasUser(o.row)
        BY <2>1, <2>2 DEF HasUser
    <2>. QED
        BY <1>1, <1>2, <1>4, <1>7, <2>1, <2>3, ProgressKeeps
<1>. QED
    BY <1>4, <1>8, <1>9, <1>10

-----------------------------------------------------------------------------
LEMMA RefuseKeeps == ASSUME JoinerInv, NEW p \in Procs, RefuseJoiner(p) PROVE JoinerInv'
<1>1. op' = [op EXCEPT ![p] = Idle] /\ UNCHANGED <<joiner, account, rows, people, active, granted, on, settings, clock>>
    BY DEF RefuseJoiner, Ends
<1>2. account' \in [Dirs -> Accounts]
    BY <1>1 DEF JoinerInv, TypeOK
<1>. QED
    BY <1>1, <1>2, EndKeeps

\* The handler after its commit, and what it goes on to, if it does.
LEMMA CommittedFields ==
    ASSUME NEW o \in Handler, NEW r \in Request, NEW c, c = Committed(o, r)
    PROVE  /\ c \in Handler /\ c.phase = o.phase /\ c.kind = o.kind /\ c.read = o.row /\ c.row = r
           /\ c.rows = o.rows /\ c.todo = o.todo /\ c.started = o.started
BY DEF Committed, Handler

LEMMA EnablingFields ==
    ASSUME NEW o \in Handler, NEW r \in Request, NEW c, c = Enabling(o, r)
    PROVE  /\ c \in Handler /\ c.phase = "enable" /\ c.read = o.row /\ c.row = r /\ c.rows = o.rows
           /\ c.todo = Having(r, {"CREATED"}) /\ c.kind = o.kind
<1>1. PICK m : m = Committed(o, r)
    OBVIOUS
<1>2. m \in Handler /\ m.read = o.row /\ m.row = r /\ m.rows = o.rows /\ m.kind = o.kind
    BY <1>1, CommittedFields
<1>3. PICK S \in SUBSET Dirs : S = Having(r, {"CREATED"})
    BY DEF Having
<1>4. c = [m EXCEPT !.phase = "enable", !.todo = S]
    BY <1>1, <1>3 DEF Enabling
<1>. QED
    BY <1>2, <1>3, <1>4 DEF Handler

\* A row whose status is written over.
LEMMA StatusFields ==
    ASSUME NEW r \in Request, NEW s \in {"PENDING_PROVISIONING", "SCHEDULED", "ACTIVE", "PARTIAL", "CANCELLED"}, NEW c,
           c = [r EXCEPT !.status = s]
    PROVE  c \in Request /\ c.status = s /\ c.user = r.user /\ c.targets = r.targets /\ c.requested = r.requested
BY DEF Request

\* What _create_accounts commits, and what comes after it.
\* The copy o that a handler h commits when it has asked every directory, the row r that it
\* then goes by, and the handler n it becomes.
CreationOver(p, h, o, r, n) ==
    /\ o = [h EXCEPT !.row.status = AfterCreation(h)] /\ r = BeforeEnabling(o)
    /\ o.read = h.read /\ o.rows = h.rows /\ o.row.status = AfterCreation(h) /\ o.row.status # "NONE"
    /\ o.kind = h.kind
    /\ o.row.user = h.row.user /\ o.row.targets = h.row.targets /\ o.row.requested = h.row.requested
    /\ r.user = o.row.user /\ r.targets = o.row.targets /\ r.requested = o.row.requested
    /\ r.status = o.row.status \/ (r.status = "PARTIAL" /\ o.row.status = "SCHEDULED" /\ o.kind = "retry")
    /\ Commit(o) /\ op' = [op EXCEPT ![p] = n]
    /\ n = Idle \/ (n = Enabling(o, r) /\ r.user # NoUser)

LEMMA FinishCreateCall ==
    ASSUME JoinerInv, NEW p \in Procs, NEW h, h = op[p], FinishCreate(p)
    PROVE  /\ h \in Handler /\ h # Idle /\ Own(h) /\ h.phase = "create" /\ h.todo = {}
           /\ ~(h.kind = "create" /\ h.row.user = NoUser)
           /\ \E o \in Handler, r \in Request, n \in Handler \cup {Idle} : CreationOver(p, h, o, r, n)
<1>1. h.phase = "create" /\ h.todo = {} /\ ~(h.kind = "create" /\ h.row.user = NoUser) /\ h # Idle
    BY DEF FinishCreate, Idle
<1>2. h \in Handler /\ Own(h) /\ h.row \in Request
    BY <1>1, Taking, HandlerShape
<1>3. PICK s : s = AfterCreation(h)
    OBVIOUS
<1>4. s \in {"PENDING_PROVISIONING", "SCHEDULED", "ACTIVE", "PARTIAL", "CANCELLED"}
    BY <1>2, <1>3 DEF AfterCreation, Own, Request
<1>5. PICK o : o = [h EXCEPT !.row.status = s]
    OBVIOUS
<1>6. /\ o \in Handler /\ o.kind = h.kind /\ o.read = h.read /\ o.rows = h.rows
      /\ o.row = [h.row EXCEPT !.status = s]
    BY <1>2, <1>4, <1>5 DEF Handler, Request
<1>7. /\ o.row \in Request /\ o.row.status = s /\ o.row.user = h.row.user /\ o.row.targets = h.row.targets
      /\ o.row.requested = h.row.requested
    BY <1>2, <1>4, <1>6, StatusFields
<1>8. PICK r : r = BeforeEnabling(o)
    OBVIOUS
<1>9. /\ r \in Request /\ r.user = o.row.user /\ r.targets = o.row.targets /\ r.requested = o.row.requested
      /\ r.status = o.row.status \/ (r.status = "PARTIAL" /\ o.row.status = "SCHEDULED" /\ o.kind = "retry")
    <2>1. CASE o.kind = "retry" /\ o.row.status = "SCHEDULED"
        <3>1. r = [o.row EXCEPT !.status = "PARTIAL"]
            BY <1>8, <2>1 DEF BeforeEnabling
        <3>. QED
            BY <1>7, <2>1, <3>1, StatusFields
    <2>2. CASE ~(o.kind = "retry" /\ o.row.status = "SCHEDULED")
        BY <1>7, <1>8, <2>2 DEF BeforeEnabling
    <2>. QED
        BY <2>1, <2>2
<1>10. PICK n : n = IF Activates(o, r) THEN Enabling(o, r) ELSE Idle
    OBVIOUS
<1>11. Commit(o) /\ op' = [op EXCEPT ![p] = n]
    BY <1>3, <1>5, <1>8, <1>10 DEF FinishCreate
<1>12. n = Idle \/ (n = Enabling(o, r) /\ r.user # NoUser)
    BY <1>10 DEF Activates
<1>13. Enabling(o, r) \in Handler
    BY <1>6, <1>9, EnablingFields
<1>14. n \in Handler \cup {Idle}
    BY <1>12, <1>13
<1>15. CreationOver(p, h, o, r, n)
    BY <1>3, <1>4, <1>5, <1>6, <1>7, <1>8, <1>9, <1>11, <1>12 DEF CreationOver
<1>. QED
    BY <1>1, <1>2, <1>6, <1>9, <1>14, <1>15

\* A commit, and the handler n that goes on from it.
LEMMA CommittingKeeps ==
    ASSUME JoinerInv, NEW p \in Procs, NEW o \in Handler, Own(o), Commit(o), NEW n \in Handler \cup {Idle},
           op' = [op EXCEPT ![p] = n],
           n # Idle => /\ n.read = o.row /\ n.row.user = o.row.user /\ n.row.targets = o.row.targets
                       /\ n.row.status # "NONE" /\ (n.phase \in {"enable", "grant"} => n.row.user # NoUser),
           active' \subseteq people', UNCHANGED <<account, granted, on, settings, clock>>
    PROVE  JoinerInv'
<1>1. KeptRow /\ HasUser(joiner)' /\ joiner'.status # "NONE" /\ (o.row.user # NoUser => joiner'.user # NoUser)
    BY CommitKeeps
<1>2. Rest'
    BY <1>1, CommitWrites DEF Rest, JoinerInv, TypeOK
<1>3. n # Idle => Own(n)'
    <2>1. SUFFICES ASSUME n # Idle PROVE Own(n)'
        OBVIOUS
    <2>2. HasUser(n.row)
        BY <2>1 DEF Own, HasUser
    <2>3. n.phase = "grant" => n.row.user \in people'
        BY <2>1, CommitWrites
    <2>. QED
        BY <1>1, <2>1, <2>2, <2>3 DEF Own, HasUser
<1>. QED
    BY <1>1, <1>2, <1>3, HandlerMoves

LEMMA FinishCreateKeeps == ASSUME JoinerInv, NEW p \in Procs, FinishCreate(p) PROVE JoinerInv'
<1>1. PICK h : h = op[p]
    OBVIOUS
<1>2. h \in Handler /\ Own(h)
    BY <1>1, FinishCreateCall
<1>3. PICK o \in Handler, r \in Request, n \in Handler \cup {Idle} : CreationOver(p, h, o, r, n)
    BY <1>1, FinishCreateCall
<1>4. /\ o = [h EXCEPT !.row.status = AfterCreation(h)] /\ r = BeforeEnabling(o)
      /\ o.read = h.read /\ o.rows = h.rows /\ o.row.status = AfterCreation(h) /\ o.row.status # "NONE"
      /\ o.kind = h.kind
      /\ o.row.user = h.row.user /\ o.row.targets = h.row.targets /\ o.row.requested = h.row.requested
      /\ r.user = o.row.user /\ r.targets = o.row.targets /\ r.requested = o.row.requested
      /\ r.status = o.row.status \/ (r.status = "PARTIAL" /\ o.row.status = "SCHEDULED" /\ o.kind = "retry")
      /\ Commit(o) /\ op' = [op EXCEPT ![p] = n]
      /\ n = Idle \/ (n = Enabling(o, r) /\ r.user # NoUser)
    BY <1>3 DEF CreationOver
<1>5. o.phase = "create"
    BY <1>1, <1>2, <1>4 DEF FinishCreate, Handler
<1>6. Own(o)
    BY <1>2, <1>4, <1>5 DEF Own, HasUser
<1>7. n # Idle => /\ n.read = o.row /\ n.row.user = o.row.user /\ n.row.targets = o.row.targets
                  /\ n.row.status # "NONE" /\ n.row.user # NoUser
    <2>1. SUFFICES ASSUME n = Enabling(o, r), r.user # NoUser
                   PROVE  /\ n.read = o.row /\ n.row.user = o.row.user /\ n.row.targets = o.row.targets
                          /\ n.row.status # "NONE" /\ n.row.user # NoUser
        BY <1>4
    <2>2. n.phase = "enable" /\ n.read = o.row /\ n.row = r
        BY <2>1, EnablingFields
    <2>. QED
        BY <1>4, <2>1, <2>2
<1>8. active' \subseteq people' /\ UNCHANGED <<account, granted, on, settings, clock>>
    BY <1>4, CommitWrites DEF FinishCreate, JoinerInv, TypeOK
<1>. QED
    BY <1>4, <1>6, <1>7, <1>8, CommittingKeeps

-----------------------------------------------------------------------------
\* The handler after an account was switched on, deleted, or neither.
SwitchedOn(o, d) == [o EXCEPT !.row.targets[d] = "ENABLED", !.rows[d] = "ACTIVE", !.todo = @ \ {d}]
Deleted(o, d)    == [o EXCEPT !.row.targets[d] = "DELETED", !.rows[d] = "DELETED", !.todo = @ \ {d}]
Skipped(o, d)    == [o EXCEPT !.todo = @ \ {d}]

LEMMA OnFields ==
    ASSUME NEW h \in Handler, NEW d \in Dirs, NEW o, o = SwitchedOn(h, d)
    PROVE  /\ o \in Handler /\ o.phase = h.phase /\ o.kind = h.kind /\ o.read = h.read
           /\ o.row.status = h.row.status /\ o.row.user = h.row.user /\ o.row.requested = h.row.requested
           /\ o.row.targets = [h.row.targets EXCEPT ![d] = "ENABLED"] /\ o.rows = [h.rows EXCEPT ![d] = "ACTIVE"]
           /\ o.todo = h.todo \ {d}
BY DEF SwitchedOn, Handler, Request, TargetStatus, RowStatus

LEMMA OffFields ==
    ASSUME NEW h \in Handler, NEW d \in Dirs, NEW o, o = Deleted(h, d)
    PROVE  /\ o \in Handler /\ o.phase = h.phase /\ o.kind = h.kind /\ o.read = h.read
           /\ o.row.status = h.row.status /\ o.row.user = h.row.user /\ o.row.requested = h.row.requested
           /\ o.row.targets = [h.row.targets EXCEPT ![d] = "DELETED"] /\ o.rows = [h.rows EXCEPT ![d] = "DELETED"]
           /\ o.todo = h.todo \ {d}
BY DEF Deleted, Handler, Request, TargetStatus, RowStatus

LEMMA SkipFields ==
    ASSUME NEW h \in Handler, NEW d \in Dirs, NEW o, o = Skipped(h, d)
    PROVE  /\ o \in Handler /\ o.phase = h.phase /\ o.kind = h.kind /\ o.read = h.read
           /\ o.row.status = h.row.status /\ o.row.user = h.row.user /\ o.row.requested = h.row.requested
           /\ o.row.targets = h.row.targets /\ o.rows = h.rows
           /\ o.todo = h.todo \ {d}
BY DEF Skipped, Handler, Request, TargetStatus, RowStatus

LEMMA EnableCall ==
    ASSUME JoinerInv, NEW p \in Procs, NEW h, h = op[p], CallEnable(p)
    PROVE  /\ h \in Handler /\ h # Idle /\ Own(h) /\ h.phase = "enable"
           /\ \E d \in Dirs, f \in FaultsOfACall : \E r \in SetUserEnabled(Kind[d], account[d], TRUE, f), o \in Handler \cup {Idle} :
                /\ d \in h.todo /\ Goes(f)
                /\ account' = [account EXCEPT ![d] = r.account] /\ op' = [op EXCEPT ![p] = o]
                /\ r.answer = "ok" => o = SwitchedOn(h, d)
                /\ r.answer = "raised" => o = Idle
                /\ r.answer \notin {"ok", "raised"} => o = Skipped(h, d)
<1>1. h.phase = "enable" /\ h.todo # {} /\ h # Idle
    BY DEF CallEnable, Idle
<1>2. h \in Handler /\ Own(h) /\ First(h.todo) \in h.todo /\ First(h.todo) \in Dirs
    BY <1>1, Taking
<1>3. PICK d \in Dirs : d = First(h.todo)
    BY <1>2
<1>4. PICK f \in FaultsOfACall : Goes(f) /\ \E r \in SetUserEnabled(Kind[d], account[d], TRUE, f) :
         /\ account' = [account EXCEPT ![d] = r.account]
         /\ op' = [op EXCEPT ![p] = CASE r.answer = "ok"     -> SwitchedOn(h, d)
                                      [] r.answer = "raised" -> Idle
                                      [] OTHER               -> Skipped(h, d)]
    <2>1. PICK f \in FaultsOfACall : Goes(f) /\ \E r \in SetUserEnabled(Kind[First(op[p].todo)], account[First(op[p].todo)], TRUE, f) :
             /\ account' = [account EXCEPT ![First(op[p].todo)] = r.account]
             /\ op' = [op EXCEPT ![p] = CASE r.answer = "ok"     -> SwitchedOn(op[p], First(op[p].todo))
                                          [] r.answer = "raised" -> Idle
                                          [] OTHER               -> Skipped(op[p], First(op[p].todo))]
        BY DEF CallEnable, SwitchedOn, Skipped
    <2>. QED
        BY <1>3, <2>1
<1>5. PICK r \in SetUserEnabled(Kind[d], account[d], TRUE, f) :
         /\ account' = [account EXCEPT ![d] = r.account]
         /\ op' = [op EXCEPT ![p] = CASE r.answer = "ok"     -> SwitchedOn(h, d)
                                      [] r.answer = "raised" -> Idle
                                      [] OTHER               -> Skipped(h, d)]
    BY <1>4
<1>6. PICK o : o = CASE r.answer = "ok" -> SwitchedOn(h, d) [] r.answer = "raised" -> Idle [] OTHER -> Skipped(h, d)
    OBVIOUS
<1>7. /\ r.answer = "ok" => o = SwitchedOn(h, d)
      /\ r.answer = "raised" => o = Idle
      /\ r.answer \notin {"ok", "raised"} => o = Skipped(h, d)
    BY <1>6
<1>8. op' = [op EXCEPT ![p] = o]
    BY <1>5, <1>6
<1>9. SwitchedOn(h, d) \in Handler /\ Skipped(h, d) \in Handler
    BY <1>2, <1>3, OnFields, SkipFields
<1>10. o \in Handler \cup {Idle}
    BY <1>7, <1>9
<1>. QED
    BY <1>1, <1>2, <1>3, <1>4, <1>5, <1>7, <1>8, <1>10

LEMMA DeleteCall ==
    ASSUME JoinerInv, NEW p \in Procs, NEW h, h = op[p], CallDelete(p)
    PROVE  /\ h \in Handler /\ h # Idle /\ Own(h) /\ h.phase = "delete"
           /\ \E d \in Dirs, f \in FaultsOfACall : \E r \in DeleteUser(Kind[d], account[d], f), o \in Handler \cup {Idle} :
                /\ d \in h.todo /\ Goes(f)
                /\ account' = [account EXCEPT ![d] = r.account] /\ op' = [op EXCEPT ![p] = o]
                /\ r.answer = "ok" => o = Deleted(h, d)
                /\ r.answer = "raised" => o = Idle
                /\ r.answer \notin {"ok", "raised"} => o = Skipped(h, d)
<1>1. h.phase = "delete" /\ h.todo # {} /\ h # Idle
    BY DEF CallDelete, Idle
<1>2. h \in Handler /\ Own(h) /\ First(h.todo) \in h.todo /\ First(h.todo) \in Dirs
    BY <1>1, Taking
<1>3. PICK d \in Dirs : d = First(h.todo)
    BY <1>2
<1>4. PICK f \in FaultsOfACall : Goes(f) /\ \E r \in DeleteUser(Kind[d], account[d], f) :
         /\ account' = [account EXCEPT ![d] = r.account]
         /\ op' = [op EXCEPT ![p] = CASE r.answer = "ok"     -> Deleted(h, d)
                                      [] r.answer = "raised" -> Idle
                                      [] OTHER               -> Skipped(h, d)]
    <2>1. PICK f \in FaultsOfACall : Goes(f) /\ \E r \in DeleteUser(Kind[First(op[p].todo)], account[First(op[p].todo)], f) :
             /\ account' = [account EXCEPT ![First(op[p].todo)] = r.account]
             /\ op' = [op EXCEPT ![p] = CASE r.answer = "ok"     -> Deleted(op[p], First(op[p].todo))
                                          [] r.answer = "raised" -> Idle
                                          [] OTHER               -> Skipped(op[p], First(op[p].todo))]
        BY DEF CallDelete, Deleted, Skipped
    <2>. QED
        BY <1>3, <2>1
<1>5. PICK r \in DeleteUser(Kind[d], account[d], f) :
         /\ account' = [account EXCEPT ![d] = r.account]
         /\ op' = [op EXCEPT ![p] = CASE r.answer = "ok"     -> Deleted(h, d)
                                      [] r.answer = "raised" -> Idle
                                      [] OTHER               -> Skipped(h, d)]
    BY <1>4
<1>6. PICK o : o = CASE r.answer = "ok" -> Deleted(h, d) [] r.answer = "raised" -> Idle [] OTHER -> Skipped(h, d)
    OBVIOUS
<1>7. /\ r.answer = "ok" => o = Deleted(h, d)
      /\ r.answer = "raised" => o = Idle
      /\ r.answer \notin {"ok", "raised"} => o = Skipped(h, d)
    BY <1>6
<1>8. op' = [op EXCEPT ![p] = o]
    BY <1>5, <1>6
<1>9. Deleted(h, d) \in Handler /\ Skipped(h, d) \in Handler
    BY <1>2, <1>3, OffFields, SkipFields
<1>10. o \in Handler \cup {Idle}
    BY <1>7, <1>9
<1>. QED
    BY <1>1, <1>2, <1>3, <1>4, <1>5, <1>7, <1>8, <1>10

LEMMA CallEnableKeeps == ASSUME JoinerInv, NEW p \in Procs, CallEnable(p) PROVE JoinerInv'
<1>1. PICK h : h = op[p]
    OBVIOUS
<1>2. h \in Handler /\ Own(h) /\ h.phase = "enable" /\ h # Idle
    BY <1>1, EnableCall
<1>3. PICK d \in Dirs, f \in FaultsOfACall : \E r \in SetUserEnabled(Kind[d], account[d], TRUE, f), o \in Handler \cup {Idle} :
        /\ d \in h.todo /\ Goes(f)
        /\ account' = [account EXCEPT ![d] = r.account] /\ op' = [op EXCEPT ![p] = o]
        /\ r.answer = "ok" => o = SwitchedOn(h, d)
        /\ r.answer = "raised" => o = Idle
        /\ r.answer \notin {"ok", "raised"} => o = Skipped(h, d)
    BY <1>1, EnableCall
<1>4. PICK r \in SetUserEnabled(Kind[d], account[d], TRUE, f), o \in Handler \cup {Idle} :
        /\ account' = [account EXCEPT ![d] = r.account] /\ op' = [op EXCEPT ![p] = o]
        /\ r.answer = "ok" => o = SwitchedOn(h, d)
        /\ r.answer = "raised" => o = Idle
        /\ r.answer \notin {"ok", "raised"} => o = Skipped(h, d)
    BY <1>3
<1>5. Kind[d] \in Kinds /\ account \in [Dirs -> Accounts] /\ account[d] \in Accounts
    BY DirsAreNumbers DEF JoinerInv, TypeOK
<1>6. r.account \in Accounts
    BY <1>5, SwitchOnTyped
<1>7. account' \in [Dirs -> Accounts] /\ UNCHANGED <<joiner, rows, people, active, granted, on, settings, clock>>
    BY <1>4, <1>5, <1>6 DEF CallEnable
<1>8. CASE o = Idle
    BY <1>4, <1>7, <1>8, EndKeeps
<1>9. CASE o \in {SwitchedOn(h, d), Skipped(h, d)}
    <2>1. /\ o \in Handler /\ o.phase = h.phase /\ o.read = h.read /\ o.row.status = h.row.status
          /\ o.row.user = h.row.user
        <3>1. CASE o = SwitchedOn(h, d)
            BY <1>2, <3>1 DEF SwitchedOn, Handler, Request, TargetStatus, RowStatus
        <3>2. CASE o = Skipped(h, d)
            BY <1>2, <3>2, SkipFields
        <3>. QED
            BY <1>9, <3>1, <3>2
    <2>2. o.row.user # NoUser
        BY <1>2, <2>1 DEF Own
    <2>3. HasUser(o.row)
        BY <2>2 DEF HasUser
    <2>. QED
        BY <1>1, <1>2, <1>4, <1>7, <2>1, <2>2, <2>3, ProgressKeeps
<1>. QED
    BY <1>4, <1>8, <1>9

LEMMA CallDeleteKeeps == ASSUME JoinerInv, NEW p \in Procs, CallDelete(p) PROVE JoinerInv'
<1>1. PICK h : h = op[p]
    OBVIOUS
<1>2. h \in Handler /\ Own(h) /\ h.phase = "delete" /\ h # Idle
    BY <1>1, DeleteCall
<1>3. PICK d \in Dirs, f \in FaultsOfACall : \E r \in DeleteUser(Kind[d], account[d], f), o \in Handler \cup {Idle} :
        /\ d \in h.todo /\ Goes(f)
        /\ account' = [account EXCEPT ![d] = r.account] /\ op' = [op EXCEPT ![p] = o]
        /\ r.answer = "ok" => o = Deleted(h, d)
        /\ r.answer = "raised" => o = Idle
        /\ r.answer \notin {"ok", "raised"} => o = Skipped(h, d)
    BY <1>1, DeleteCall
<1>4. PICK r \in DeleteUser(Kind[d], account[d], f), o \in Handler \cup {Idle} :
        /\ account' = [account EXCEPT ![d] = r.account] /\ op' = [op EXCEPT ![p] = o]
        /\ r.answer = "ok" => o = Deleted(h, d)
        /\ r.answer = "raised" => o = Idle
        /\ r.answer \notin {"ok", "raised"} => o = Skipped(h, d)
    BY <1>3
<1>5. Kind[d] \in Kinds /\ account \in [Dirs -> Accounts] /\ account[d] \in Accounts
    BY DirsAreNumbers DEF JoinerInv, TypeOK
<1>6. r.account \in Accounts
    BY <1>5, DeleteTyped
<1>7. account' \in [Dirs -> Accounts] /\ UNCHANGED <<joiner, rows, people, active, granted, on, settings, clock>>
    BY <1>4, <1>5, <1>6 DEF CallDelete
<1>8. CASE o = Idle
    BY <1>4, <1>7, <1>8, EndKeeps
<1>9. CASE o \in {Deleted(h, d), Skipped(h, d)}
    <2>1. /\ o \in Handler /\ o.phase = h.phase /\ o.read = h.read /\ o.row.status = h.row.status
          /\ o.row.user = h.row.user
          /\ o.row.targets \in {h.row.targets, [h.row.targets EXCEPT ![d] = "DELETED"]}
        <3>1. CASE o = Deleted(h, d)
            BY <1>2, <3>1 DEF Deleted, Handler, Request, TargetStatus, RowStatus
        <3>2. CASE o = Skipped(h, d)
            BY <1>2, <3>2, SkipFields
        <3>. QED
            BY <1>9, <3>1, <3>2
    <2>2. h.row.targets \in [Dirs -> TargetStatus] /\ HasUser(h.row)
        BY <1>2, HandlerShape DEF Own, Request
    <2>3. HasUser(o.row)
        BY <2>1, <2>2 DEF HasUser
    <2>. QED
        BY <1>1, <1>2, <1>4, <1>7, <2>1, <2>3, ProgressKeeps
<1>. QED
    BY <1>4, <1>8, <1>9

-----------------------------------------------------------------------------
\* What activate_joiner commits, and the birthright access it goes on to.
GrantingOf(o) == [Committed(o, o.row) EXCEPT !.phase = "grant"]

LEMMA GrantingFields ==
    ASSUME NEW o \in Handler, NEW n, n = GrantingOf(o)
    PROVE  /\ n \in Handler /\ n.phase = "grant" /\ n.read = o.row /\ n.row = o.row /\ n.rows = o.rows /\ n.todo = o.todo
<1>1. PICK m : m = Committed(o, o.row)
    OBVIOUS
<1>2. m \in Handler /\ m.read = o.row /\ m.row = o.row /\ m.rows = o.rows /\ m.todo = o.todo
    BY <1>1, HandlerShape, CommittedFields
<1>3. n = [m EXCEPT !.phase = "grant"]
    BY <1>1 DEF GrantingOf
<1>. QED
    BY <1>2, <1>3 DEF Handler

LEMMA FinishEnableCall ==
    ASSUME JoinerInv, NEW p \in Procs, NEW h, h = op[p], FinishEnable(p)
    PROVE  /\ h \in Handler /\ h # Idle /\ Own(h) /\ h.phase = "enable" /\ h.todo = {}
           /\ \E o \in Handler, n \in Handler \cup {Idle} :
                /\ o.phase = "enable" /\ o.read = h.read /\ o.rows = h.rows
                /\ o.row.status = IF AllEnabled(h.row) THEN "ACTIVE" ELSE "PARTIAL"
                /\ o.row.user = h.row.user /\ o.row.targets = h.row.targets /\ o.row.requested = h.row.requested
                /\ Commit(o) /\ op' = [op EXCEPT ![p] = n]
                /\ \/ Started(o.row) /\ n = GrantingOf(o) /\ active' = active \cup {o.row.user}
                   \/ ~Started(o.row) /\ n = Idle /\ active' = active
<1>1. h.phase = "enable" /\ h.todo = {} /\ h # Idle
    BY DEF FinishEnable, Idle
<1>2. h \in Handler /\ Own(h) /\ h.row \in Request
    BY <1>1, Taking, HandlerShape
<1>3. PICK s : s = IF AllEnabled(h.row) THEN "ACTIVE" ELSE "PARTIAL"
    OBVIOUS
<1>4. s \in {"PENDING_PROVISIONING", "SCHEDULED", "ACTIVE", "PARTIAL", "CANCELLED"}
    BY <1>3
<1>5. PICK o : o = [h EXCEPT !.row.status = s]
    OBVIOUS
<1>6. /\ o \in Handler /\ o.phase = h.phase /\ o.read = h.read /\ o.rows = h.rows
      /\ o.row = [h.row EXCEPT !.status = s]
    BY <1>2, <1>4, <1>5 DEF Handler, Request
<1>7. /\ o.row.status = s /\ o.row.user = h.row.user /\ o.row.targets = h.row.targets
      /\ o.row.requested = h.row.requested
    BY <1>2, <1>4, <1>6, StatusFields
<1>8. PICK n : n = IF Started(o.row) THEN GrantingOf(o) ELSE Idle
    OBVIOUS
<1>9. /\ Commit(o) /\ active' = (IF Started(o.row) THEN active \cup {o.row.user} ELSE active)
      /\ op' = [op EXCEPT ![p] = n]
    BY <1>3, <1>5, <1>8 DEF FinishEnable, GrantingOf
<1>10. n \in Handler \cup {Idle}
    BY <1>6, <1>8, GrantingFields
<1>11. \/ Started(o.row) /\ n = GrantingOf(o) /\ active' = active \cup {o.row.user}
       \/ ~Started(o.row) /\ n = Idle /\ active' = active
    BY <1>8, <1>9
<1>12. /\ o.phase = "enable" /\ o.read = h.read /\ o.rows = h.rows
       /\ o.row.status = IF AllEnabled(h.row) THEN "ACTIVE" ELSE "PARTIAL"
       /\ o.row.user = h.row.user /\ o.row.targets = h.row.targets /\ o.row.requested = h.row.requested
       /\ Commit(o) /\ op' = [op EXCEPT ![p] = n]
       /\ \/ Started(o.row) /\ n = GrantingOf(o) /\ active' = active \cup {o.row.user}
          \/ ~Started(o.row) /\ n = Idle /\ active' = active
    BY <1>1, <1>3, <1>6, <1>7, <1>9, <1>11
<1>. QED
    BY <1>1, <1>2, <1>6, <1>10, <1>12

LEMMA FinishEnableKeeps == ASSUME JoinerInv, NEW p \in Procs, FinishEnable(p) PROVE JoinerInv'
<1>1. PICK h : h = op[p]
    OBVIOUS
<1>2. h \in Handler /\ Own(h) /\ h.phase = "enable"
    BY <1>1, FinishEnableCall
<1>3. PICK o \in Handler, n \in Handler \cup {Idle} :
        /\ o.phase = "enable" /\ o.read = h.read /\ o.rows = h.rows
        /\ o.row.status = IF AllEnabled(h.row) THEN "ACTIVE" ELSE "PARTIAL"
        /\ o.row.user = h.row.user /\ o.row.targets = h.row.targets /\ o.row.requested = h.row.requested
        /\ Commit(o) /\ op' = [op EXCEPT ![p] = n]
        /\ \/ Started(o.row) /\ n = GrantingOf(o) /\ active' = active \cup {o.row.user}
           \/ ~Started(o.row) /\ n = Idle /\ active' = active
    BY <1>1, FinishEnableCall
<1>4. Own(o) /\ o.row.user # NoUser /\ o.row.status # "NONE"
    BY <1>2, <1>3 DEF Own, HasUser
<1>5. n # Idle => /\ n.read = o.row /\ n.row.user = o.row.user /\ n.row.targets = o.row.targets
                  /\ n.row.status # "NONE" /\ n.row.user # NoUser
    BY <1>3, <1>4, GrantingFields
<1>6. active' \subseteq people' /\ UNCHANGED <<account, granted, on, settings, clock>>
    BY <1>3, <1>4, CommitWrites DEF FinishEnable, JoinerInv, TypeOK
<1>. QED
    BY <1>3, <1>4, <1>5, <1>6, CommittingKeeps

LEMMA GrantKeeps == ASSUME JoinerInv, NEW p \in Procs, GrantBirthright(p) PROVE JoinerInv'
<1>1. op[p] # Idle /\ op[p].phase = "grant"
    BY DEF GrantBirthright, Idle
<1>2. op[p].row.user \in people
    BY <1>1 DEF JoinerInv, Own
<1>3. op' = [op EXCEPT ![p] = Idle]
    BY DEF GrantBirthright, Ends
<1>4. KeptRow /\ Rest'
    BY <1>2 DEF GrantBirthright, KeptRow, Rest, JoinerInv, TypeOK, HasUser
<1>. QED
    BY <1>3, <1>4, HandlerMoves

LEMMA FinishCancelKeeps == ASSUME JoinerInv, NEW p \in Procs, FinishCancel(p) PROVE JoinerInv'
<1>1. PICK h : h = op[p]
    OBVIOUS
<1>2. h # Idle
    BY <1>1 DEF FinishCancel, Idle
<1>3. h \in Handler /\ Own(h)
    BY <1>1, <1>2, Taking
<1>4. Commit(h) /\ op' = [op EXCEPT ![p] = Idle] /\ UNCHANGED <<account, active, granted, on, settings, clock>>
    BY <1>1 DEF FinishCancel, Ends
<1>5. active' \subseteq people'
    BY <1>3, <1>4, CommitWrites DEF JoinerInv, TypeOK
<1>. QED
    BY <1>3, <1>4, <1>5, CommittingKeeps

LEMMA CrashKeeps == ASSUME JoinerInv, Crash PROVE JoinerInv'
BY DEF Crash, JoinerInv, TypeOK, HasUser

LEMMA ContinueKeeps == ASSUME JoinerInv, NEW p \in Procs, Continue(p) PROVE JoinerInv'
BY CallCreateKeeps, RefuseKeeps, FinishCreateKeeps, CallEnableKeeps, FinishEnableKeeps, GrantKeeps,
   CallDeleteKeeps, FinishCancelKeeps DEF Continue

LEMMA NextKeeps == ASSUME JoinerInv, Next PROVE JoinerInv'
<1>1. Worker \in Procs /\ Requests \subseteq Procs
    BY DEF Procs
<1>2. ASSUME NEW d \in Dirs, SetTargetEnabled(d) PROVE JoinerInv'
    <2>1. UNCHANGED <<joiner, account, rows, people, active, granted, settings, clock, op>> /\ on' \subseteq Dirs
        BY <1>2 DEF SetTargetEnabled, JoinerInv, TypeOK
    <2>. QED
        BY <2>1, QuietKeeps DEF JoinerInv, TypeOK
<1>3. CASE Tick
    <2>1. UNCHANGED <<joiner, account, rows, people, active, granted, settings, op>> /\ on' \subseteq Dirs
          /\ clock' \in 0..MaxClock
        BY <1>3, ConstantsAssumption DEF Tick, JoinerInv, TypeOK
    <2>. QED
        BY <2>1, QuietKeeps
<1>4. CASE RetryDue
    BY <1>1, <1>4, RetryKeeps DEF RetryDue
<1>. QED
    BY <1>1, <1>2, <1>3, <1>4, CreateJoinerKeeps, RetryKeeps, CancelKeeps, ProvisionDueKeeps, ActivateDueKeeps,
       ContinueKeeps, CrashKeeps DEF Next

LEMMA StartsInv == ASSUME Init PROVE JoinerInv
<1>1. NoRequest \in Request
    BY ConstantsAssumption DEF NoRequest, Request, TargetStatus
<1>2. clock \in 0..MaxClock
    BY ConstantsAssumption DEF Init
<1>3. TypeOK
    BY <1>1, <1>2 DEF Init, TypeOK, Accounts, RowStatus
<1>4. HasUser(joiner) /\ joiner.user = NoUser
    BY DEF Init, NoRequest, HasUser
<1>. QED
    BY <1>3, <1>4 DEF JoinerInv, Init

-----------------------------------------------------------------------------
(***************************************************************************)
(* Joiners, one handler at a time.                                         *)
(***************************************************************************)
OneAtATime == \A p, x \in Procs : op[p] # Idle /\ op[x] # Idle => p = x
Counted    == faults \in [Faults -> Nat]

\* The accounts a and their rows rs are as the targets of r say.
Match(a, r, rs) == \A d \in Dirs : a[d] = Says(r.targets[d]) /\ rs[d] = RowOf(r.targets[d])
Merge(rs, o)    == [d \in Dirs |-> IF o.rows[d] = "none" THEN rs[d] ELSE o.rows[d]]

\* Handler o's row was read from j and is the same person's.
Reads(o, j) == /\ o.read = j
               /\ j.user # NoUser => o.row.user = j.user
               /\ o.kind # "create" => j.status # "NONE"

\* What a status says of the targets, and of whether the person is active.
Regular(r, act) ==
    /\ r.status \in {"NONE", "PENDING_PROVISIONING"} => \A d \in Dirs : r.targets[d] = "none"
    /\ r.status \in {"SCHEDULED", "CANCELLED"} => \A d \in Dirs : r.targets[d] # "ENABLED"
    /\ r.status \in {"SCHEDULED", "PARTIAL", "ACTIVE"} => \A d \in r.requested : r.targets[d] # "none"
    /\ r.status = "ACTIVE" => \A d \in Dirs : r.targets[d] \in {"none", "ENABLED"}
    /\ r.status \notin {"ACTIVE", "PARTIAL"} => act = {}

\* Of a handler under way, in each phase: what it has still to do, and what its copy says.
Creating(o, act) == o.phase = "create" =>
    /\ \A d \in o.todo : o.row.targets[d] \in {"none", "FAILED"}
    /\ \A d \in o.row.requested : d \in o.todo \/ o.row.targets[d] # "none"
    /\ o.row.status # "PARTIAL" => act = {} /\ \A d \in Dirs : o.row.targets[d] # "ENABLED"
    /\ \/ /\ o.kind = "create" /\ o.read.status = "NONE" /\ o.row.status = "SCHEDULED"
          /\ \A d \in Dirs : o.row.targets[d] \in {"none", "FAILED", "CREATED"}
       \/ o.kind = "provision" /\ o.row.status = "PENDING_PROVISIONING"
       \/ o.kind = "retry" /\ o.row.status \in {"SCHEDULED", "PARTIAL"}
SwitchingOn(o) == o.phase = "enable" =>
    /\ \A d \in o.todo : o.row.targets[d] = "CREATED"
    /\ \A d \in o.row.requested : o.row.targets[d] # "none"
Cancelling(o, act) == o.phase = "delete" =>
    /\ o.row.status = "CANCELLED" /\ act = {}
    /\ \A d \in o.todo : o.row.targets[d] = "CREATED"
    /\ \A d \in Dirs : o.row.targets[d] # "ENABLED"

Flight(o, j, a, rs, act) ==
    /\ Match(a, o.row, Merge(rs, o)) /\ j.status # "CANCELLED"
    /\ Creating(o, act) /\ SwitchingOn(o) /\ Cancelling(o, act)
    /\ o.phase = "grant" => Match(a, j, rs)

Straight == Told => /\ Regular(joiner, active)
                    /\ Quiet => Match(account, joiner, rows)
                    /\ \A p \in Procs : op[p] # Idle => Flight(op[p], joiner, account, rows, active)

AloneJoiner == /\ OneAtATime /\ Counted /\ Straight
               /\ people = {joiner.user} \ {NoUser}
               /\ \A p \in Procs : op[p] # Idle => Reads(op[p], joiner)

\* What becomes of the handlers when p becomes n.
LEMMA TheOne ==
    ASSUME JoinerInv, OneAtATime, OneAtATime', NEW p \in Procs, NEW n, op' = [op EXCEPT ![p] = n],
           op[p] # Idle \/ n # Idle
    PROVE  /\ \A x \in Procs : op'[x] # Idle => x = p /\ op'[x] = n
           /\ op'[p] = n
           /\ Quiet' <=> n = Idle
           /\ op[p] = Idle => Quiet
<1>1. op'[p] = n /\ \A x \in Procs : x # p => op'[x] = op[x]
    BY DEF JoinerInv, TypeOK
<1>2. \A x \in Procs : x # p => op[x] = Idle
    <2>1. CASE op[p] # Idle
        BY <2>1 DEF OneAtATime
    <2>2. CASE n # Idle
        BY <1>1, <2>2 DEF OneAtATime
    <2>. QED
        BY <2>1, <2>2
<1>. QED
    BY <1>1, <1>2 DEF Quiet, Busy

LEMMA SoleStep ==
    ASSUME JoinerInv, OneAtATime, OneAtATime', NEW p \in Procs, NEW n, op' = [op EXCEPT ![p] = n],
           op[p] # Idle \/ n # Idle, Counted', people' = {joiner'.user} \ {NoUser},
           n # Idle => Reads(n, joiner'),
           Told' => /\ Regular(joiner', active')
                    /\ n = Idle => Match(account', joiner', rows')
                    /\ n # Idle => Flight(n, joiner', account', rows', active')
    PROVE  AloneJoiner'
<1>1. \A x \in Procs : op'[x] # Idle => x = p /\ op'[x] = n
    BY TheOne
<1>2. Quiet' <=> n = Idle
    BY TheOne
<1>3. Straight'
    <2>1. SUFFICES ASSUME Told'
                   PROVE  /\ Regular(joiner', active')
                          /\ Quiet' => Match(account', joiner', rows')
                          /\ \A x \in Procs : op'[x] # Idle => Flight(op'[x], joiner', account', rows', active')
        BY DEF Straight, Regular, Match, Flight, Merge, Creating, SwitchingOn, Cancelling
    <2>. QED
        BY <1>1, <1>2, <2>1
<1>4. \A x \in Procs : op'[x] # Idle => Reads(op'[x], joiner')
    BY <1>1
<1>. QED
    BY <1>3, <1>4 DEF AloneJoiner, Reads

\* With one handler at a time a commit writes its copy.
LEMMA AloneWrites ==
    ASSUME JoinerInv, NEW o \in Handler, o.read = joiner, joiner.user # NoUser => o.row.user = joiner.user,
           people = {joiner.user} \ {NoUser}, Commit(o)
    PROVE  /\ joiner' = o.row /\ rows' = Merge(rows, o) /\ people' = {joiner'.user} \ {NoUser}
<1>1. o.row \in Request /\ o.read \in Request /\ joiner \in Request
    BY HandlerShape DEF JoinerInv, TypeOK
<1>2. o.row = [c \in Columns |-> o.row[c]] /\ joiner = [c \in Columns |-> joiner[c]]
    BY <1>1, Rows
<1>3. joiner' = [c \in Columns |-> IF o.row[c] = o.read[c] THEN joiner[c] ELSE o.row[c]]
    BY <1>2 DEF Commit, Flushed
<1>4. joiner' = [c \in Columns |-> o.row[c]]
    BY <1>3
<1>5. joiner' = o.row
    BY <1>2, <1>4
<1>6. rows' = Merge(rows, o) /\ people' = people \cup ({o.row.user} \ {NoUser})
    BY DEF Commit, Merge
<1>. QED
    BY <1>5, <1>6

\* Nothing a step does takes an uncertain outcome back, and the calls count theirs.
LEMMA ToldBefore ==
    ASSUME Counted, NEW f \in FaultsOfACall, Goes(f)
    PROVE  /\ Counted' /\ (Told' => Told /\ f # "lost")
<1>1. CASE f = "none"
    BY <1>1 DEF Goes, Counted, Told
<1>2. CASE f \in {"refused", "lost"}
    <2>1. faults' = [faults EXCEPT ![f] = @ + 1]
        BY <1>2 DEF Goes, Count
    <2>2. faults["lost"] \in Nat /\ faults["crash"] \in Nat /\ faults["refused"] \in Nat
        BY DEF Counted, Faults
    <2>3. Counted'
        BY <1>2, <2>1, <2>2 DEF Counted, Faults
    <2>. QED
        BY <1>2, <2>1, <2>2, <2>3 DEF Told, Counted, Faults
<1>. QED
    BY <1>1, <1>2 DEF FaultsOfACall

-----------------------------------------------------------------------------
\* Nothing written yet: the rows a new handler would commit are the ones there are.
LEMMA NothingWritten ==
    ASSUME JoinerInv, NEW o, o.rows = [d \in Dirs |-> "none"]
    PROVE  Merge(rows, o) = rows
BY DEF Merge, JoinerInv, TypeOK

\* A handler that starts, of the row j as it is.
LEMMA StartAlone ==
    ASSUME JoinerInv, AloneJoiner, OneAtATime', NEW p \in Procs, op[p] = Idle, NEW o \in Handler,
           op' = [op EXCEPT ![p] = o], Reads(o, joiner),
           UNCHANGED <<joiner, account, rows, people, active, faults>>,
           Told /\ Regular(joiner, active) /\ Match(account, joiner, rows) => Flight(o, joiner, account, rows, active)
    PROVE  AloneJoiner'
<1>1. o # Idle
    BY HandlerShape
<1>2. Quiet
    BY <1>1, TheOne DEF AloneJoiner
<1>3. Counted' /\ (Told' => Told) /\ people' = {joiner'.user} \ {NoUser}
    BY DEF AloneJoiner, Counted, Told
<1>4. Told' => Regular(joiner', active') /\ Flight(o, joiner', account', rows', active')
    BY <1>2, <1>3 DEF AloneJoiner, Straight
<1>. QED
    BY <1>1, <1>3, <1>4, SoleStep DEF AloneJoiner

LEMMA ProvisionDueAlone == ASSUME JoinerInv, AloneJoiner, OneAtATime', ProvisionDue PROVE AloneJoiner'
<1>1. PICK o : o = NewOp("provision", "create", joiner, joiner.requested)
    OBVIOUS
<1>2. joiner \in Request /\ joiner.requested \in SUBSET Dirs /\ Worker \in Procs
    BY DEF JoinerInv, TypeOK, Request, Procs
<1>3. /\ o \in Handler /\ o.phase = "create" /\ o.read = joiner /\ o.row = joiner /\ o.kind = "provision"
      /\ o.todo = joiner.requested /\ o.rows = [d \in Dirs |-> "none"]
    BY <1>1, <1>2, StartFields
<1>4. /\ op' = [op EXCEPT ![Worker] = o] /\ joiner.status = "PENDING_PROVISIONING" /\ op[Worker] = Idle
      /\ UNCHANGED <<joiner, account, rows, people, active, faults>>
    BY <1>1 DEF ProvisionDue, MayStart
<1>5. Reads(o, joiner)
    BY <1>3, <1>4 DEF Reads
<1>6. ASSUME Regular(joiner, active), Match(account, joiner, rows) PROVE Flight(o, joiner, account, rows, active)
    <2>1. Merge(rows, o) = rows
        BY <1>3, NothingWritten
    <2>2. Creating(o, active)
        BY <1>2, <1>3, <1>4, <1>6 DEF Creating, Regular
    <2>. QED
        BY <1>3, <1>4, <1>6, <2>1, <2>2 DEF Flight, Match, SwitchingOn, Cancelling
<1>. QED
    BY <1>2, <1>3, <1>4, <1>5, <1>6, StartAlone

LEMMA RetryAlone == ASSUME JoinerInv, AloneJoiner, OneAtATime', NEW p \in Procs, RetryJoiner(p) PROVE AloneJoiner'
<1>1. PICK o : o = [NewOp("retry", "create", joiner, Having(joiner, {"FAILED"}))
                       EXCEPT !.started = @ \/ joiner.status \in {"ACTIVE", "PARTIAL"}]
    OBVIOUS
<1>2. op' = [op EXCEPT ![p] = o]
    BY <1>1, Zenon DEF RetryJoiner
<1>3. /\ joiner.status \notin {"NONE", "CANCELLED"} /\ Having(joiner, {"FAILED"}) # {} /\ op[p] = Idle
      /\ UNCHANGED <<joiner, account, rows, people, active, faults>>
    BY DEF RetryJoiner, MayStart
<1>4. /\ o \in Handler /\ o.phase = "create" /\ o.read = joiner /\ o.row = joiner /\ o.kind = "retry"
      /\ o.todo = Having(joiner, {"FAILED"}) /\ o.rows = [d \in Dirs |-> "none"]
    BY <1>1, RetryFields
<1>5. Reads(o, joiner)
    BY <1>3, <1>4 DEF Reads
<1>6. ASSUME Regular(joiner, active), Match(account, joiner, rows) PROVE Flight(o, joiner, account, rows, active)
    <2>1. Merge(rows, o) = rows
        BY <1>4, NothingWritten
    <2>2. PICK e \in Dirs : joiner.targets[e] = "FAILED"
        BY <1>3 DEF Having
    <2>3. joiner.status \in {"SCHEDULED", "PARTIAL"} /\ joiner.requested \in SUBSET Dirs
        BY <1>3, <1>6, <2>2 DEF Regular, JoinerInv, TypeOK, Request
    <2>4. Creating(o, active)
        BY <1>4, <1>6, <2>3 DEF Creating, Regular, Having
    <2>. QED
        BY <1>3, <1>4, <1>6, <2>1, <2>4 DEF Flight, Match, SwitchingOn, Cancelling
<1>. QED
    BY <1>2, <1>3, <1>4, <1>5, <1>6, StartAlone

LEMMA ActivateDueAlone == ASSUME JoinerInv, AloneJoiner, OneAtATime', ActivateDue PROVE AloneJoiner'
<1>1. PICK o : o = NewOp("activate", "enable", joiner, Having(joiner, {"CREATED"}))
    OBVIOUS
<1>2. joiner \in Request /\ Having(joiner, {"CREATED"}) \in SUBSET Dirs /\ Worker \in Procs
      /\ joiner.requested \in SUBSET Dirs
    BY DEF JoinerInv, TypeOK, Having, Procs, Request
<1>3. /\ o \in Handler /\ o.phase = "enable" /\ o.read = joiner /\ o.row = joiner /\ o.kind = "activate"
      /\ o.todo = Having(joiner, {"CREATED"}) /\ o.rows = [d \in Dirs |-> "none"]
    BY <1>1, <1>2, StartFields
<1>4. /\ op' = [op EXCEPT ![Worker] = o] /\ joiner.status = "SCHEDULED" /\ op[Worker] = Idle
      /\ UNCHANGED <<joiner, account, rows, people, active, faults>>
    BY <1>1 DEF ActivateDue, MayStart
<1>5. Reads(o, joiner)
    BY <1>3, <1>4 DEF Reads
<1>6. ASSUME Regular(joiner, active), Match(account, joiner, rows) PROVE Flight(o, joiner, account, rows, active)
    <2>1. Merge(rows, o) = rows
        BY <1>3, NothingWritten
    <2>2. SwitchingOn(o)
        BY <1>2, <1>3, <1>4, <1>6 DEF SwitchingOn, Regular, Having
    <2>. QED
        BY <1>3, <1>4, <1>6, <2>1, <2>2 DEF Flight, Match, Creating, Cancelling
<1>. QED
    BY <1>2, <1>3, <1>4, <1>5, <1>6, StartAlone

LEMMA CancelAlone == ASSUME JoinerInv, AloneJoiner, OneAtATime', NEW q \in Requests, CancelJoiner(q) PROVE AloneJoiner'
<1>1. PICK r : r = [joiner EXCEPT !.status = "CANCELLED"]
    OBVIOUS
<1>2. PICK S \in SUBSET Having(joiner, {"CREATED", "ENABLED"}) : op' = [op EXCEPT ![q] = NewOp("cancel", "delete", r, S)]
    BY <1>1 DEF CancelJoiner
<1>3. PICK o : o = NewOp("cancel", "delete", r, S)
    OBVIOUS
<1>4. /\ r \in Request /\ r.status = "CANCELLED" /\ r.user = joiner.user /\ r.targets = joiner.targets /\ q \in Procs
      /\ S \in SUBSET Dirs
    BY <1>1, <1>2, CancelFields DEF Procs, Having
<1>5. /\ o \in Handler /\ o.phase = "delete" /\ o.read = joiner /\ o.row = r /\ o.kind = "cancel" /\ o.todo = S
      /\ o.rows = [d \in Dirs |-> "none"]
    BY <1>3, <1>4, StartFields
<1>6. /\ op' = [op EXCEPT ![q] = o] /\ joiner.status \in Cancellable /\ op[q] = Idle
      /\ UNCHANGED <<joiner, account, rows, people, active, faults>>
    BY <1>2, <1>3 DEF CancelJoiner, MayStart
<1>7. Reads(o, joiner)
    BY <1>4, <1>5, <1>6 DEF Reads, Cancellable
<1>8. ASSUME Regular(joiner, active), Match(account, joiner, rows) PROVE Flight(o, joiner, account, rows, active)
    <2>1. Merge(rows, o) = rows
        BY <1>5, NothingWritten
    <2>2. active = {} /\ \A d \in Dirs : joiner.targets[d] # "ENABLED"
        BY <1>6, <1>8 DEF Regular, Cancellable
    <2>3. Cancelling(o, active)
        BY <1>2, <1>4, <1>5, <2>2 DEF Cancelling, Having
    <2>. QED
        BY <1>4, <1>5, <1>6, <1>8, <2>1, <2>3 DEF Flight, Match, Creating, SwitchingOn, Cancellable
<1>. QED
    BY <1>4, <1>5, <1>6, <1>7, <1>8, StartAlone

\* While nothing is submitted nobody but a submission is under way, so that a submission
\* comes upon nothing.
LEMMA CreateJoinerAlone ==
    ASSUME JoinerInv, AloneJoiner, OneAtATime', NEW q \in Requests, CreateJoiner(q)
    PROVE  AloneJoiner'
<1>1. PICK picks \in (SUBSET on) \ {{}}, needs \in SUBSET Dirs, start \in clock..MaxClock :
        LET r == Submitted(Wanted(picks, needs), start) IN
            IF Deferred(start) THEN joiner' = r /\ UNCHANGED op
            ELSE op' = [op EXCEPT ![q] = NewOp("create", "create", r, r.requested)] /\ UNCHANGED joiner
    BY DEF CreateJoiner
<1>2. /\ joiner.status = "NONE" /\ op[q] = Idle /\ q \in Procs /\ ~\E p \in Busy : op[p].kind = "create"
      /\ UNCHANGED <<account, rows, people, active, faults>>
    BY DEF CreateJoiner, MayStart, Procs
<1>3. Wanted(picks, needs) \in SUBSET Dirs
    BY DEF Wanted, JoinerInv, TypeOK
<1>4. PICK r : r = Submitted(Wanted(picks, needs), start)
    OBVIOUS
<1>5. /\ r \in Request /\ r.user = NoUser /\ r.targets = [d \in Dirs |-> "none"] /\ r.requested \in SUBSET Dirs
      /\ r.status = IF Deferred(start) THEN "PENDING_PROVISIONING" ELSE "SCHEDULED"
    BY <1>3, <1>4, SubmittedFields
<1>6. joiner.user = NoUser /\ people = {}
    BY <1>2 DEF JoinerInv, AloneJoiner
<1>7. \A p \in Procs : op[p] = Idle
    BY <1>2 DEF AloneJoiner, Reads, Busy
<1>8. CASE Deferred(start)
    <2>1. joiner' = r /\ op' = op
        BY <1>1, <1>4, <1>8
    <2>2. people' = {joiner'.user} \ {NoUser} /\ Counted' /\ \A p \in Procs : op'[p] = Idle
        BY <1>2, <1>5, <1>6, <1>7, <2>1 DEF AloneJoiner, Counted
    <2>3. Straight'
        <3>1. SUFFICES ASSUME Told'
                       PROVE  /\ Regular(joiner', active') /\ Match(account', joiner', rows')
            BY <2>2 DEF Straight, Regular, Match, Flight, Merge, Creating, SwitchingOn, Cancelling
        <3>2. Told /\ Quiet
            BY <1>2, <1>7, <3>1 DEF Told, Quiet, Busy
        <3>3. Regular(joiner, active) /\ Match(account, joiner, rows)
            BY <3>2 DEF AloneJoiner, Straight
        <3>4. \A d \in Dirs : joiner.targets[d] = "none" /\ r.targets[d] = "none"
            BY <1>2, <1>5, <3>3 DEF Regular
        <3>5. Regular(r, active)
            BY <1>2, <1>5, <1>8, <3>3, <3>4 DEF Regular
        <3>6. Match(account, r, rows)
            BY <3>3, <3>4 DEF Match
        <3>. QED
            BY <1>2, <2>1, <3>5, <3>6
    <2>. QED
        BY <2>2, <2>3 DEF AloneJoiner, Reads
<1>9. CASE ~Deferred(start)
    <2>1. PICK o : o = NewOp("create", "create", r, r.requested)
        OBVIOUS
    <2>2. op' = [op EXCEPT ![q] = o] /\ joiner' = joiner
        BY <1>1, <1>4, <1>9, <2>1
    <2>3. /\ o \in Handler /\ o.phase = "create" /\ o.read = joiner /\ o.row = r /\ o.kind = "create"
          /\ o.todo = r.requested /\ o.rows = [d \in Dirs |-> "none"]
        BY <1>5, <2>1, StartFields
    <2>4. Reads(o, joiner)
        BY <1>6, <2>3 DEF Reads
    <2>5. ASSUME Regular(joiner, active), Match(account, joiner, rows) PROVE Flight(o, joiner, account, rows, active)
        <3>1. Merge(rows, o) = rows
            BY <2>3, NothingWritten
        <3>2. active = {} /\ \A d \in Dirs : joiner.targets[d] = "none" /\ r.targets[d] = "none"
            BY <1>2, <1>5, <2>5 DEF Regular
        <3>3. Match(account, r, rows)
            BY <2>5, <3>2 DEF Match
        <3>4. Creating(o, active)
            BY <1>2, <1>5, <1>9, <2>3, <3>2 DEF Creating
        <3>. QED
            BY <1>2, <2>3, <3>1, <3>3, <3>4 DEF Flight, SwitchingOn, Cancelling
    <2>. QED
        BY <1>2, <2>2, <2>3, <2>4, <2>5, StartAlone
<1>. QED
    BY <1>8, <1>9

-----------------------------------------------------------------------------
\* What the directories answer while nothing is lost.
LEMMA CreateAnswers ==
    ASSUME NEW k \in Kinds, NEW f \in FaultsOfACall, f # "lost", NEW r \in CreateUser(k, "none", FALSE, f)
    PROVE  \/ r.account = "off" /\ r.answer = "ok"
           \/ r.account = "none" /\ r.answer = "error"
BY DEF Kinds, FaultsOfACall, CreateUser, EntraCreate, OktaCreate, AdCreate, Result, Switch

LEMMA SwitchOnAnswers ==
    ASSUME NEW k \in Kinds, NEW f \in FaultsOfACall, f # "lost", NEW r \in SetUserEnabled(k, "off", TRUE, f)
    PROVE  \/ r.account = "on" /\ r.answer = "ok"
           \/ r.account = "off" /\ r.answer = "error"
BY DEF Kinds, FaultsOfACall, SetUserEnabled, EntraEnable, OktaEnable, AdEnable, Result, Switch

LEMMA DeleteAnswers ==
    ASSUME NEW k \in Kinds, NEW f \in FaultsOfACall, f # "lost", NEW r \in DeleteUser(k, "off", f)
    PROVE  \/ r.account = "none" /\ r.answer = "ok"
           \/ r.account = "off" /\ r.answer = "error"
BY DEF Kinds, FaultsOfACall, DeleteUser, EntraDelete, OktaDelete, AdDelete, Result

\* Nothing lost, a call leaves a handler under way whose copy says how things are.
Answered(h, o, f) == f # "lost" /\ Regular(joiner, active) /\ Flight(h, joiner, account, rows, active)
                       => o # Idle /\ Flight(o, joiner, account', rows, active)

\* A handler that goes on or stops after a call.
LEMMA CallAlone ==
    ASSUME JoinerInv, AloneJoiner, OneAtATime', NEW p \in Procs, NEW h, h = op[p], h # Idle,
           NEW o \in Handler \cup {Idle}, op' = [op EXCEPT ![p] = o],
           NEW f \in FaultsOfACall, Goes(f), UNCHANGED <<joiner, rows, people, active>>,
           o # Idle => Reads(o, joiner), Answered(h, o, f)
    PROVE  AloneJoiner'
<1>1. Counted' /\ (Told' => Told /\ f # "lost") /\ people' = {joiner'.user} \ {NoUser}
    BY ToldBefore DEF AloneJoiner
<1>2. Told' => Regular(joiner', active') /\ o # Idle /\ Flight(o, joiner', account', rows', active')
    BY <1>1 DEF AloneJoiner, Straight, Answered
<1>. QED
    BY <1>1, <1>2, SoleStep DEF AloneJoiner

LEMMA CallCreateAlone == ASSUME JoinerInv, AloneJoiner, OneAtATime', NEW p \in Procs, CallCreate(p) PROVE AloneJoiner'
<1>1. PICK h : h = op[p]
    OBVIOUS
<1>2. h \in Handler /\ Own(h) /\ h.phase = "create" /\ h # Idle
    BY <1>1, CreateCall
<1>3. PICK d \in Dirs, f \in FaultsOfACall : \E r \in CreateUser(Kind[d], account[d], FALSE, f), o \in Handler \cup {Idle} :
        /\ d \in h.todo /\ Goes(f)
        /\ account' = [account EXCEPT ![d] = r.account] /\ op' = [op EXCEPT ![p] = o]
        /\ r.answer = "ok" => o = AccountCreated(h, d)
        /\ r.answer = "raised" => o = Idle
        /\ r.answer \notin {"ok", "raised"} => o = AccountFailed(h, d)
    BY <1>1, CreateCall
<1>4. PICK r \in CreateUser(Kind[d], account[d], FALSE, f), o \in Handler \cup {Idle} :
        /\ d \in h.todo /\ Goes(f)
        /\ account' = [account EXCEPT ![d] = r.account] /\ op' = [op EXCEPT ![p] = o]
        /\ r.answer = "ok" => o = AccountCreated(h, d)
        /\ r.answer = "raised" => o = Idle
        /\ r.answer \notin {"ok", "raised"} => o = AccountFailed(h, d)
    BY <1>3
<1>5. Kind[d] \in Kinds /\ account \in [Dirs -> Accounts] /\ Reads(h, joiner)
    BY <1>1, <1>2, DirsAreNumbers DEF JoinerInv, TypeOK, AloneJoiner
<1>6. o \in {AccountCreated(h, d), AccountFailed(h, d), Idle} /\ UNCHANGED <<joiner, rows, people, active>>
    BY <1>4 DEF CallCreate
<1>7. o # Idle => Reads(o, joiner)
    <2>1. CASE o = AccountCreated(h, d)
        <3>1. /\ o.read = h.read /\ o.kind = h.kind
              /\ h.row.user # NoUser => o.row.user = h.row.user
            BY <1>2, <2>1 DEF AccountCreated, Handler, Request
        <3>. QED
            BY <1>5, <3>1 DEF Reads
    <2>2. CASE o = AccountFailed(h, d)
        <3>1. o.read = h.read /\ o.kind = h.kind /\ o.row.user = h.row.user
            BY <1>2, <2>2 DEF AccountFailed, Handler, Request
        <3>. QED
            BY <1>5, <3>1 DEF Reads
    <2>. QED
        BY <1>6, <2>1, <2>2
<1>8. ASSUME f # "lost", Flight(h, joiner, account, rows, active)
      PROVE  o # Idle /\ Flight(o, joiner, account', rows, active)
    <2>1. h.row.targets[d] \in {"none", "FAILED"} /\ Match(account, h.row, Merge(rows, h))
        BY <1>2, <1>4, <1>8 DEF Flight, Creating
    <2>2. account[d] = "none"
        BY <2>1 DEF Match, Says
    <2>3. \/ r.account = "off" /\ r.answer = "ok"
          \/ r.account = "none" /\ r.answer = "error"
        BY <1>4, <1>5, <1>8, <2>2, CreateAnswers
    <2>4. CASE r.answer = "ok"
        <3>1. o = AccountCreated(h, d) /\ r.account = "off"
            BY <1>4, <2>3, <2>4
        <3>2. /\ o \in Handler /\ o.phase = h.phase /\ o.kind = h.kind /\ o.read = h.read
              /\ o.row.status = h.row.status /\ o.row.requested = h.row.requested
              /\ o.row.targets = [h.row.targets EXCEPT ![d] = "CREATED"]
              /\ o.rows = [h.rows EXCEPT ![d] = "DISABLED"] /\ o.todo = h.todo \ {d}
            BY <1>2, <3>1 DEF AccountCreated, Handler, Request, TargetStatus, RowStatus
        <3>3. Match(account', o.row, Merge(rows, o))
            <4>1. h.row.targets \in [Dirs -> TargetStatus] /\ h.rows \in [Dirs -> RowStatus]
                BY <1>2 DEF Handler, Request
            <4>2. account' = [account EXCEPT ![d] = "off"]
                BY <1>4, <3>1
            <4>. QED
                BY <1>5, <2>1, <3>2, <4>1, <4>2 DEF Match, Merge, Says, RowOf
        <3>4. h.row.targets \in [Dirs -> TargetStatus] /\ h.row.requested \in SUBSET Dirs /\ h.todo \in SUBSET Dirs
            BY <1>2 DEF Handler, Request
        <3>5. Creating(o, active)
            BY <1>2, <1>8, <3>2, <3>4 DEF Flight, Creating
        <3>. QED
            BY <1>2, <1>8, <3>2, <3>3, <3>5, HandlerShape DEF Flight, SwitchingOn, Cancelling
    <2>5. CASE r.answer = "error"
        <3>1. o = AccountFailed(h, d) /\ r.account = "none"
            BY <1>4, <2>3, <2>5
        <3>2. /\ o \in Handler /\ o.phase = h.phase /\ o.kind = h.kind /\ o.read = h.read
              /\ o.row.status = h.row.status /\ o.row.requested = h.row.requested
              /\ o.row.targets = [h.row.targets EXCEPT ![d] = "FAILED"]
              /\ o.rows = h.rows /\ o.todo = h.todo \ {d}
            BY <1>2, <3>1, FailedFields
        <3>3. h.row.targets \in [Dirs -> TargetStatus] /\ h.row.requested \in SUBSET Dirs /\ h.todo \in SUBSET Dirs
            BY <1>2 DEF Handler, Request
        <3>4. account' = account
            BY <1>4, <1>5, <2>2, <3>1
        <3>5. Match(account', o.row, Merge(rows, o))
            BY <2>1, <3>2, <3>3, <3>4 DEF Match, Merge, Says, RowOf
        <3>6. Creating(o, active)
            BY <1>2, <1>8, <3>2, <3>3 DEF Flight, Creating
        <3>. QED
            BY <1>2, <1>8, <3>2, <3>5, <3>6, HandlerShape DEF Flight, SwitchingOn, Cancelling
    <2>. QED
        BY <2>3, <2>4, <2>5
<1>9. Answered(h, o, f)
    BY <1>8 DEF Answered
<1>. QED
    BY <1>1, <1>2, <1>4, <1>6, <1>7, <1>9, CallAlone

LEMMA CallEnableAlone == ASSUME JoinerInv, AloneJoiner, OneAtATime', NEW p \in Procs, CallEnable(p) PROVE AloneJoiner'
<1>1. PICK h : h = op[p]
    OBVIOUS
<1>2. h \in Handler /\ Own(h) /\ h.phase = "enable" /\ h # Idle
    BY <1>1, EnableCall
<1>3. PICK d \in Dirs, f \in FaultsOfACall : \E r \in SetUserEnabled(Kind[d], account[d], TRUE, f), o \in Handler \cup {Idle} :
        /\ d \in h.todo /\ Goes(f)
        /\ account' = [account EXCEPT ![d] = r.account] /\ op' = [op EXCEPT ![p] = o]
        /\ r.answer = "ok" => o = SwitchedOn(h, d)
        /\ r.answer = "raised" => o = Idle
        /\ r.answer \notin {"ok", "raised"} => o = Skipped(h, d)
    BY <1>1, EnableCall
<1>4. PICK r \in SetUserEnabled(Kind[d], account[d], TRUE, f), o \in Handler \cup {Idle} :
        /\ d \in h.todo /\ Goes(f)
        /\ account' = [account EXCEPT ![d] = r.account] /\ op' = [op EXCEPT ![p] = o]
        /\ r.answer = "ok" => o = SwitchedOn(h, d)
        /\ r.answer = "raised" => o = Idle
        /\ r.answer \notin {"ok", "raised"} => o = Skipped(h, d)
    BY <1>3
<1>5. Kind[d] \in Kinds /\ account \in [Dirs -> Accounts] /\ Reads(h, joiner)
    BY <1>1, <1>2, DirsAreNumbers DEF JoinerInv, TypeOK, AloneJoiner
<1>6. o \in {SwitchedOn(h, d), Skipped(h, d), Idle} /\ UNCHANGED <<joiner, rows, people, active>>
    BY <1>4 DEF CallEnable
<1>7. ASSUME o = SwitchedOn(h, d)
      PROVE  /\ o \in Handler /\ o.phase = h.phase /\ o.kind = h.kind /\ o.read = h.read
             /\ o.row.status = h.row.status /\ o.row.user = h.row.user /\ o.row.requested = h.row.requested
             /\ o.row.targets = [h.row.targets EXCEPT ![d] = "ENABLED"]
             /\ o.rows = [h.rows EXCEPT ![d] = "ACTIVE"] /\ o.todo = h.todo \ {d}
    BY <1>2, <1>7 DEF SwitchedOn, Handler, Request, TargetStatus, RowStatus
<1>8. ASSUME o = Skipped(h, d)
      PROVE  /\ o \in Handler /\ o.phase = h.phase /\ o.kind = h.kind /\ o.read = h.read
             /\ o.row = h.row /\ o.rows = h.rows /\ o.todo = h.todo \ {d}
    BY <1>2, <1>8 DEF Skipped, Handler
<1>9. o # Idle => Reads(o, joiner)
    BY <1>5, <1>6, <1>7, <1>8 DEF Reads
<1>10. ASSUME f # "lost", Flight(h, joiner, account, rows, active)
       PROVE  o # Idle /\ Flight(o, joiner, account', rows, active)
    <2>1. h.row.targets[d] = "CREATED" /\ Match(account, h.row, Merge(rows, h))
        BY <1>2, <1>4, <1>10 DEF Flight, SwitchingOn
    <2>2. account[d] = "off"
        BY <2>1 DEF Match, Says
    <2>3. \/ r.account = "on" /\ r.answer = "ok"
          \/ r.account = "off" /\ r.answer = "error"
        BY <1>4, <1>5, <1>10, <2>2, SwitchOnAnswers
    <2>4. h.row.targets \in [Dirs -> TargetStatus] /\ h.row.requested \in SUBSET Dirs /\ h.todo \in SUBSET Dirs
        BY <1>2 DEF Handler, Request
    <2>5. CASE r.answer = "ok"
        <3>1. o = SwitchedOn(h, d) /\ r.account = "on"
            BY <1>4, <2>3, <2>5
        <3>2. Match(account', o.row, Merge(rows, o))
            <4>1. h.row.targets \in [Dirs -> TargetStatus] /\ h.rows \in [Dirs -> RowStatus]
                BY <1>2 DEF Handler, Request
            <4>2. account' = [account EXCEPT ![d] = "on"]
                BY <1>4, <3>1
            <4>. QED
                BY <1>5, <1>7, <2>1, <3>1, <4>1, <4>2 DEF Match, Merge, Says, RowOf
        <3>3. SwitchingOn(o)
            BY <1>2, <1>7, <1>10, <2>4, <3>1 DEF Flight, SwitchingOn
        <3>. QED
            BY <1>2, <1>7, <1>10, <3>1, <3>2, <3>3, HandlerShape DEF Flight, Creating, Cancelling
    <2>6. CASE r.answer = "error"
        <3>1. o = Skipped(h, d) /\ r.account = "off"
            BY <1>4, <2>3, <2>6
        <3>2. account' = account
            BY <1>4, <1>5, <2>2, <3>1
        <3>3. Match(account', o.row, Merge(rows, o))
            BY <1>8, <2>1, <3>1, <3>2 DEF Match, Merge
        <3>4. SwitchingOn(o)
            BY <1>2, <1>8, <1>10, <3>1 DEF Flight, SwitchingOn
        <3>. QED
            BY <1>2, <1>8, <1>10, <3>1, <3>3, <3>4, HandlerShape DEF Flight, Creating, Cancelling
    <2>. QED
        BY <2>3, <2>5, <2>6
<1>11. Answered(h, o, f)
    BY <1>10 DEF Answered
<1>. QED
    BY <1>1, <1>2, <1>4, <1>6, <1>9, <1>11, CallAlone

LEMMA CallDeleteAlone == ASSUME JoinerInv, AloneJoiner, OneAtATime', NEW p \in Procs, CallDelete(p) PROVE AloneJoiner'
<1>1. PICK h : h = op[p]
    OBVIOUS
<1>2. h \in Handler /\ Own(h) /\ h.phase = "delete" /\ h # Idle
    BY <1>1, DeleteCall
<1>3. PICK d \in Dirs, f \in FaultsOfACall : \E r \in DeleteUser(Kind[d], account[d], f), o \in Handler \cup {Idle} :
        /\ d \in h.todo /\ Goes(f)
        /\ account' = [account EXCEPT ![d] = r.account] /\ op' = [op EXCEPT ![p] = o]
        /\ r.answer = "ok" => o = Deleted(h, d)
        /\ r.answer = "raised" => o = Idle
        /\ r.answer \notin {"ok", "raised"} => o = Skipped(h, d)
    BY <1>1, DeleteCall
<1>4. PICK r \in DeleteUser(Kind[d], account[d], f), o \in Handler \cup {Idle} :
        /\ d \in h.todo /\ Goes(f)
        /\ account' = [account EXCEPT ![d] = r.account] /\ op' = [op EXCEPT ![p] = o]
        /\ r.answer = "ok" => o = Deleted(h, d)
        /\ r.answer = "raised" => o = Idle
        /\ r.answer \notin {"ok", "raised"} => o = Skipped(h, d)
    BY <1>3
<1>5. Kind[d] \in Kinds /\ account \in [Dirs -> Accounts] /\ Reads(h, joiner)
    BY <1>1, <1>2, DirsAreNumbers DEF JoinerInv, TypeOK, AloneJoiner
<1>6. o \in {Deleted(h, d), Skipped(h, d), Idle} /\ UNCHANGED <<joiner, rows, people, active>>
    BY <1>4 DEF CallDelete
<1>7. ASSUME o = Deleted(h, d)
      PROVE  /\ o \in Handler /\ o.phase = h.phase /\ o.kind = h.kind /\ o.read = h.read
             /\ o.row.status = h.row.status /\ o.row.user = h.row.user /\ o.row.requested = h.row.requested
             /\ o.row.targets = [h.row.targets EXCEPT ![d] = "DELETED"]
             /\ o.rows = [h.rows EXCEPT ![d] = "DELETED"] /\ o.todo = h.todo \ {d}
    BY <1>2, <1>7 DEF Deleted, Handler, Request, TargetStatus, RowStatus
<1>8. ASSUME o = Skipped(h, d)
      PROVE  /\ o \in Handler /\ o.phase = h.phase /\ o.kind = h.kind /\ o.read = h.read
             /\ o.row = h.row /\ o.rows = h.rows /\ o.todo = h.todo \ {d}
    BY <1>2, <1>8 DEF Skipped, Handler
<1>9. o # Idle => Reads(o, joiner)
    BY <1>5, <1>6, <1>7, <1>8 DEF Reads
<1>10. ASSUME f # "lost", Flight(h, joiner, account, rows, active)
       PROVE  o # Idle /\ Flight(o, joiner, account', rows, active)
    <2>1. h.row.targets[d] = "CREATED" /\ Match(account, h.row, Merge(rows, h))
        BY <1>2, <1>4, <1>10 DEF Flight, Cancelling
    <2>2. account[d] = "off"
        BY <2>1 DEF Match, Says
    <2>3. \/ r.account = "none" /\ r.answer = "ok"
          \/ r.account = "off" /\ r.answer = "error"
        BY <1>4, <1>5, <1>10, <2>2, DeleteAnswers
    <2>4. h.row.targets \in [Dirs -> TargetStatus] /\ h.row.requested \in SUBSET Dirs /\ h.todo \in SUBSET Dirs
        BY <1>2 DEF Handler, Request
    <2>5. CASE r.answer = "ok"
        <3>1. o = Deleted(h, d) /\ r.account = "none"
            BY <1>4, <2>3, <2>5
        <3>2. Match(account', o.row, Merge(rows, o))
            <4>1. h.row.targets \in [Dirs -> TargetStatus] /\ h.rows \in [Dirs -> RowStatus]
                BY <1>2 DEF Handler, Request
            <4>2. account' = [account EXCEPT ![d] = "none"]
                BY <1>4, <3>1
            <4>. QED
                BY <1>5, <1>7, <2>1, <3>1, <4>1, <4>2 DEF Match, Merge, Says, RowOf
        <3>3. Cancelling(o, active)
            BY <1>2, <1>7, <1>10, <2>4, <3>1 DEF Flight, Cancelling
        <3>. QED
            BY <1>2, <1>7, <1>10, <3>1, <3>2, <3>3, HandlerShape DEF Flight, Creating, SwitchingOn
    <2>6. CASE r.answer = "error"
        <3>1. o = Skipped(h, d) /\ r.account = "off"
            BY <1>4, <2>3, <2>6
        <3>2. account' = account
            BY <1>4, <1>5, <2>2, <3>1
        <3>3. Match(account', o.row, Merge(rows, o))
            BY <1>8, <2>1, <3>1, <3>2 DEF Match, Merge
        <3>4. Cancelling(o, active)
            BY <1>2, <1>8, <1>10, <3>1 DEF Flight, Cancelling
        <3>. QED
            BY <1>2, <1>8, <1>10, <3>1, <3>3, <3>4, HandlerShape DEF Flight, Creating, SwitchingOn
    <2>. QED
        BY <2>3, <2>5, <2>6
<1>11. Answered(h, o, f)
    BY <1>10 DEF Answered
<1>. QED
    BY <1>1, <1>2, <1>4, <1>6, <1>9, <1>11, CallAlone

-----------------------------------------------------------------------------
\* What a handler that commits o and goes on as n must have seen to.
Settles(h, o, n) == Told /\ Regular(joiner, active) /\ Flight(h, joiner, account, rows, active) =>
    /\ Regular(o.row, active')
    /\ n # Idle => /\ o.row.status # "CANCELLED"
                   /\ Creating(n, active') /\ SwitchingOn(n) /\ Cancelling(n, active')

LEMMA CommitAlone ==
    ASSUME JoinerInv, AloneJoiner, OneAtATime', NEW p \in Procs, NEW h, h = op[p], h # Idle,
           NEW o \in Handler, o.read = h.read, o.rows = h.rows, o.row.user = h.row.user, o.row.targets = h.row.targets,
           o.row.status # "NONE", Commit(o), NEW n \in Handler \cup {Idle}, op' = [op EXCEPT ![p] = n],
           n # Idle => /\ n.read = o.row /\ n.row.user = o.row.user /\ n.row.targets = o.row.targets
                       /\ n.rows = o.rows,
           UNCHANGED <<account, faults>>, Settles(h, o, n)
    PROVE  AloneJoiner'
<1>1. Reads(h, joiner)
    BY DEF AloneJoiner
<1>2. /\ joiner' = o.row /\ rows' = Merge(rows, o) /\ people' = {joiner'.user} \ {NoUser}
    BY <1>1, AloneWrites DEF AloneJoiner, Reads
<1>3. Counted' /\ (Told' => Told)
    BY DEF AloneJoiner, Counted, Told
<1>4. n # Idle => Reads(n, joiner')
    BY <1>2 DEF Reads
<1>5. ASSUME Told'
      PROVE  /\ Regular(joiner', active')
             /\ n = Idle => Match(account', joiner', rows')
             /\ n # Idle => Flight(n, joiner', account', rows', active')
    <2>1. Regular(joiner, active) /\ Flight(h, joiner, account, rows, active) /\ Told
        BY <1>3, <1>5 DEF AloneJoiner, Straight
    <2>2. /\ Regular(o.row, active')
          /\ n # Idle => /\ o.row.status # "CANCELLED"
                         /\ Creating(n, active') /\ SwitchingOn(n) /\ Cancelling(n, active')
        BY <2>1 DEF Settles
    <2>3. Match(account, h.row, Merge(rows, h))
        BY <2>1 DEF Flight
    <2>4. Match(account', joiner', rows')
        BY <1>2, <2>3 DEF Match, Merge
    <2>5. n # Idle => Match(account', n.row, Merge(rows', n))
        BY <1>2, <2>4 DEF Match, Merge
    <2>. QED
        BY <1>2, <2>2, <2>4, <2>5 DEF Flight
<1>. QED
    BY <1>2, <1>3, <1>4, <1>5, SoleStep DEF AloneJoiner

LEMMA FinishCreateAlone == ASSUME JoinerInv, AloneJoiner, OneAtATime', NEW p \in Procs, FinishCreate(p) PROVE AloneJoiner'
<1>1. PICK h : h = op[p]
    OBVIOUS
<1>2. /\ h \in Handler /\ Own(h) /\ h # Idle /\ h.phase = "create" /\ h.todo = {}
      /\ ~(h.kind = "create" /\ h.row.user = NoUser)
    BY <1>1, FinishCreateCall
<1>3. PICK o \in Handler, r \in Request, n \in Handler \cup {Idle} : CreationOver(p, h, o, r, n)
    BY <1>1, FinishCreateCall
<1>4. /\ o = [h EXCEPT !.row.status = AfterCreation(h)] /\ r = BeforeEnabling(o)
      /\ o.read = h.read /\ o.rows = h.rows /\ o.row.status = AfterCreation(h) /\ o.row.status # "NONE"
      /\ o.kind = h.kind
      /\ o.row.user = h.row.user /\ o.row.targets = h.row.targets /\ o.row.requested = h.row.requested
      /\ r.user = o.row.user /\ r.targets = o.row.targets /\ r.requested = o.row.requested
      /\ r.status = o.row.status \/ (r.status = "PARTIAL" /\ o.row.status = "SCHEDULED" /\ o.kind = "retry")
      /\ Commit(o) /\ op' = [op EXCEPT ![p] = n]
      /\ n = Idle \/ (n = Enabling(o, r) /\ r.user # NoUser)
    BY <1>3 DEF CreationOver
<1>5. UNCHANGED <<account, faults, active>>
    BY DEF FinishCreate
<1>6. n # Idle => /\ n.phase = "enable" /\ n.read = o.row /\ n.row = r /\ n.rows = o.rows
                  /\ n.todo = Having(r, {"CREATED"})
    <2>1. SUFFICES ASSUME n = Enabling(o, r)
                   PROVE  /\ n.phase = "enable" /\ n.read = o.row /\ n.row = r /\ n.rows = o.rows
                          /\ n.todo = Having(r, {"CREATED"})
        BY <1>4
    <2>. QED
        BY <2>1, EnablingFields
<1>7. ASSUME Regular(joiner, active), Flight(h, joiner, account, rows, active)
      PROVE  /\ Regular(o.row, active')
             /\ n # Idle => /\ o.row.status # "CANCELLED"
                            /\ Creating(n, active') /\ SwitchingOn(n) /\ Cancelling(n, active')
    <2>1. /\ \A d \in h.row.requested : h.row.targets[d] # "none"
          /\ h.row.status # "PARTIAL" => active = {} /\ \A d \in Dirs : h.row.targets[d] # "ENABLED"
          /\ \/ h.kind # "provision" /\ h.row.status \in {"SCHEDULED", "PARTIAL"}
             \/ h.kind = "provision" /\ h.row.status = "PENDING_PROVISIONING"
        BY <1>2, <1>7 DEF Flight, Creating
    <2>2. o.row.status \in {"SCHEDULED", "PARTIAL"} /\ (o.row.status # "PARTIAL" => h.row.status # "PARTIAL")
        BY <1>4, <2>1 DEF AfterCreation
    <2>3. Regular(o.row, active')
        BY <1>4, <1>5, <2>1, <2>2 DEF Regular
    <2>4. n # Idle => SwitchingOn(n)
        BY <1>4, <1>6, <2>1 DEF SwitchingOn, Having
    <2>. QED
        BY <1>6, <2>2, <2>3, <2>4 DEF Creating, Cancelling
<1>8. Settles(h, o, n)
    BY <1>7 DEF Settles
<1>9. n # Idle => /\ n.read = o.row /\ n.row.user = o.row.user /\ n.row.targets = o.row.targets
                  /\ n.rows = o.rows
    BY <1>4, <1>6
<1>. QED
    BY <1>1, <1>2, <1>4, <1>5, <1>8, <1>9, CommitAlone

LEMMA FinishEnableAlone == ASSUME JoinerInv, AloneJoiner, OneAtATime', NEW p \in Procs, FinishEnable(p) PROVE AloneJoiner'
<1>1. PICK h : h = op[p]
    OBVIOUS
<1>2. h \in Handler /\ Own(h) /\ h # Idle /\ h.phase = "enable" /\ h.todo = {}
    BY <1>1, FinishEnableCall
<1>3. PICK o \in Handler, n \in Handler \cup {Idle} :
        /\ o.phase = "enable" /\ o.read = h.read /\ o.rows = h.rows
        /\ o.row.status = IF AllEnabled(h.row) THEN "ACTIVE" ELSE "PARTIAL"
        /\ o.row.user = h.row.user /\ o.row.targets = h.row.targets /\ o.row.requested = h.row.requested
        /\ Commit(o) /\ op' = [op EXCEPT ![p] = n]
        /\ \/ Started(o.row) /\ n = GrantingOf(o) /\ active' = active \cup {o.row.user}
           \/ ~Started(o.row) /\ n = Idle /\ active' = active
    BY <1>1, FinishEnableCall
<1>4. UNCHANGED <<account, faults>> /\ o.row.status \in {"ACTIVE", "PARTIAL"}
    BY <1>3 DEF FinishEnable
<1>5. n # Idle => /\ n.phase = "grant" /\ n.read = o.row /\ n.row = o.row /\ n.rows = o.rows
    BY <1>3, GrantingFields
<1>6. ASSUME Flight(h, joiner, account, rows, active)
      PROVE  /\ Regular(o.row, active')
             /\ n # Idle => /\ o.row.status # "CANCELLED"
                            /\ Creating(n, active') /\ SwitchingOn(n) /\ Cancelling(n, active')
    <2>1. \A d \in h.row.requested : h.row.targets[d] # "none"
        BY <1>2, <1>6 DEF Flight, SwitchingOn
    <2>2. o.row.status = "ACTIVE" => \A d \in Dirs : o.row.targets[d] \in {"none", "ENABLED"}
        BY <1>3 DEF AllEnabled, Having
    <2>3. Regular(o.row, active')
        BY <1>3, <1>4, <2>1, <2>2 DEF Regular
    <2>. QED
        BY <1>4, <1>5, <2>3 DEF Creating, SwitchingOn, Cancelling
<1>7. Settles(h, o, n)
    BY <1>6 DEF Settles
<1>8. n # Idle => /\ n.read = o.row /\ n.row.user = o.row.user /\ n.row.targets = o.row.targets
                  /\ n.rows = o.rows
    BY <1>5
<1>. QED
    BY <1>1, <1>2, <1>3, <1>4, <1>7, <1>8, CommitAlone

LEMMA FinishCancelAlone == ASSUME JoinerInv, AloneJoiner, OneAtATime', NEW p \in Procs, FinishCancel(p) PROVE AloneJoiner'
<1>1. PICK h : h = op[p]
    OBVIOUS
<1>2. h.phase = "delete" /\ h # Idle
    BY <1>1 DEF FinishCancel, Idle
<1>3. h \in Handler /\ Own(h)
    BY <1>1, <1>2, Taking
<1>4. Commit(h) /\ op' = [op EXCEPT ![p] = Idle] /\ UNCHANGED <<account, active, faults>>
    BY <1>1 DEF FinishCancel, Ends
<1>5. PICK n \in Handler \cup {Idle} : n = Idle
    OBVIOUS
<1>6. Settles(h, h, n)
    BY <1>2, <1>4, <1>5 DEF Settles, Flight, Cancelling, Regular
<1>7. h.row.status # "NONE"
    BY <1>3 DEF Own
<1>. QED
    BY <1>1, <1>2, <1>3, <1>4, <1>5, <1>6, <1>7, CommitAlone

\* A handler that stops without a word more in the database.
LEMMA EndAlone ==
    ASSUME JoinerInv, AloneJoiner, OneAtATime', NEW p \in Procs, op[p] # Idle, op' = [op EXCEPT ![p] = Idle],
           UNCHANGED <<joiner, account, rows, people, active, faults>>,
           Told /\ Regular(joiner, active) => Match(account, joiner, rows)
    PROVE  AloneJoiner'
<1>1. Counted' /\ (Told' => Told) /\ people' = {joiner'.user} \ {NoUser}
    BY DEF AloneJoiner, Counted, Told
<1>2. PICK n : n = Idle
    OBVIOUS
<1>3. Told' => Regular(joiner', active') /\ Match(account', joiner', rows')
    BY <1>1 DEF AloneJoiner, Straight
<1>. QED
    BY <1>1, <1>2, <1>3, SoleStep DEF AloneJoiner

LEMMA GrantAlone == ASSUME JoinerInv, AloneJoiner, OneAtATime', NEW p \in Procs, GrantBirthright(p) PROVE AloneJoiner'
<1>1. op[p].phase = "grant" /\ op[p] # Idle
    BY DEF GrantBirthright, Idle
<1>2. op' = [op EXCEPT ![p] = Idle] /\ UNCHANGED <<joiner, account, rows, people, active, faults>>
    BY DEF GrantBirthright, Ends
<1>3. Told => Match(account, joiner, rows)
    BY <1>1 DEF AloneJoiner, Straight, Flight
<1>. QED
    BY <1>1, <1>2, <1>3, EndAlone

\* No account was made: there is none to leave behind.
LEMMA RefuseAlone == ASSUME JoinerInv, AloneJoiner, OneAtATime', NEW p \in Procs, RefuseJoiner(p) PROVE AloneJoiner'
<1>1. PICK h : h = op[p]
    OBVIOUS
<1>2. h.phase = "create" /\ h.kind = "create" /\ h.row.user = NoUser /\ h # Idle
    BY <1>1 DEF RefuseJoiner, Idle
<1>3. op' = [op EXCEPT ![p] = Idle] /\ UNCHANGED <<joiner, account, rows, people, active, faults>>
    BY DEF RefuseJoiner, Ends
<1>4. h \in Handler /\ HasUser(h.row) /\ Reads(h, joiner)
    BY <1>1, <1>2, Taking DEF Own, AloneJoiner
<1>5. ASSUME Told, Regular(joiner, active) PROVE Match(account, joiner, rows)
    <2>1. Flight(h, joiner, account, rows, active)
        BY <1>1, <1>2, <1>5 DEF AloneJoiner, Straight
    <2>2. joiner.status = "NONE" /\ \A d \in Dirs : h.row.targets[d] \in {"none", "FAILED", "CREATED"}
        BY <1>2, <1>4, <2>1 DEF Flight, Creating, Reads
    <2>3. \A d \in Dirs : h.row.targets[d] \in {"none", "FAILED"}
        BY <1>2, <1>4, <2>2 DEF HasUser
    <2>4. \A d \in Dirs : account[d] = "none" /\ Merge(rows, h)[d] = "none"
        BY <2>1, <2>3 DEF Flight, Match, Says, RowOf
    <2>5. \A d \in Dirs : rows[d] = "none"
        BY <2>4 DEF Merge
    <2>6. \A d \in Dirs : joiner.targets[d] = "none"
        BY <1>5, <2>2 DEF Regular
    <2>. QED
        BY <2>4, <2>5, <2>6 DEF Match, Says, RowOf
<1>. QED
    BY <1>1, <1>2, <1>3, <1>5, EndAlone

LEMMA CrashAlone == ASSUME JoinerInv, AloneJoiner, Crash PROVE AloneJoiner'
<1>1. /\ \A p \in Procs : op'[p] = Idle
      /\ faults' = [faults EXCEPT !["crash"] = @ + 1]
      /\ UNCHANGED <<joiner, account, rows, people, active>>
    BY DEF Crash, Count
<1>2. faults["crash"] \in Nat /\ faults["crash"] + 1 # 0 /\ faults'["crash"] = faults["crash"] + 1
    BY <1>1 DEF AloneJoiner, Counted, Faults
<1>3. ~Told' /\ Counted'
    BY <1>1, <1>2 DEF Told, AloneJoiner, Counted, Faults
<1>4. OneAtATime' /\ Straight' /\ people' = {joiner'.user} \ {NoUser}
    BY <1>1, <1>3 DEF OneAtATime, Straight, AloneJoiner
<1>. QED
    BY <1>1, <1>3, <1>4 DEF AloneJoiner

LEMMA AsideAlone ==
    ASSUME AloneJoiner, UNCHANGED <<joiner, account, rows, people, active, op, faults>>
    PROVE  AloneJoiner'
<1>1. Straight'
    BY DEF AloneJoiner, Straight, Told, Quiet, Busy, Regular, Match, Flight, Merge, Creating, SwitchingOn, Cancelling
<1>. QED
    BY <1>1 DEF AloneJoiner, OneAtATime, Counted, Reads

LEMMA ContinueAlone == ASSUME JoinerInv, AloneJoiner, OneAtATime', NEW p \in Procs, Continue(p) PROVE AloneJoiner'
BY CallCreateAlone, RefuseAlone, FinishCreateAlone, CallEnableAlone, FinishEnableAlone, GrantAlone,
   CallDeleteAlone, FinishCancelAlone DEF Continue

LEMMA NextAlone == ASSUME JoinerInv, AloneJoiner, OneAtATime', Next PROVE AloneJoiner'
<1>1. Worker \in Procs /\ Requests \subseteq Procs
    BY DEF Procs
<1>2. ASSUME NEW d \in Dirs, SetTargetEnabled(d) PROVE AloneJoiner'
    <2>1. UNCHANGED <<joiner, account, rows, people, active, op, faults>>
        BY <1>2 DEF SetTargetEnabled
    <2>. QED
        BY <2>1, AsideAlone
<1>3. CASE Tick
    <2>1. UNCHANGED <<joiner, account, rows, people, active, op, faults>>
        BY <1>3 DEF Tick
    <2>. QED
        BY <2>1, AsideAlone
<1>4. CASE RetryDue
    BY <1>1, <1>4, RetryAlone DEF RetryDue
<1>. QED
    BY <1>1, <1>2, <1>3, <1>4, CreateJoinerAlone, RetryAlone, CancelAlone, ProvisionDueAlone, ActivateDueAlone,
       ContinueAlone, CrashAlone DEF Next

\* A step moves one handler, unless it stops them all.
LEMMA OneMoves == ASSUME JoinerInv, Next PROVE op' = op \/ Crash \/ \E p \in Procs : \E o : op' = [op EXCEPT ![p] = o]
<1>1. Worker \in Procs /\ Requests \subseteq Procs
    BY DEF Procs
<1>2. ASSUME NEW q \in Requests, CreateJoiner(q)
      PROVE  op' = op \/ \E p \in Procs : \E o : op' = [op EXCEPT ![p] = o]
    <2>1. PICK picks \in (SUBSET on) \ {{}}, needs \in SUBSET Dirs, start \in clock..MaxClock :
            LET r == Submitted(Wanted(picks, needs), start) IN
                IF Deferred(start) THEN joiner' = r /\ UNCHANGED op
                ELSE op' = [op EXCEPT ![q] = NewOp("create", "create", r, r.requested)] /\ UNCHANGED joiner
        BY <1>2 DEF CreateJoiner
    <2>. QED
        BY <1>1, <2>1
<1>3. ASSUME NEW q \in Procs, RetryJoiner(q) PROVE \E p \in Procs : \E o : op' = [op EXCEPT ![p] = o]
    <2>1. \E o : op' = [op EXCEPT ![q] = o]
        BY <1>3, Zenon DEF RetryJoiner
    <2>. QED
        BY <2>1
<1>4. ASSUME NEW q \in Requests, CancelJoiner(q) PROVE \E p \in Procs : \E o : op' = [op EXCEPT ![p] = o]
    BY <1>1, <1>4 DEF CancelJoiner
<1>5. ASSUME ProvisionDue \/ ActivateDue PROVE \E p \in Procs : \E o : op' = [op EXCEPT ![p] = o]
    BY <1>1, <1>5 DEF ProvisionDue, ActivateDue
<1>6. ASSUME NEW p \in Procs, Continue(p) PROVE \E o : op' = [op EXCEPT ![p] = o]
    <2>1. CASE CallCreate(p)
        BY <2>1, CreateCall
    <2>2. CASE CallEnable(p)
        BY <2>2, EnableCall
    <2>3. CASE CallDelete(p)
        BY <2>3, DeleteCall
    <2>4. CASE FinishCreate(p)
        BY <2>4 DEF FinishCreate
    <2>5. CASE FinishEnable(p)
        BY <2>5 DEF FinishEnable
    <2>6. CASE RefuseJoiner(p) \/ GrantBirthright(p) \/ FinishCancel(p)
        BY <2>6 DEF RefuseJoiner, GrantBirthright, FinishCancel, Ends
    <2>. QED
        BY <1>6, <2>1, <2>2, <2>3, <2>4, <2>5, <2>6 DEF Continue
<1>7. RetryDue => RetryJoiner(Worker)
    BY DEF RetryDue
<1>8. Tick \/ (\E d \in Dirs : SetTargetEnabled(d)) => op' = op
    BY DEF Tick, SetTargetEnabled
<1>. QED
    BY <1>1, <1>2, <1>3, <1>4, <1>5, <1>6, <1>7, <1>8 DEF Next

\* While no more than one handler is under way after each step, no two ever are.
LEMMA OneStays == ASSUME JoinerInv, OneAtATime, Next, Cardinality(Busy') <= 1 PROVE OneAtATime'
<1>1. CASE Crash
    BY <1>1 DEF Crash, OneAtATime
<1>2. CASE op' = op
    BY <1>2 DEF OneAtATime
<1>3. ASSUME NEW p \in Procs, NEW o, op' = [op EXCEPT ![p] = o] PROVE OneAtATime'
    <2>1. SUFFICES ASSUME NEW a \in Procs, NEW b \in Procs, op'[a] # Idle, op'[b] # Idle, a # b PROVE FALSE
        BY DEF OneAtATime
    <2>2. \A c \in Procs : c # p => op'[c] = op[c]
        BY <1>3 DEF JoinerInv, TypeOK
    <2>3. a = p \/ b = p
        BY <2>1, <2>2 DEF OneAtATime
    <2>4. Busy' = {a, b}
        BY <2>1, <2>2, <2>3 DEF Busy, OneAtATime
    <2>5. Cardinality({a, b}) = 2
        <3>1. IsFiniteSet({a}) /\ Cardinality({a}) = 1
            BY FS_Singleton
        <3>2. {a, b} = {a} \cup {b} /\ b \notin {a}
            BY <2>1
        <3>. QED
            BY <3>1, <3>2, FS_AddElement
    <2>. QED
        BY <2>4, <2>5
<1>. QED
    BY <1>1, <1>2, <1>3, OneMoves

\* What the invariant says of a joiner while nothing is under way, and of a cancelled one.
LEMMA AloneAccounts == ASSUME JoinerInv, AloneJoiner PROVE AccountsMatch /\ CancelledStaysOff /\ OnePerson
<1>1. AccountsMatch
    <2>1. SUFFICES ASSUME Told, Quiet
                   PROVE  /\ \A d \in Dirs : account[d] = Says(joiner.targets[d]) /\ rows[d] = RowOf(joiner.targets[d])
                          /\ Having(joiner, {"CREATED", "ENABLED"}) # {} => joiner.user # NoUser
                          /\ joiner.status = "ACTIVE" => \A d \in joiner.requested : account[d] = "on"
        BY DEF AccountsMatch
    <2>2. Regular(joiner, active) /\ Match(account, joiner, rows)
        BY <2>1 DEF AloneJoiner, Straight
    <2>3. joiner.requested \in SUBSET Dirs /\ HasUser(joiner)
        BY DEF JoinerInv, TypeOK, Request
    <2>4. ASSUME joiner.status = "ACTIVE", NEW d \in joiner.requested PROVE account[d] = "on"
        <3>1. joiner.targets[d] = "ENABLED"
            BY <2>2, <2>3, <2>4 DEF Regular
        <3>. QED
            BY <2>2, <2>3, <3>1 DEF Match, Says
    <2>. QED
        BY <2>2, <2>3, <2>4 DEF Match, Having, HasUser
<1>2. CancelledStaysOff
    <2>1. SUFFICES ASSUME Told, joiner.status = "CANCELLED" PROVE active = {} /\ \A d \in Dirs : account[d] # "on"
        BY DEF CancelledStaysOff
    <2>2. Quiet
        BY <2>1 DEF AloneJoiner, Straight, Flight, Quiet, Busy
    <2>3. Regular(joiner, active) /\ Match(account, joiner, rows)
        BY <2>1, <2>2 DEF AloneJoiner, Straight
    <2>4. active = {} /\ \A d \in Dirs : joiner.targets[d] # "ENABLED"
        BY <2>1, <2>3 DEF Regular
    <2>. QED
        BY <2>3, <2>4 DEF Match, Says
<1>3. OnePerson
    <2>1. CASE joiner.user = NoUser
        <3>1. people = {}
            BY <2>1 DEF AloneJoiner
        <3>. QED
            BY <3>1, FS_EmptySet DEF OnePerson
    <2>2. CASE joiner.user # NoUser
        <3>1. people = {joiner.user}
            BY <2>2 DEF AloneJoiner
        <3>. QED
            BY <3>1, FS_Singleton DEF OnePerson
    <2>. QED
        BY <2>1, <2>2
<1>. QED
    BY <1>1, <1>2, <1>3

LEMMA StartsAlone == ASSUME Init PROVE AloneJoiner
<1>1. Counted
    BY DEF Init, Counted
<1>2. \A p \in Procs : op[p] = Idle
    BY DEF Init
<1>3. Regular(joiner, active) /\ Match(account, joiner, rows)
    BY DEF Init, NoRequest, Regular, Match, Says, RowOf
<1>4. people = {joiner.user} \ {NoUser}
    BY DEF Init, NoRequest
<1>. QED
    BY <1>1, <1>2, <1>3, <1>4 DEF AloneJoiner, OneAtATime, Straight

\* What is kept of the joiner: everything while one handler is under way at a time.
KeptJoiner == /\ JoinerInv /\ width \in Nat
              /\ width = 1 => AloneJoiner

LEMMA KeepsJoiner == KeptJoiner /\ [WideNext]_<<vars, others, subject, width>> => KeptJoiner'
<1>. SUFFICES ASSUME KeptJoiner, [WideNext]_<<vars, others, subject, width>> PROVE KeptJoiner'
    OBVIOUS
<1>1. width' = width /\ (UNCHANGED vars \/ (Next /\ Cardinality(Busy') <= width))
    BY DEF WideNext, JoinerNext
<1>2. CASE UNCHANGED vars
    <2>1. JoinerInv'
        BY <1>2, QuietKeeps DEF KeptJoiner, vars, JoinerInv, TypeOK
    <2>2. width = 1 => AloneJoiner'
        BY <1>2, AsideAlone DEF KeptJoiner, vars
    <2>. QED
        BY <1>1, <2>1, <2>2 DEF KeptJoiner
<1>3. CASE Next /\ Cardinality(Busy') <= width
    <2>1. JoinerInv'
        BY <1>3, NextKeeps DEF KeptJoiner
    <2>2. ASSUME width = 1 PROVE AloneJoiner'
        <3>1. OneAtATime'
            BY <1>3, <2>2, OneStays DEF KeptJoiner, AloneJoiner
        <3>. QED
            BY <1>3, <2>2, <3>1, NextAlone DEF KeptJoiner
    <2>. QED
        BY <1>1, <2>1, <2>2 DEF KeptJoiner
<1>. QED
    BY <1>1, <1>2, <1>3

\* joiner.py: the rows and handlers keep their shapes, whatever interleaves; one handler at a
\* time, and as long as no outcome is uncertain, a joiner's targets, accounts, account rows and
\* person agree, a cancelled joiner's accounts stay off, and there is one User row.
THEOREM AccountsAlways == WideSpec => []AloneAccountsMatch
<1>1. WideInit => KeptJoiner
    BY StartsInv, StartsAlone DEF WideInit, KeptJoiner
<1>2. KeptJoiner => AloneAccountsMatch
    BY AloneAccounts DEF KeptJoiner, AloneAccountsMatch, Alone, JoinerInv
<1>. QED
    BY <1>1, <1>2, KeepsJoiner, PTL DEF WideSpec

-----------------------------------------------------------------------------
(***************************************************************************)
(* People who are brought in by imports (Intake).                          *)
(***************************************************************************)
\* A file says something of whomever it says to commit.
Filed(file) == \A p \in People : file.action[p] = "APPLY" => file.row[p] \in Intake!Row

\* A handler is in the middle of a row, or asks for access, or is about to save.
AtWork(o)   == o.kind \in {"row", "leave"} /\ o = [kind |-> o.kind, file |-> o.file, from |-> o.from, todo |-> o.todo]
Saving(o)   == o.found \in BOOLEAN /\ o = [kind |-> "save", file |-> o.file, from |-> o.from, todo |-> o.todo, found |-> o.found]
Granting(o) == o.moved \in BOOLEAN /\ o = [kind |-> "access", file |-> o.file, from |-> o.from, todo |-> o.todo, moved |-> o.moved]

\* What handler o goes by: its file, and an account that it has found.
Founded(o) == \/ o = Intake!Idle
              \/ /\ AtWork(o) \/ Saving(o) \/ Granting(o)
                 /\ Filed(o.file)
                 /\ o.kind = "save" => \A p \in People : p = Head(o.todo) =>
                        /\ o.file.row[p] \in Intake!Row
                        /\ o.found => held[p] # Intake!None

Import == [status : {"VALIDATED", "COMMITTED"}, action : [People -> {"ABSENT", "ERROR", "APPLY", "DISABLE"}],
           row : [People -> Intake!Row \cup {Intake!None}]]

IntakeInv == /\ Intake!TypeOK
             /\ uploads \in Seq(Import) /\ \A i \in DOMAIN uploads : Filed(uploads[i])
             /\ import = [q \in Intake!Procs |-> import[q]]
             /\ \A q \in Intake!Procs : Founded(import[q])

LEMMA Distinct == /\ Intake!None \notin Intake!Row /\ Intake!None \notin Intake!Account /\ Intake!None \notin Intake!Person
BY DEF Intake!None, Intake!Row, Intake!Account, Intake!Person

LEMMA ValidatedFiled == ASSUME Intake!TypeOK PROVE Intake!Validated \in Import /\ Filed(Intake!Validated)
<1>1. \A p \in People : /\ Intake!Planned(p) \in {"ABSENT", "ERROR", "APPLY", "DISABLE"}
                        /\ Intake!Planned(p) = "APPLY" => feed[p] \in Intake!Row
  <2>1. SUFFICES ASSUME NEW p \in People
                 PROVE  /\ Intake!Planned(p) \in {"ABSENT", "ERROR", "APPLY", "DISABLE"}
                        /\ Intake!Planned(p) = "APPLY" => feed[p] \in Intake!Row
      OBVIOUS
  <2>2. feed[p] \in Intake!Row \cup {Intake!None}
      BY DEF Intake!TypeOK
  <2>3. CASE feed[p] = Intake!None
      BY <2>3 DEF Intake!Planned, Intake!None
  <2>4. CASE feed[p] # Intake!None
      BY <2>2, <2>4 DEF Intake!Planned, Intake!Row
  <2>. QED
      BY <2>3, <2>4
<1>. QED
    BY <1>1 DEF Intake!Validated, Import, Filed, Intake!TypeOK

LEMMA UploadKeeps == ASSUME IntakeInv, Intake!Upload PROVE uploads' \in Seq(Import) /\ \A i \in DOMAIN uploads' : Filed(uploads'[i])
<1>1. PICK f : f = Intake!Validated
    OBVIOUS
<1>2. f \in Import /\ Filed(f) /\ uploads' = Append(uploads, f)
    BY <1>1, ValidatedFiled DEF Intake!Upload, IntakeInv
<1>. QED
    BY <1>2 DEF IntakeInv

\* Accounts are switched off and never disappear.
HeldOn == \A p \in People : held[p] # Intake!None => held'[p] # Intake!None

LEMMA ShapeOf ==
    ASSUME NEW o, Founded(o)
    PROVE  /\ o.kind \in {"idle", "row", "leave", "save", "access"}
           /\ o.kind = "idle" <=> o = Intake!Idle
           /\ o # Intake!Idle => Filed(o.file)
           /\ o.kind \in {"row", "leave"} => AtWork(o)
           /\ o.kind = "save" => Saving(o)
           /\ o.kind = "access" => Granting(o)
<1>1. CASE o = Intake!Idle
    BY <1>1 DEF Intake!Idle
<1>2. CASE AtWork(o)
  <2>1. o.kind \in {"row", "leave"} /\ Intake!Idle.kind = "idle"
      BY <1>2 DEF AtWork, Intake!Idle
  <2>. QED
      BY <1>2, <2>1 DEF Founded
<1>3. CASE Saving(o)
  <2>1. o.kind = "save" /\ Intake!Idle.kind = "idle"
      BY <1>3 DEF Saving, Intake!Idle
  <2>. QED
      BY <1>3, <2>1 DEF Founded
<1>4. CASE Granting(o)
  <2>1. o.kind = "access" /\ Intake!Idle.kind = "idle"
      BY <1>4 DEF Granting, Intake!Idle
  <2>. QED
      BY <1>4, <2>1 DEF Founded
<1>5. o = Intake!Idle \/ AtWork(o) \/ Saving(o) \/ Granting(o)
    BY DEF Founded
<1>. QED
    BY <1>1, <1>2, <1>3, <1>4, <1>5

\* What a handler makes of its import.
LEMMA WorkFounded ==
    ASSUME NEW k \in {"row", "leave"}, NEW file, Filed(file), NEW from, NEW todo
    PROVE  Founded([kind |-> k, file |-> file, from |-> from, todo |-> todo])
<1>1. PICK o : o = [kind |-> k, file |-> file, from |-> from, todo |-> todo]
    OBVIOUS
<1>2. AtWork(o)
    BY <1>1 DEF AtWork
<1>3. o.kind # "save" /\ o.file = file
    BY <1>1
<1>. QED
    BY <1>1, <1>2, <1>3 DEF Founded

LEMMA GrantFounded ==
    ASSUME NEW file, Filed(file), NEW from, NEW todo, NEW moved \in BOOLEAN
    PROVE  Founded([kind |-> "access", file |-> file, from |-> from, todo |-> todo, moved |-> moved])
<1>1. PICK o : o = [kind |-> "access", file |-> file, from |-> from, todo |-> todo, moved |-> moved]
    OBVIOUS
<1>2. Granting(o) /\ o.kind # "save" /\ o.file = file
    BY <1>1 DEF Granting
<1>. QED
    BY <1>1, <1>2 DEF Founded

LEMMA SaveFounded ==
    ASSUME NEW file, Filed(file), NEW from, NEW todo, NEW found \in BOOLEAN,
           \A p \in People : p = Head(todo) => file.row[p] \in Intake!Row /\ (found => held'[p] # Intake!None)
    PROVE  Founded([kind |-> "save", file |-> file, from |-> from, todo |-> todo, found |-> found])'
<1>1. PICK o : o = [kind |-> "save", file |-> file, from |-> from, todo |-> todo, found |-> found]
    OBVIOUS
<1>2. Saving(o) /\ o.file = file /\ o.todo = todo /\ o.found = found
    BY <1>1 DEF Saving
<1>3. Founded(o)'
    BY <1>2 DEF Founded, Saving, Filed
<1>. QED
    BY <1>1, <1>3

LEMMA IdleFounded == Founded(Intake!Idle)
BY DEF Founded

LEMMA Refound == ASSUME NEW o, Founded(o), HeldOn PROVE Founded(o)'
<1>1. CASE o = Intake!Idle
    BY <1>1 DEF Founded, Intake!Idle
<1>2. CASE o # Intake!Idle
  <2>1. (AtWork(o) \/ Saving(o) \/ Granting(o)) /\ Filed(o.file)
      BY <1>2 DEF Founded
  <2>2. o.kind = "save" => \A p \in People : p = Head(o.todo) =>
                        /\ o.file.row[p] \in Intake!Row
                        /\ o.found => held[p] # Intake!None
      BY <1>2 DEF Founded
  <2>3. o.kind = "save" => \A p \in People : p = Head(o.todo) =>
                        /\ o.file.row[p] \in Intake!Row
                        /\ o.found => held'[p] # Intake!None
      BY <2>2 DEF HeldOn
  <2>. QED
      BY <2>1, <2>3 DEF Founded
<1>. QED
    BY <1>1, <1>2

Handled == import = [q \in Intake!Procs |-> import[q]] /\ \A q \in Intake!Procs : Founded(import[q])

\* One handler goes on, and none does.
LEMMA HandlerGoesOn ==
    ASSUME IntakeInv, HeldOn, NEW q \in Intake!Procs, NEW h, import' = [import EXCEPT ![q] = h], Founded(h)'
    PROVE  Handled' /\ import'[q] = h /\ \A x \in Intake!Procs \ {q} : import'[x] = import[x]
<1>1. DOMAIN import = Intake!Procs
    BY DEF IntakeInv
<1>2. import'[q] = h /\ \A x \in Intake!Procs \ {q} : import'[x] = import[x]
    BY <1>1
<1>3. import' = [x \in Intake!Procs |-> import'[x]]
    BY <1>1
<1>4. ASSUME NEW x \in Intake!Procs PROVE Founded(import[x])'
  <2>1. PICK o : o = import'[x]
      OBVIOUS
  <2>2. Founded(o)'
    <3>1. CASE x = q
        BY <1>2, <2>1, <3>1
    <3>2. CASE x # q
      <4>1. o = import[x] /\ Founded(o)
          BY <1>2, <2>1, <3>2 DEF IntakeInv
      <4>. QED
          BY <4>1, Refound
    <3>. QED
        BY <3>1, <3>2
  <2>. QED
      BY <2>1, <2>2 DEF Founded
<1>. QED
    BY <1>2, <1>3, <1>4 DEF Handled

LEMMA HandlersStand ==
    ASSUME IntakeInv, HeldOn, import' = import
    PROVE  Handled'
<1>1. ASSUME NEW x \in Intake!Procs PROVE Founded(import[x])'
  <2>1. PICK o : o = import[x]
      OBVIOUS
  <2>2. Founded(o)'
      BY <2>1, Refound DEF IntakeInv
  <2>. QED
      BY <2>1, <2>2 DEF Founded
<1>. QED
    BY <1>1 DEF Handled, IntakeInv

\* A step of IntakeInv, its parts apart.
LEMMA Together ==
    ASSUME Intake!TypeOK', uploads' \in Seq(Import) /\ \A i \in DOMAIN uploads' : Filed(uploads'[i]), Handled'
    PROVE  IntakeInv'
BY DEF IntakeInv, Handled, Filed

LEMMA OutsideKeeps ==
    ASSUME IntakeInv, Intake!HrEdits \/ Intake!AccountByHand \/ Intake!DomainVerified
    PROVE  IntakeInv'
<1>1. UNCHANGED <<person, access, uploads, import>>
    BY DEF Intake!HrEdits, Intake!AccountByHand, Intake!DomainVerified
<1>2. feed' \in [People -> Intake!Row \cup {Intake!None}] /\ held' \in [People -> Intake!Account \cup {Intake!None}] /\ HeldOn
  <2>1. CASE Intake!HrEdits
      BY <2>1 DEF Intake!HrEdits, IntakeInv, Intake!TypeOK, HeldOn
  <2>2. CASE Intake!AccountByHand
    <3>1. PICK p \in People, d \in Departments : held[p] = Intake!None /\ held' = [held EXCEPT ![p] = [status |-> "ACTIVE", dept |-> d]]
        BY <2>2 DEF Intake!AccountByHand
    <3>2. [status |-> "ACTIVE", dept |-> d] \in Intake!Account
        BY DEF Intake!Account
    <3>. QED
        BY <2>2, <3>1, <3>2 DEF Intake!AccountByHand, IntakeInv, Intake!TypeOK, HeldOn
  <2>3. CASE Intake!DomainVerified
      BY <2>3 DEF Intake!DomainVerified, IntakeInv, Intake!TypeOK, HeldOn
  <2>. QED
      BY <2>1, <2>2, <2>3
<1>3. Intake!TypeOK'
    BY <1>1, <1>2 DEF IntakeInv, Intake!TypeOK, Intake!IsReal, HeldOn
<1>4. Handled'
    BY <1>1, <1>2, HandlersStand
<1>. QED
    BY <1>1, <1>3, <1>4, Together DEF IntakeInv

LEMMA UploadStepKeeps == ASSUME IntakeInv, Intake!Upload PROVE IntakeInv'
<1>1. UNCHANGED <<feed, held, rejects, second, person, stray, access, import>>
    BY DEF Intake!Upload, Intake!outside
<1>2. Intake!TypeOK' /\ HeldOn
    BY <1>1 DEF IntakeInv, Intake!TypeOK, Intake!IsReal, HeldOn
<1>3. Handled'
    BY <1>1, <1>2, HandlersStand
<1>. QED
    BY <1>2, <1>3, UploadKeeps, Together

\* An import is committed: the file of an upload, or what the worker has just validated.
LEMMA CommitStarts ==
    ASSUME IntakeInv, \/ \E q \in Admins : Intake!CommitUpload(q)
                      \/ Intake!Poll
    PROVE  /\ UNCHANGED <<feed, held, rejects, second, person, stray, access, uploads, touched, broken>>
           /\ \E q \in Intake!Procs : \E file, from, todo :
                /\ Intake!MayStart(q) /\ Filed(file)
                /\ import' = [import EXCEPT ![q] = [kind |-> "row", file |-> file, from |-> from, todo |-> todo]]
<1>1. CASE \E q \in Admins : Intake!CommitUpload(q)
  <2>1. PICK q \in Admins, i \in DOMAIN uploads : Intake!MayStart(q) /\ Intake!Commits(q, uploads[i], i)
      BY <1>1 DEF Intake!CommitUpload
  <2>2. Filed(uploads[i]) /\ q \in Intake!Procs
      BY DEF IntakeInv, Intake!Procs
  <2>3. UNCHANGED <<feed, held, rejects, second, person, stray, access, uploads, touched, broken>>
      BY <1>1 DEF Intake!CommitUpload, Intake!outside
  <2>. QED
      BY <2>1, <2>2, <2>3 DEF Intake!Commits
<1>2. CASE Intake!Poll
  <2>1. Intake!MayStart(Importer) /\ Intake!Commits(Importer, Intake!Validated, 0) /\ Importer \in Intake!Procs
      BY <1>2 DEF Intake!Poll, Intake!Procs
  <2>2. Filed(Intake!Validated)
      BY ValidatedFiled DEF IntakeInv
  <2>3. UNCHANGED <<feed, held, rejects, second, person, stray, access, uploads, touched, broken>>
      BY <1>2 DEF Intake!Poll, Intake!outside
  <2>. QED
      BY <2>1, <2>2, <2>3 DEF Intake!Commits
<1>. QED
    BY <1>1, <1>2

LEMMA CommitUploadKeeps ==
    ASSUME IntakeInv, \/ \E q \in Admins : Intake!CommitUpload(q)
                      \/ Intake!Poll
    PROVE  IntakeInv'
<1>1. UNCHANGED <<feed, held, rejects, second, person, stray, access, uploads, touched, broken>>
    BY CommitStarts
<1>2. PICK q \in Intake!Procs : \E file, from, todo :
           /\ Intake!MayStart(q) /\ Filed(file)
           /\ import' = [import EXCEPT ![q] = [kind |-> "row", file |-> file, from |-> from, todo |-> todo]]
    BY CommitStarts
<1>3. PICK file, from, todo :
           /\ Intake!MayStart(q) /\ Filed(file)
           /\ import' = [import EXCEPT ![q] = [kind |-> "row", file |-> file, from |-> from, todo |-> todo]]
    BY <1>2
<1>4. PICK h : h = [kind |-> "row", file |-> file, from |-> from, todo |-> todo]
    OBVIOUS
<1>5. Founded(h) /\ HeldOn
    BY <1>1, <1>3, <1>4, WorkFounded DEF HeldOn
<1>6. Founded(h)'
    BY <1>5, Refound
<1>7. Handled'
    BY <1>3, <1>4, <1>5, <1>6, HandlerGoesOn
<1>8. Intake!TypeOK'
    BY <1>1 DEF IntakeInv, Intake!TypeOK, Intake!IsReal
<1>. QED
    BY <1>1, <1>7, <1>8, Together DEF IntakeInv

\* The sync with the directory.
LEMMA SyncDirectoryKeeps == ASSUME IntakeInv, Intake!SyncDirectory PROVE IntakeInv'
<1>1. /\ UNCHANGED <<feed, held, rejects, second, uploads, import, touched, broken>>
      /\ person' = [p \in People |-> Intake!Synced(p)]
      /\ access' = [p \in People |-> IF Intake!Synced(p) # person[p] THEN Intake!Reconciled(Intake!Synced(p)) ELSE access[p]]
    BY DEF Intake!SyncDirectory, Intake!outside
<1>2. ASSUME NEW p \in People
      PROVE  /\ Intake!Synced(p) \in Intake!Person \cup {Intake!None}
             /\ Intake!Synced(p) # person[p] => Intake!Synced(p) \in Intake!Person
             /\ Intake!IsReal(p)' => held[p] # Intake!None
  <2>1. person[p] \in Intake!Person \cup {Intake!None} /\ held[p] \in Intake!Account \cup {Intake!None}
      BY DEF IntakeInv, Intake!TypeOK
  <2>2. CASE Intake!IsReal(p)
    <3>1. held[p] \in Intake!Account /\ person[p] \in Intake!Person
        BY <2>1, <2>2 DEF IntakeInv, Intake!TypeOK, Intake!IsReal
    <3>2. Intake!Synced(p) \in Intake!Person
        BY <2>2, <3>1 DEF Intake!Synced, Intake!IsReal, Intake!Person, Intake!Account
    <3>. QED
        BY <2>2, <3>2 DEF IntakeInv, Intake!TypeOK
  <2>3. CASE ~Intake!IsReal(p)
    <3>1. Intake!Synced(p) = person[p]
        BY <2>3 DEF Intake!Synced, Intake!IsReal
    <3>. QED
        BY <1>1, <2>1, <2>3, <3>1 DEF Intake!IsReal
  <2>. QED
      BY <2>2, <2>3
<1>3. person' \in [People -> Intake!Person \cup {Intake!None}]
    BY <1>1, <1>2
<1>4. access' \in [People -> SUBSET Departments]
  <2>1. \A p \in People : Intake!Synced(p) \in Intake!Person => Intake!Reconciled(Intake!Synced(p)) \in SUBSET Departments
      BY DEF Intake!Reconciled, Intake!Person
  <2>. QED
      BY <1>1, <1>2, <2>1 DEF IntakeInv, Intake!TypeOK
<1>5. Intake!TypeOK'
    BY <1>1, <1>2, <1>3, <1>4 DEF IntakeInv, Intake!TypeOK
<1>6. Handled'
    BY <1>1, HandlersStand DEF HeldOn
<1>. QED
    BY <1>1, <1>5, <1>6, Together DEF IntakeInv

\* What a handler does at a row that it passes over.
Passed(o) == [kind |-> "row", file |-> o.file, from |-> o.from, todo |-> Tail(o.todo)]

LEMMA SkipCall ==
    ASSUME IntakeInv, NEW q \in Intake!Procs, NEW o, o = import[q], Intake!Skip(q)
    PROVE  /\ o.kind = "row" /\ o # Intake!Idle /\ Filed(o.file)
           /\ import' = [import EXCEPT ![q] = Passed(o)]
           /\ UNCHANGED <<feed, held, rejects, second, person, stray, access, uploads, touched, broken>>
<1>1. o.kind = "row" /\ Founded(o)
    BY DEF Intake!Skip, Intake!AtRow, IntakeInv
<1>2. AtWork(o) /\ o # Intake!Idle /\ Filed(o.file)
    BY <1>1, ShapeOf
<1>3. PICK h : h = [o EXCEPT !.kind = "row", !.todo = Tail(@)]
    OBVIOUS
<1>4. import' = [import EXCEPT ![q] = h]
    BY <1>3 DEF Intake!Skip, Intake!NextRow, IntakeInv
<1>5. h = Passed(o)
    BY <1>2, <1>3 DEF AtWork, Passed
<1>. QED
    BY <1>1, <1>2, <1>4, <1>5 DEF Intake!Skip, Intake!outside

\* A row that disables: the person first, the account and the access later.
LEMMA DisableCall ==
    ASSUME IntakeInv, NEW q \in Intake!Procs, NEW o, o = import[q], Intake!Disable(q)
    PROVE  /\ o.kind = "row" /\ o # Intake!Idle /\ Filed(o.file) /\ person[Head(o.todo)] # Intake!None
           /\ import' = [import EXCEPT ![q] = [kind |-> "leave", file |-> o.file, from |-> o.from, todo |-> o.todo]]
           /\ person' = [person EXCEPT ![Head(o.todo)].status = "DISABLED"]
           /\ UNCHANGED <<feed, held, rejects, second, stray, access, uploads, touched, broken>>
<1>1. o.kind = "row" /\ Founded(o)
    BY DEF Intake!Disable, Intake!AtRow, IntakeInv
<1>2. AtWork(o) /\ o # Intake!Idle /\ Filed(o.file)
    BY <1>1, ShapeOf
<1>3. PICK h : h = [o EXCEPT !.kind = "leave"]
    OBVIOUS
<1>4. import' = [import EXCEPT ![q] = h]
    BY <1>3 DEF Intake!Disable, Intake!Goes, IntakeInv
<1>5. h = [kind |-> "leave", file |-> o.file, from |-> o.from, todo |-> o.todo]
    BY <1>2, <1>3 DEF AtWork
<1>6. person[Head(o.todo)] # Intake!None /\ person' = [person EXCEPT ![Head(o.todo)].status = "DISABLED"]
    BY DEF Intake!Disable, Intake!Current
<1>. QED
    BY <1>1, <1>2, <1>4, <1>5, <1>6 DEF Intake!Disable, Intake!outside

LEMMA LeaveCall ==
    ASSUME IntakeInv, NEW q \in Intake!Procs, NEW o, o = import[q], Intake!Leave(q)
    PROVE  /\ o.kind = "leave" /\ o # Intake!Idle /\ Filed(o.file)
           /\ import' = [import EXCEPT ![q] = Passed(o)]
           /\ access' = [access EXCEPT ![Head(o.todo)] = {}]
           /\ held' = IF held[Head(o.todo)] # Intake!None /\ person[Head(o.todo)].real
                      THEN [held EXCEPT ![Head(o.todo)].status = "DISABLED"] ELSE held
           /\ UNCHANGED <<feed, rejects, second, person, stray, uploads, touched, broken>>
<1>1. o.kind = "leave" /\ Founded(o)
    BY DEF Intake!Leave, IntakeInv
<1>2. AtWork(o) /\ o # Intake!Idle /\ Filed(o.file)
    BY <1>1, ShapeOf
<1>3. PICK h : h = [o EXCEPT !.kind = "row", !.todo = Tail(@)]
    OBVIOUS
<1>4. import' = [import EXCEPT ![q] = h]
    BY <1>3 DEF Intake!Leave, Intake!NextRow, IntakeInv
<1>5. h = Passed(o)
    BY <1>2, <1>3 DEF AtWork, Passed
<1>. QED
    BY <1>1, <1>2, <1>4, <1>5 DEF Intake!Leave, Intake!LeftWith, Intake!Current

LEMMA SkipKeeps == ASSUME IntakeInv, NEW q \in Intake!Procs, Intake!Skip(q) PROVE IntakeInv'
<1>1. PICK o : o = import[q]
    OBVIOUS
<1>2. /\ Filed(o.file) /\ import' = [import EXCEPT ![q] = Passed(o)]
      /\ UNCHANGED <<feed, held, rejects, second, person, stray, access, uploads, touched, broken>>
    BY <1>1, SkipCall
<1>3. PICK h : h = Passed(o)
    OBVIOUS
<1>4. HeldOn /\ Founded(h)
    BY <1>2, <1>3, WorkFounded DEF HeldOn, Passed
<1>5. Handled'
    BY <1>2, <1>3, <1>4, Refound, HandlerGoesOn
<1>6. Intake!TypeOK'
    BY <1>2 DEF IntakeInv, Intake!TypeOK, Intake!IsReal
<1>. QED
    BY <1>2, <1>5, <1>6, Together DEF IntakeInv

LEMMA DisableKeeps == ASSUME IntakeInv, NEW q \in Intake!Procs, Intake!Disable(q) PROVE IntakeInv'
<1>1. PICK o, p : o = import[q] /\ p = Head(o.todo)
    OBVIOUS
<1>2. /\ Filed(o.file) /\ person[p] # Intake!None
      /\ import' = [import EXCEPT ![q] = [kind |-> "leave", file |-> o.file, from |-> o.from, todo |-> o.todo]]
      /\ person' = [person EXCEPT ![p].status = "DISABLED"]
      /\ UNCHANGED <<feed, held, rejects, second, stray, access, uploads, touched, broken>>
    BY <1>1, DisableCall
<1>3. PICK h : h = [kind |-> "leave", file |-> o.file, from |-> o.from, todo |-> o.todo]
    OBVIOUS
<1>4. HeldOn /\ Founded(h)
    BY <1>2, <1>3, WorkFounded DEF HeldOn
<1>5. Handled'
    BY <1>2, <1>3, <1>4, Refound, HandlerGoesOn
<1>6. person' \in [People -> Intake!Person \cup {Intake!None}] /\ \A x \in People : Intake!IsReal(x)' <=> Intake!IsReal(x)
  <2>1. person \in [People -> Intake!Person \cup {Intake!None}]
      BY DEF IntakeInv, Intake!TypeOK
  <2>2. CASE p \notin People
      BY <1>2, <2>1, <2>2 DEF Intake!IsReal
  <2>3. CASE p \in People
    <3>1. person[p] \in Intake!Person
        BY <1>2, <2>1, <2>3
    <3>2. PICK n : n = [person[p] EXCEPT !.status = "DISABLED"]
        OBVIOUS
    <3>3. n \in Intake!Person /\ n.real = person[p].real /\ person' = [person EXCEPT ![p] = n]
        BY <1>2, <3>1, <3>2 DEF Intake!Person
    <3>. QED
        BY <1>2, <2>1, <2>3, <3>3, Distinct DEF Intake!IsReal
  <2>. QED
      BY <2>2, <2>3
<1>7. Intake!TypeOK'
    BY <1>2, <1>6 DEF IntakeInv, Intake!TypeOK
<1>. QED
    BY <1>2, <1>5, <1>7, Together DEF IntakeInv

LEMMA LeaveKeeps == ASSUME IntakeInv, NEW q \in Intake!Procs, Intake!Leave(q) PROVE IntakeInv'
<1>1. PICK o, p : o = import[q] /\ p = Head(o.todo)
    OBVIOUS
<1>2. /\ Filed(o.file) /\ import' = [import EXCEPT ![q] = Passed(o)]
      /\ access' = [access EXCEPT ![p] = {}]
      /\ held' = IF held[p] # Intake!None /\ person[p].real THEN [held EXCEPT ![p].status = "DISABLED"] ELSE held
      /\ UNCHANGED <<feed, rejects, second, person, stray, uploads, touched, broken>>
    BY <1>1, LeaveCall
<1>3. PICK h : h = Passed(o)
    OBVIOUS
<1>4. held' \in [People -> Intake!Account \cup {Intake!None}] /\ HeldOn
  <2>1. held \in [People -> Intake!Account \cup {Intake!None}]
      BY DEF IntakeInv, Intake!TypeOK
  <2>2. CASE p \notin People
      BY <1>2, <2>1, <2>2 DEF HeldOn
  <2>3. CASE p \in People /\ held[p] # Intake!None
    <3>1. PICK n : n = [held[p] EXCEPT !.status = "DISABLED"]
        OBVIOUS
    <3>2. held[p] \in Intake!Account
        BY <2>1, <2>3
    <3>3. n \in Intake!Account /\ (held' = [held EXCEPT ![p] = n] \/ held' = held)
        BY <1>2, <3>1, <3>2 DEF Intake!Account
    <3>. QED
        BY <2>1, <2>3, <3>3, Distinct DEF HeldOn
  <2>4. CASE held[p] = Intake!None
      BY <1>2, <2>1, <2>4 DEF HeldOn
  <2>. QED
      BY <2>2, <2>3, <2>4
<1>5. Founded(h)
    BY <1>2, <1>3, WorkFounded DEF Passed
<1>6. Handled'
    BY <1>2, <1>3, <1>4, <1>5, Refound, HandlerGoesOn
<1>7. access' \in [People -> SUBSET Departments]
    BY <1>2 DEF IntakeInv, Intake!TypeOK
<1>8. Intake!TypeOK'
    BY <1>2, <1>4, <1>7 DEF IntakeInv, Intake!TypeOK, Intake!IsReal, HeldOn
<1>. QED
    BY <1>2, <1>6, <1>8, Together DEF IntakeInv

\* Asking the provider for an account: found or made, refused, or a lookup that fails.
AskedFor(o, found) == [kind |-> "save", file |-> o.file, from |-> o.from, todo |-> o.todo, found |-> found]

LEMMA ProvisionCall ==
    ASSUME IntakeInv, NEW q \in Intake!Procs, NEW o, o = import[q], Intake!Provision(q)
    PROVE  /\ o.kind = "row" /\ o # Intake!Idle /\ Filed(o.file)
           /\ UNCHANGED <<feed, rejects, second, person, stray, access, uploads, touched>>
           /\ broken' = broken \/ \E f \in Intake!Faults : Intake!Count(f)
           /\ held' \in [People -> Intake!Account \cup {Intake!None}] /\ HeldOn
           /\ \/ import' = [import EXCEPT ![q] = Intake!Idle]
              \/ \E found \in BOOLEAN :
                   /\ import' = [import EXCEPT ![q] = AskedFor(o, found)]
                   /\ \A p \in People : p = Head(o.todo) => o.file.row[p] \in Intake!Row /\ (found => held'[p] # Intake!None)
<1>1. o.kind = "row" /\ Founded(o)
    BY DEF Intake!Provision, Intake!AtRow, IntakeInv
<1>2. AtWork(o) /\ o # Intake!Idle /\ Filed(o.file)
    BY <1>1, ShapeOf
<1>3. PICK p : p = Head(o.todo)
    OBVIOUS
<1>4. p \in People => o.file.row[p] \in Intake!Row
    BY <1>2, <1>3 DEF Filed, Intake!Provision, Intake!Action, Intake!Current
<1>5. held \in [People -> Intake!Account \cup {Intake!None}]
    BY DEF IntakeInv, Intake!TypeOK
<1>6. UNCHANGED <<feed, rejects, second, person, stray, access, uploads, touched>>
    BY DEF Intake!Provision
<1>7. \A found : Intake!Asked(q, found) => import' = [import EXCEPT ![q] = AskedFor(o, found)]
    BY DEF Intake!Asked, AskedFor, IntakeInv
<1>8. "lookup" \in Intake!Faults /\ "refused" \in Intake!Faults /\ "lost" \in Intake!Faults
    BY DEF Intake!Faults
<1>9. PICK n : n = [status |-> "ACTIVE", dept |-> o.file.row[p].dept]
    OBVIOUS
<1>. DEFINE made == [held EXCEPT ![p] = n]
<1>10. made \in [People -> Intake!Account \cup {Intake!None}] /\ \A x \in People : held[x] # Intake!None \/ x = p => made[x] # Intake!None
  <2>1. p \in People => n \in Intake!Account
      BY <1>4, <1>9 DEF Intake!Row, Intake!Account
  <2>. QED
      BY <1>5, <2>1, Distinct
<1>11. \/ Intake!Asked(q, FALSE) /\ held' = held /\ (broken' = broken \/ Intake!Count("refused"))
       \/ held[p] # Intake!None /\ held' = held /\ Intake!Asked(q, TRUE) /\ broken' = broken
       \/ held' = held /\ Intake!Count("lookup") /\ Intake!Ends(q)
       \/ held' = made /\ Intake!Asked(q, TRUE) /\ broken' = broken
       \/ held' = made /\ Intake!Asked(q, FALSE) /\ Intake!Count("lost")
    BY <1>3, <1>9 DEF Intake!Provision, Intake!Current
<1>12. CASE Intake!Asked(q, FALSE) /\ held' = held /\ (broken' = broken \/ Intake!Count("refused"))
    BY <1>1, <1>2, <1>3, <1>4, <1>5, <1>6, <1>7, <1>8, <1>12 DEF HeldOn
<1>13. CASE held[p] # Intake!None /\ held' = held /\ Intake!Asked(q, TRUE) /\ broken' = broken
    BY <1>1, <1>2, <1>3, <1>4, <1>5, <1>6, <1>7, <1>13 DEF HeldOn
<1>14. CASE held' = held /\ Intake!Count("lookup") /\ Intake!Ends(q)
  <2>1. import' = [import EXCEPT ![q] = Intake!Idle]
      BY <1>14 DEF Intake!Ends
  <2>. QED
      BY <1>1, <1>2, <1>5, <1>6, <1>8, <1>14, <2>1 DEF HeldOn
<1>15. CASE held' = made /\ Intake!Asked(q, TRUE) /\ broken' = broken
  <2>1. held' \in [People -> Intake!Account \cup {Intake!None}] /\ HeldOn /\ (p \in People => held'[p] # Intake!None)
      BY <1>15, <1>10 DEF HeldOn
  <2>. QED
      BY <1>1, <1>2, <1>3, <1>4, <1>6, <1>7, <1>15, <2>1
<1>16. CASE held' = made /\ Intake!Asked(q, FALSE) /\ Intake!Count("lost")
  <2>1. held' \in [People -> Intake!Account \cup {Intake!None}] /\ HeldOn
      BY <1>16, <1>10 DEF HeldOn
  <2>. QED
      BY <1>1, <1>2, <1>3, <1>4, <1>6, <1>7, <1>8, <1>16, <2>1
<1>. QED
    BY <1>11, <1>12, <1>13, <1>14, <1>15, <1>16

LEMMA ProvisionKeeps == ASSUME IntakeInv, NEW q \in Intake!Procs, Intake!Provision(q) PROVE IntakeInv'
<1>1. PICK o : o = import[q]
    OBVIOUS
<1>2. /\ Filed(o.file) /\ UNCHANGED <<feed, rejects, second, person, stray, access, uploads, touched>>
      /\ held' \in [People -> Intake!Account \cup {Intake!None}] /\ HeldOn
      /\ \/ import' = [import EXCEPT ![q] = Intake!Idle]
         \/ \E found \in BOOLEAN :
              /\ import' = [import EXCEPT ![q] = AskedFor(o, found)]
              /\ \A p \in People : p = Head(o.todo) => o.file.row[p] \in Intake!Row /\ (found => held'[p] # Intake!None)
    BY <1>1, ProvisionCall
<1>3. Handled'
  <2>1. CASE import' = [import EXCEPT ![q] = Intake!Idle]
      BY <1>2, <2>1, IdleFounded, Refound, HandlerGoesOn
  <2>2. ASSUME NEW found \in BOOLEAN, import' = [import EXCEPT ![q] = AskedFor(o, found)],
               \A p \in People : p = Head(o.todo) => o.file.row[p] \in Intake!Row /\ (found => held'[p] # Intake!None)
        PROVE  Handled'
    <3>1. PICK h : h = AskedFor(o, found)
        OBVIOUS
    <3>2. Founded(h)'
        BY <1>2, <2>2, <3>1, SaveFounded DEF AskedFor
    <3>. QED
        BY <1>2, <2>2, <3>1, <3>2, HandlerGoesOn
  <2>. QED
      BY <1>2, <2>1, <2>2
<1>4. Intake!TypeOK'
    BY <1>2 DEF IntakeInv, Intake!TypeOK, Intake!IsReal, HeldOn
<1>. QED
    BY <1>2, <1>3, <1>4, Together DEF IntakeInv

\* The identity is saved, unless a row referred to elsewhere is in the way.
Moved(p, now)  == person[p] # Intake!None /\ (person[p].status # now.status \/ person[p].dept # now.dept)
SavedFor(o, m) == [kind |-> "access", file |-> o.file, from |-> o.from, todo |-> o.todo, moved |-> m]

LEMMA SaveCall ==
    ASSUME IntakeInv, NEW q \in Intake!Procs, NEW o, o = import[q], Intake!Save(q),
           NEW p, p = Head(o.todo), NEW now, now = Intake!Saved(p, o.found, o.file.row[p].dept)
    PROVE  /\ o.kind = "save" /\ o # Intake!Idle /\ Filed(o.file)
           /\ UNCHANGED <<feed, held, rejects, second, access, uploads, touched, broken>>
           /\ \/ import' = [import EXCEPT ![q] = Intake!Idle] /\ person' = person
              \/ person' = [person EXCEPT ![p] = now] /\ import' = [import EXCEPT ![q] = SavedFor(o, Moved(p, now))]
<1>1. o.kind = "save" /\ Founded(o)
    BY DEF Intake!Save, IntakeInv
<1>2. o # Intake!Idle /\ Filed(o.file)
    BY <1>1, ShapeOf
<1>3. UNCHANGED <<feed, held, rejects, second, access, uploads, touched, broken>>
    BY DEF Intake!Save, Intake!outside
<1>4. \/ import' = [import EXCEPT ![q] = Intake!Idle] /\ person' = person
      \/ /\ person' = [person EXCEPT ![p] = now]
         /\ import' = [import EXCEPT ![q] = [kind |-> "access", file |-> @.file, from |-> @.from, todo |-> @.todo,
                        moved |-> person[p] # Intake!None /\ (person[p].status # now.status \/ person[p].dept # now.dept)]]
    BY DEF Intake!Save, Intake!Current, Intake!Ends
<1>5. PICK m : m = Moved(p, now)
    OBVIOUS
<1>6. \/ import' = [import EXCEPT ![q] = Intake!Idle] /\ person' = person
      \/ /\ person' = [person EXCEPT ![p] = now]
         /\ import' = [import EXCEPT ![q] = [kind |-> "access", file |-> @.file, from |-> @.from, todo |-> @.todo, moved |-> m]]
    BY <1>4, <1>5 DEF Moved
<1>7. [import EXCEPT ![q] = [kind |-> "access", file |-> @.file, from |-> @.from, todo |-> @.todo, moved |-> m]]
      = [import EXCEPT ![q] = SavedFor(o, m)]
    BY DEF IntakeInv, SavedFor
<1>. QED
    BY <1>1, <1>2, <1>3, <1>5, <1>6, <1>7

LEMMA PersonShape ==
    ASSUME NEW s \in {"ACTIVE", "DISABLED"}, NEW d \in Departments, NEW r \in BOOLEAN,
           NEW n, n = [status |-> s, dept |-> d, real |-> r]
    PROVE  n \in Intake!Person /\ n.status = s /\ n.real = r
BY DEF Intake!Person

\* What is saved of a person.
LEMMA SavedShape ==
    ASSUME IntakeInv, NEW q \in Intake!Procs, NEW o, o = import[q], o.kind = "save",
           NEW p \in People, p = Head(o.todo), NEW now, now = Intake!Saved(p, o.found, o.file.row[p].dept)
    PROVE  /\ now \in Intake!Person /\ (now.real => held[p] # Intake!None)
           /\ person[p] = Intake!None \/ now.status = "ACTIVE"
<1>1. Founded(o) /\ Saving(o) /\ o # Intake!Idle
    BY ShapeOf DEF IntakeInv
<1>2. o.file.row[p] \in Intake!Row /\ (o.found => held[p] # Intake!None) /\ o.found \in BOOLEAN
    BY <1>1 DEF Founded, Saving
<1>3. held[p] \in Intake!Account \cup {Intake!None} /\ person[p] \in Intake!Person \cup {Intake!None}
    BY DEF IntakeInv, Intake!TypeOK
<1>4. Intake!IsReal(p) => held[p] # Intake!None
    BY DEF IntakeInv, Intake!TypeOK
<1>5. CASE person[p] = Intake!None /\ o.found
  <2>1. now = [status |-> held[p].status, dept |-> held[p].dept, real |-> TRUE] /\ held[p] \in Intake!Account
      BY <1>2, <1>3, <1>5 DEF Intake!Saved
  <2>2. held[p].status \in {"ACTIVE", "DISABLED"} /\ held[p].dept \in Departments
      BY <2>1 DEF Intake!Account
  <2>3. now \in Intake!Person
      BY <2>1, <2>2, PersonShape
  <2>. QED
      BY <1>2, <1>5, <2>3
<1>6. CASE ~(person[p] = Intake!None /\ o.found)
  <2>1. now = [status |-> "ACTIVE", dept |-> o.file.row[p].dept, real |-> o.found \/ Intake!IsReal(p)]
      BY <1>6 DEF Intake!Saved
  <2>2. PICK r : r \in BOOLEAN /\ r = (o.found \/ Intake!IsReal(p))
      BY Zenon
  <2>3. now = [status |-> "ACTIVE", dept |-> o.file.row[p].dept, real |-> r]
      BY <2>1, <2>2
  <2>4. PICK d : d \in Departments /\ d = o.file.row[p].dept
      BY <1>2 DEF Intake!Row
  <2>5. now \in Intake!Person /\ now.status = "ACTIVE" /\ now.real = r
    <3>1. now = [status |-> "ACTIVE", dept |-> d, real |-> r]
        BY <2>3, <2>4
    <3>2. "ACTIVE" \in {"ACTIVE", "DISABLED"} /\ r \in BOOLEAN /\ d \in Departments
        BY <2>2, <2>4
    <3>. QED
        BY <3>1, <3>2, PersonShape, Zenon
  <2>6. r => held[p] # Intake!None
      BY <1>2, <1>4, <2>2
  <2>. QED
      BY <2>5, <2>6
<1>. QED
    BY <1>5, <1>6

LEMMA SavedKeeps == ASSUME IntakeInv, NEW q \in Intake!Procs, Intake!Save(q) PROVE IntakeInv'
<1>1. PICK o : o = import[q]
    OBVIOUS
<1>2. PICK p, now : p = Head(o.todo) /\ now = Intake!Saved(p, o.found, o.file.row[p].dept)
    OBVIOUS
<1>3. /\ o.kind = "save" /\ Filed(o.file)
      /\ UNCHANGED <<feed, held, rejects, second, access, uploads, touched, broken>>
      /\ \/ import' = [import EXCEPT ![q] = Intake!Idle] /\ person' = person
         \/ person' = [person EXCEPT ![p] = now] /\ import' = [import EXCEPT ![q] = SavedFor(o, Moved(p, now))]
    BY <1>1, <1>2, SaveCall
<1>4. HeldOn
    BY <1>3 DEF HeldOn
<1>5. CASE import' = [import EXCEPT ![q] = Intake!Idle] /\ person' = person
  <2>1. Handled'
      BY <1>4, <1>5, IdleFounded, Refound, HandlerGoesOn
  <2>2. Intake!TypeOK'
      BY <1>3, <1>5 DEF IntakeInv, Intake!TypeOK, Intake!IsReal
  <2>. QED
      BY <1>3, <2>1, <2>2, Together DEF IntakeInv
<1>6. CASE person' = [person EXCEPT ![p] = now] /\ import' = [import EXCEPT ![q] = SavedFor(o, Moved(p, now))]
  <2>1. PICK h : h = SavedFor(o, Moved(p, now))
      OBVIOUS
  <2>2. Moved(p, now) \in BOOLEAN
      BY DEF Moved
  <2>3. Founded(h)
      BY <1>3, <2>1, <2>2, GrantFounded DEF SavedFor
  <2>4. Handled'
      BY <1>4, <1>6, <2>1, <2>3, Refound, HandlerGoesOn
  <2>5. p \in People => now \in Intake!Person /\ (now.real => held[p] # Intake!None)
      BY <1>1, <1>2, <1>3, SavedShape
  <2>6. person \in [People -> Intake!Person \cup {Intake!None}] /\ \A x \in People : Intake!IsReal(x) => held[x] # Intake!None
      BY DEF IntakeInv, Intake!TypeOK
  <2>7. person' \in [People -> Intake!Person \cup {Intake!None}]
      BY <1>6, <2>5, <2>6
  <2>8. \A x \in People : Intake!IsReal(x)' => held[x] # Intake!None
      BY <1>6, <2>5, <2>6 DEF Intake!IsReal
  <2>9. Intake!TypeOK'
      BY <1>3, <2>7, <2>8 DEF IntakeInv, Intake!TypeOK
  <2>. QED
      BY <1>3, <2>4, <2>9, Together DEF IntakeInv
<1>. QED
    BY <1>3, <1>5, <1>6

\* Access is given.
LEMMA GiveCall ==
    ASSUME IntakeInv, NEW q \in Intake!Procs, NEW o, o = import[q], Intake!GiveAccess(q)
    PROVE  /\ o.kind = "access" /\ o # Intake!Idle /\ Filed(o.file) /\ o.moved \in BOOLEAN
           /\ import' = [import EXCEPT ![q] = Passed(o)]
           /\ access' = [access EXCEPT ![Head(o.todo)] = Intake!Due(Head(o.todo), o.moved)]
           /\ UNCHANGED <<feed, held, rejects, person, stray, uploads, touched>>
           /\ broken' = broken \/ Intake!Count("refused") \/ Intake!Count("lost")
<1>1. o.kind = "access" /\ Founded(o)
    BY DEF Intake!GiveAccess, IntakeInv
<1>2. Granting(o) /\ o # Intake!Idle /\ Filed(o.file)
    BY <1>1, ShapeOf
<1>3. import' = [import EXCEPT ![q] = Passed(o)]
    BY DEF Intake!GiveAccess, Passed, IntakeInv
<1>4. broken' = broken \/ Intake!Count("refused") \/ Intake!Count("lost")
    BY DEF Intake!GiveAccess, Intake!Second
<1>. QED
    BY <1>1, <1>2, <1>3, <1>4 DEF Intake!GiveAccess, Intake!outside, Intake!Current, Granting

LEMMA GiveKeeps == ASSUME IntakeInv, NEW q \in Intake!Procs, Intake!GiveAccess(q) PROVE IntakeInv'
<1>1. PICK o, p : o = import[q] /\ p = Head(o.todo)
    OBVIOUS
<1>2. /\ Filed(o.file) /\ import' = [import EXCEPT ![q] = Passed(o)]
      /\ access' = [access EXCEPT ![p] = Intake!Due(p, o.moved)]
      /\ UNCHANGED <<feed, held, rejects, person, stray, uploads, touched>>
    BY <1>1, GiveCall
<1>3. PICK h : h = Passed(o)
    OBVIOUS
<1>4. HeldOn /\ Founded(h)
    BY <1>2, <1>3, WorkFounded DEF HeldOn, Passed
<1>5. Handled'
    BY <1>2, <1>3, <1>4, Refound, HandlerGoesOn
<1>6. p \in People => Intake!Due(p, o.moved) \in SUBSET Departments
  <2>1. SUFFICES ASSUME p \in People PROVE Intake!Due(p, o.moved) \in SUBSET Departments
      OBVIOUS
  <2>2. access[p] \in SUBSET Departments /\ person[p] \in Intake!Person \cup {Intake!None}
      BY <2>1 DEF IntakeInv, Intake!TypeOK
  <2>3. Intake!Reconciled(person[p]) \in SUBSET Departments
      BY <2>2 DEF Intake!Reconciled, Intake!Person, Intake!None
  <2>. QED
      BY <2>2, <2>3 DEF Intake!Due
<1>7. access' \in [People -> SUBSET Departments]
    BY <1>2, <1>6 DEF IntakeInv, Intake!TypeOK
<1>8. Intake!TypeOK'
    BY <1>2, <1>7 DEF IntakeInv, Intake!TypeOK, Intake!IsReal
<1>. QED
    BY <1>2, <1>5, <1>8, Together DEF IntakeInv

LEMMA FinishKeeps == ASSUME IntakeInv, NEW q \in Intake!Procs, Intake!Finish(q) PROVE IntakeInv'
<1>1. /\ import' = [import EXCEPT ![q] = Intake!Idle] /\ UNCHANGED <<feed, held, rejects, second, person, stray, access, touched, broken>>
      /\ uploads' = uploads \/ \E n : uploads' = [uploads EXCEPT ![n].status = "COMMITTED"]
    BY DEF Intake!Finish, Intake!Ends, Intake!outside
<1>2. uploads \in Seq(Import) /\ \A i \in DOMAIN uploads : Filed(uploads[i])
    BY DEF IntakeInv
<1>3. ASSUME NEW n, uploads' = [uploads EXCEPT ![n].status = "COMMITTED"]
      PROVE  uploads' \in Seq(Import) /\ \A i \in DOMAIN uploads' : Filed(uploads'[i])
  <2>1. CASE n \notin DOMAIN uploads
    <3>1. uploads \in [1..Len(uploads) -> Import] /\ DOMAIN uploads = 1..Len(uploads)
        BY <1>2
    <3>2. uploads' = uploads
        BY <1>3, <2>1, <3>1
    <3>. QED
        BY <1>2, <3>2
  <2>2. CASE n \in DOMAIN uploads
    <3>1. PICK f : f = [uploads[n] EXCEPT !.status = "COMMITTED"]
        OBVIOUS
    <3>2. uploads[n] \in Import
        BY <1>2, <2>2
    <3>3. f \in Import /\ f.action = uploads[n].action /\ f.row = uploads[n].row
        BY <3>1, <3>2 DEF Import
    <3>4. uploads' = [uploads EXCEPT ![n] = f]
        BY <1>3, <3>1
    <3>5. Filed(f)
        BY <1>2, <2>2, <3>3 DEF Filed
    <3>. QED
        BY <1>2, <2>2, <3>3, <3>4, <3>5
  <2>. QED
      BY <2>1, <2>2
<1>4. HeldOn
    BY <1>1 DEF HeldOn
<1>5. Handled'
    BY <1>1, <1>4, IdleFounded, Refound, HandlerGoesOn
<1>6. Intake!TypeOK'
    BY <1>1 DEF IntakeInv, Intake!TypeOK, Intake!IsReal
<1>. QED
    BY <1>1, <1>2, <1>3, <1>5, <1>6, Together

LEMMA SweepKeeps == ASSUME IntakeInv, Intake!SweepSecond PROVE IntakeInv'
<1>1. UNCHANGED <<feed, held, rejects, person, stray, access, uploads, import, touched>>
    BY DEF Intake!SweepSecond, Intake!outside
<1>2. Handled'
    BY <1>1, HandlersStand DEF HeldOn
<1>3. Intake!TypeOK'
    BY <1>1 DEF IntakeInv, Intake!TypeOK, Intake!IsReal
<1>. QED
    BY <1>1, <1>2, <1>3, Together DEF IntakeInv

LEMMA IntakeCrashKeeps == ASSUME IntakeInv, Intake!Crash PROVE IntakeInv'
<1>1. import' = [q \in Intake!Procs |-> Intake!Idle] /\ UNCHANGED <<feed, held, rejects, second, person, stray, access, uploads, touched>>
    BY DEF Intake!Crash, Intake!outside
<1>2. Handled'
  <2>1. \A q \in Intake!Procs : import'[q] = Intake!Idle
      BY <1>1
  <2>2. Founded(Intake!Idle)'
      BY DEF Founded
  <2>. QED
      BY <1>1, <2>1, <2>2 DEF Handled, Founded
<1>3. Intake!TypeOK'
    BY <1>1 DEF IntakeInv, Intake!TypeOK, Intake!IsReal
<1>. QED
    BY <1>1, <1>2, <1>3, Together DEF IntakeInv

LEMMA IntakeStep == ASSUME IntakeInv, Intake!Next PROVE IntakeInv'
<1>1. ASSUME NEW q \in Intake!Procs, Intake!Continue(q) PROVE IntakeInv'
    BY <1>1, SkipKeeps, DisableKeeps, LeaveKeeps, ProvisionKeeps, SavedKeeps, GiveKeeps, FinishKeeps DEF Intake!Continue
<1>. QED
    BY <1>1, OutsideKeeps, UploadStepKeeps, CommitUploadKeeps, SyncDirectoryKeeps, SweepKeeps, IntakeCrashKeeps DEF Intake!Next

LEMMA IntakeSame == ASSUME IntakeInv, UNCHANGED Intake!vars PROVE IntakeInv'
<1>1. UNCHANGED <<feed, held, rejects, second, person, stray, access, uploads, import>>
    BY DEF Intake!vars, Intake!outside
<1>2. Handled'
    BY <1>1, HandlersStand DEF HeldOn
<1>3. Intake!TypeOK'
    BY <1>1 DEF IntakeInv, Intake!TypeOK, Intake!IsReal
<1>. QED
    BY <1>1, <1>2, <1>3, Together DEF IntakeInv

LEMMA IntakeStarts == ASSUME Intake!Init PROVE IntakeInv
<1>1. Intake!TypeOK
    BY Distinct DEF Intake!Init, Intake!TypeOK, Intake!IsReal
<1>2. uploads = << >>
    BY DEF Intake!Init
<1>3. import = [q \in Intake!Procs |-> import[q]] /\ \A q \in Intake!Procs : import[q] = Intake!Idle
    BY DEF Intake!Init
<1>. QED
    BY <1>1, <1>2, <1>3, IdleFounded DEF IntakeInv

-----------------------------------------------------------------------------
(***************************************************************************)
(* One import at a time.                                                   *)
(***************************************************************************)
Right(p) == person[p] # Intake!None /\ person[p].status = "ACTIVE" => access[p] = Intake!Reconciled(person[p])

\* The handler about to give p what p is due, and nothing else, will put it right.
GivesTo(o, p) == /\ o.kind = "access" /\ p = Head(o.todo)
                 /\ ~o.moved => access[p] \subseteq Intake!Reconciled(person[p])

\* People without a row have no access, a person that an import disables is no longer
\* active, and all the others have the access of their department.
OneImport == \A p, q \in Intake!Procs : import[p] # Intake!Idle /\ import[q] # Intake!Idle => p = q
AllRight  == \A p \in People : /\ person[p] = Intake!None => access[p] = {}
                               /\ Right(p) \/ \E q \in Intake!Procs : GivesTo(import[q], p)
LeftAlone == \A q \in Intake!Procs, p \in People : import[q].kind = "leave" /\ p = Head(import[q].todo) => person[p].status # "ACTIVE"

ImportAlone == /\ OneImport /\ broken \in [Intake!Faults -> Nat]
               /\ broken["crash"] = 0 => AllRight /\ LeftAlone

\* Nothing else happens while an import is committed.
Undisturbed == Cardinality(Intake!Busy') <= 1 /\ (Intake!Busy # {} => import' # import)

LEMMA ImportsAlternate ==
    ASSUME IntakeInv, OneImport, Undisturbed, NEW q \in Intake!Procs, NEW h, import' = [import EXCEPT ![q] = h]
    PROVE  OneImport'
<1>1. import'[q] = h /\ \A x \in Intake!Procs \ {q} : import'[x] = import[x]
    BY DEF IntakeInv
<1>2. SUFFICES ASSUME NEW a \in Intake!Procs, NEW b \in Intake!Procs, import'[a] # Intake!Idle, import'[b] # Intake!Idle, a # b PROVE FALSE
    BY DEF OneImport
<1>3. Intake!Busy' = {a, b}
  <2>1. Intake!Busy' \subseteq {a, b}
      BY <1>1, <1>2 DEF OneImport, Intake!Busy
  <2>. QED
      BY <1>2, <2>1 DEF Intake!Busy
<1>4. Cardinality({a, b}) = 2
  <2>1. {a, b} = {a} \cup {b} /\ b \notin {a}
      BY <1>2
  <2>2. IsFiniteSet({a}) /\ Cardinality({a}) = 1
      BY FS_Singleton
  <2>3. Cardinality({a} \cup {b}) = Cardinality({a}) + 1
      BY <2>1, <2>2, FS_AddElement
  <2>. QED
      BY <2>1, <2>2, <2>3
<1>. QED
    BY <1>3, <1>4 DEF Undisturbed

\* What happens beside the imports happens between them.
LEMMA BetweenImports == ASSUME Undisturbed, import' = import PROVE \A q \in Intake!Procs : import[q] = Intake!Idle
BY DEF Undisturbed, Intake!Busy

LEMMA CrashCounted ==
    ASSUME broken \in [Intake!Faults -> Nat], broken' = broken \/ \E f \in Intake!Faults : Intake!Count(f)
    PROVE  broken' \in [Intake!Faults -> Nat] /\ (broken'["crash"] = 0 => broken["crash"] = 0)
BY DEF Intake!Count, Intake!Faults

\* With none under way, all have the access of their department.
LEMMA RightBetween ==
    ASSUME AllRight, \A q \in Intake!Procs : import[q] = Intake!Idle
    PROVE  \A p \in People : Right(p) /\ (person[p] = Intake!None => access[p] = {})
<1>1. \A q \in Intake!Procs : import[q].kind # "access"
    BY DEF Intake!Idle
<1>. QED
    BY <1>1 DEF AllRight, GivesTo

\* The parts of the invariant after a step of the handler q: of the others none runs.
LEMMA ImportRights ==
    ASSUME IntakeInv, NEW q \in Intake!Procs, NEW h, import' = [import EXCEPT ![q] = h],
           \A x \in Intake!Procs : import[x] # Intake!Idle => x = q,
           \A p \in People : (person'[p] = Intake!None => access'[p] = {}) /\ (Right(p)' \/ GivesTo(h, p)'),
           h.kind = "leave" => \A p \in People : p = Head(h.todo) => person'[p].status # "ACTIVE"
    PROVE  AllRight' /\ LeftAlone'
<1>1. import'[q] = h /\ \A x \in Intake!Procs \ {q} : import'[x] = Intake!Idle
    BY DEF IntakeInv
<1>2. AllRight'
    BY <1>1 DEF AllRight, GivesTo
<1>3. LeftAlone'
    BY <1>1 DEF LeftAlone, Intake!Idle
<1>. QED
    BY <1>2, <1>3

\* What is to be shown of a step of q to handler h.
StaysRight(h) == /\ \A p \in People : (person'[p] = Intake!None => access'[p] = {}) /\ (Right(p)' \/ GivesTo(h, p)')
                 /\ h.kind = "leave" => \A p \in People : p = Head(h.todo) => person'[p].status # "ACTIVE"
CountsFaults == broken' = broken \/ \E f \in Intake!Faults : Intake!Count(f)

LEMMA ImportGoesOn ==
    ASSUME IntakeInv, ImportAlone, Undisturbed, NEW q \in Intake!Procs, import[q] # Intake!Idle \/ Intake!Busy = {},
           NEW h, import' = [import EXCEPT ![q] = h], CountsFaults, AllRight /\ LeftAlone => StaysRight(h)
    PROVE  ImportAlone'
<1>1. OneImport'
    BY ImportsAlternate DEF ImportAlone
<1>2. broken' \in [Intake!Faults -> Nat] /\ (broken'["crash"] = 0 => broken["crash"] = 0)
    BY CrashCounted DEF ImportAlone, CountsFaults
<1>3. \A x \in Intake!Procs : import[x] # Intake!Idle => x = q
    BY DEF ImportAlone, OneImport, Intake!Busy
<1>4. ASSUME AllRight /\ LeftAlone PROVE AllRight' /\ LeftAlone'
    BY <1>3, <1>4, ImportRights DEF StaysRight
<1>. QED
    BY <1>1, <1>2, <1>4 DEF ImportAlone

\* What stands between the imports.
LEMMA ImportStands ==
    ASSUME IntakeInv, ImportAlone, Undisturbed, import' = import, CountsFaults,
           AllRight => \A p \in People : Right(p)' /\ (person'[p] = Intake!None => access'[p] = {})
    PROVE  ImportAlone'
<1>1. \A q \in Intake!Procs : import'[q] = Intake!Idle
    BY BetweenImports
<1>2. broken' \in [Intake!Faults -> Nat] /\ (broken'["crash"] = 0 => broken["crash"] = 0)
    BY CrashCounted DEF ImportAlone, CountsFaults
<1>3. OneImport' /\ LeftAlone'
    BY <1>1 DEF OneImport, LeftAlone, Intake!Idle
<1>4. AllRight => AllRight'
    BY DEF AllRight
<1>. QED
    BY <1>2, <1>3, <1>4 DEF ImportAlone

LEMMA BesideAlone ==
    ASSUME IntakeInv, ImportAlone, Undisturbed,
           \/ Intake!HrEdits \/ Intake!AccountByHand \/ Intake!DomainVerified \/ Intake!Upload \/ Intake!SweepSecond
    PROVE  ImportAlone'
<1>1. UNCHANGED <<person, access, import>>
    BY DEF Intake!HrEdits, Intake!AccountByHand, Intake!DomainVerified, Intake!Upload, Intake!SweepSecond
<1>2. CountsFaults
    BY DEF Intake!HrEdits, Intake!AccountByHand, Intake!DomainVerified, Intake!Upload, Intake!SweepSecond, Intake!Faults, CountsFaults
<1>3. AllRight => \A p \in People : Right(p)' /\ (person'[p] = Intake!None => access'[p] = {})
    BY <1>1, BetweenImports, RightBetween DEF Right
<1>. QED
    BY <1>1, <1>2, <1>3, ImportStands

LEMMA SyncDirectoryAlone == ASSUME IntakeInv, ImportAlone, Undisturbed, Intake!SyncDirectory PROVE ImportAlone'
<1>1. /\ UNCHANGED <<import, broken>>
      /\ person' = [p \in People |-> Intake!Synced(p)]
      /\ access' = [p \in People |-> IF Intake!Synced(p) # person[p] THEN Intake!Reconciled(Intake!Synced(p)) ELSE access[p]]
    BY DEF Intake!SyncDirectory
<1>2. ASSUME AllRight, NEW p \in People PROVE Right(p)' /\ (person'[p] = Intake!None => access'[p] = {})
  <2>1. Right(p) /\ (person[p] = Intake!None => access[p] = {})
      BY <1>1, <1>2, BetweenImports, RightBetween
  <2>2. CASE Intake!Synced(p) = person[p]
      BY <1>1, <2>1, <2>2 DEF Right
  <2>3. CASE Intake!Synced(p) # person[p]
    <3>1. access'[p] = Intake!Reconciled(person'[p])
        BY <1>1, <2>3
    <3>2. person'[p] = Intake!None => access'[p] = {}
        BY <3>1 DEF Intake!Reconciled, Intake!None
    <3>. QED
        BY <3>1, <3>2 DEF Right
  <2>. QED
      BY <2>2, <2>3
<1>. QED
    BY <1>1, <1>2, ImportStands DEF CountsFaults

LEMMA CommitUploadAlone ==
    ASSUME IntakeInv, ImportAlone, Undisturbed, \/ \E q \in Admins : Intake!CommitUpload(q)
                                                \/ Intake!Poll
    PROVE  ImportAlone'
<1>1. UNCHANGED <<person, access, broken>>
    BY CommitStarts
<1>2. PICK q \in Intake!Procs : \E file, from, todo :
           /\ Intake!MayStart(q) /\ Filed(file)
           /\ import' = [import EXCEPT ![q] = [kind |-> "row", file |-> file, from |-> from, todo |-> todo]]
    BY CommitStarts
<1>3. PICK file, from, todo :
           /\ Intake!MayStart(q) /\ Filed(file)
           /\ import' = [import EXCEPT ![q] = [kind |-> "row", file |-> file, from |-> from, todo |-> todo]]
    BY <1>2
<1>4. PICK h : h = [kind |-> "row", file |-> file, from |-> from, todo |-> todo]
    OBVIOUS
<1>5. h.kind = "row" /\ h # Intake!Idle /\ import' = [import EXCEPT ![q] = h]
    BY <1>3, <1>4 DEF Intake!Idle
<1>6. OneImport'
    BY <1>5, ImportsAlternate DEF ImportAlone
<1>7. \A x \in Intake!Procs : import[x] = Intake!Idle
    BY <1>3, <1>5, <1>6 DEF OneImport, IntakeInv, Intake!MayStart
<1>8. AllRight => StaysRight(h)
    BY <1>1, <1>5, <1>7, RightBetween DEF StaysRight, Right
<1>. QED
    BY <1>1, <1>5, <1>7, <1>8, ImportGoesOn DEF CountsFaults, Intake!Busy

\* The handler that goes on finds all others right.
LEMMA RightBefore ==
    ASSUME IntakeInv, ImportAlone, AllRight, NEW q \in Intake!Procs, import[q] # Intake!Idle, NEW p \in People
    PROVE  /\ person[p] = Intake!None => access[p] = {}
           /\ Right(p) \/ GivesTo(import[q], p)
<1>1. \A x \in Intake!Procs \ {q} : import[x].kind # "access"
    BY DEF ImportAlone, OneImport, Intake!Idle
<1>. QED
    BY <1>1 DEF AllRight, GivesTo

LEMMA IntakeCrashAlone == ASSUME IntakeInv, ImportAlone, Intake!Crash PROVE ImportAlone'
<1>1. \A q \in Intake!Procs : import'[q] = Intake!Idle
    BY DEF Intake!Crash
<1>2. broken' \in [Intake!Faults -> Nat] /\ broken'["crash"] # 0
    BY DEF Intake!Crash, Intake!Count, ImportAlone, Intake!Faults
<1>. QED
    BY <1>1, <1>2 DEF ImportAlone, OneImport

\* A step that leaves people and access alone, from a phase that gives nothing to one that
\* neither gives nor takes anything.
LEMMA QuietImport ==
    ASSUME IntakeInv, ImportAlone, Undisturbed, NEW q \in Intake!Procs, NEW o, o = import[q], o # Intake!Idle, o.kind # "access",
           NEW h, import' = [import EXCEPT ![q] = h], h.kind # "leave", UNCHANGED <<person, access>>, CountsFaults
    PROVE  ImportAlone'
<1>1. ASSUME AllRight PROVE StaysRight(h)
  <2>1. ASSUME NEW p \in People PROVE (person[p] = Intake!None => access[p] = {}) /\ Right(p)
      BY <1>1, <2>1, RightBefore DEF GivesTo
  <2>. QED
      BY <2>1 DEF StaysRight, Right
<1>. QED
    BY <1>1, ImportGoesOn

LEMMA SkipAlone == ASSUME IntakeInv, ImportAlone, Undisturbed, NEW q \in Intake!Procs, Intake!Skip(q) PROVE ImportAlone'
<1>1. PICK o, h : o = import[q] /\ h = Passed(o)
    OBVIOUS
<1>2. /\ o.kind = "row" /\ o # Intake!Idle /\ import' = [import EXCEPT ![q] = h]
      /\ UNCHANGED <<person, access, broken>>
    BY <1>1, SkipCall
<1>3. h.kind = "row"
    BY <1>1 DEF Passed
<1>. QED
    BY <1>1, <1>2, <1>3, QuietImport DEF CountsFaults

LEMMA FinishAlone == ASSUME IntakeInv, ImportAlone, Undisturbed, NEW q \in Intake!Procs, Intake!Finish(q) PROVE ImportAlone'
<1>1. PICK o, h : o = import[q] /\ h = Intake!Idle
    OBVIOUS
<1>2. /\ o.kind = "row" /\ import' = [import EXCEPT ![q] = h] /\ UNCHANGED <<person, access, broken>>
    BY <1>1 DEF Intake!Finish, Intake!Ends
<1>3. o # Intake!Idle /\ h.kind = "idle"
    BY <1>1, <1>2 DEF Intake!Idle
<1>. QED
    BY <1>1, <1>2, <1>3, QuietImport DEF CountsFaults

LEMMA ProvisionAlone == ASSUME IntakeInv, ImportAlone, Undisturbed, NEW q \in Intake!Procs, Intake!Provision(q) PROVE ImportAlone'
<1>1. PICK o : o = import[q]
    OBVIOUS
<1>2. /\ o.kind = "row" /\ o # Intake!Idle /\ UNCHANGED <<person, access>>
      /\ broken' = broken \/ \E f \in Intake!Faults : Intake!Count(f)
      /\ \/ import' = [import EXCEPT ![q] = Intake!Idle]
         \/ \E found \in BOOLEAN : import' = [import EXCEPT ![q] = AskedFor(o, found)]
    BY <1>1, ProvisionCall
<1>3. CountsFaults
    BY <1>2 DEF CountsFaults, Intake!Faults
<1>4. PICK h : import' = [import EXCEPT ![q] = h] /\ h.kind # "leave"
    BY <1>2 DEF AskedFor, Intake!Idle
<1>. QED
    BY <1>1, <1>2, <1>3, <1>4, QuietImport

LEMMA DisableAlone == ASSUME IntakeInv, ImportAlone, Undisturbed, NEW q \in Intake!Procs, Intake!Disable(q) PROVE ImportAlone'
<1>1. PICK o, p, h : o = import[q] /\ p = Head(o.todo) /\ h = [kind |-> "leave", file |-> o.file, from |-> o.from, todo |-> o.todo]
    OBVIOUS
<1>2. /\ o.kind = "row" /\ o # Intake!Idle /\ import' = [import EXCEPT ![q] = h] /\ person[p] # Intake!None
      /\ person' = [person EXCEPT ![p].status = "DISABLED"] /\ UNCHANGED <<access, broken>>
    BY <1>1, DisableCall
<1>3. h.kind = "leave" /\ h.todo = o.todo
    BY <1>1
<1>4. ASSUME AllRight PROVE StaysRight(h)
  <2>1. person \in [People -> Intake!Person \cup {Intake!None}]
      BY DEF IntakeInv, Intake!TypeOK
  <2>2. ASSUME NEW x \in People
        PROVE  /\ (person'[x] = Intake!None => access'[x] = {}) /\ Right(x)'
               /\ x = p => person'[x].status # "ACTIVE"
    <3>1. (person[x] = Intake!None => access[x] = {}) /\ Right(x)
        BY <1>1, <1>2, <1>4, RightBefore DEF GivesTo
    <3>2. CASE x # p
        BY <1>2, <2>1, <3>1, <3>2 DEF Right
    <3>3. CASE x = p
      <4>1. person[p] \in Intake!Person
          BY <1>2, <2>1, <3>3
      <4>2. PICK n : n = [person[p] EXCEPT !.status = "DISABLED"]
          OBVIOUS
      <4>3. n.status = "DISABLED" /\ person'[x] = n
          BY <1>2, <2>1, <3>3, <4>1, <4>2 DEF Intake!Person
      <4>4. n # Intake!None
          BY <4>3 DEF Intake!None
      <4>. QED
          BY <4>3, <4>4 DEF Right
    <3>. QED
        BY <3>2, <3>3
  <2>. QED
      BY <1>1, <1>3, <2>2 DEF StaysRight
<1>. QED
    BY <1>1, <1>2, <1>4, ImportGoesOn DEF CountsFaults

LEMMA LeaveAlone == ASSUME IntakeInv, ImportAlone, Undisturbed, NEW q \in Intake!Procs, Intake!Leave(q) PROVE ImportAlone'
<1>1. PICK o, p, h : o = import[q] /\ p = Head(o.todo) /\ h = Passed(o)
    OBVIOUS
<1>2. /\ o.kind = "leave" /\ o # Intake!Idle /\ import' = [import EXCEPT ![q] = h]
      /\ access' = [access EXCEPT ![p] = {}] /\ UNCHANGED <<person, broken>>
    BY <1>1, LeaveCall
<1>3. h.kind = "row"
    BY <1>1 DEF Passed
<1>4. ASSUME AllRight, LeftAlone PROVE StaysRight(h)
  <2>1. access \in [People -> SUBSET Departments]
      BY DEF IntakeInv, Intake!TypeOK
  <2>2. ASSUME NEW x \in People PROVE (person'[x] = Intake!None => access'[x] = {}) /\ Right(x)'
    <3>1. (person[x] = Intake!None => access[x] = {}) /\ Right(x)
        BY <1>1, <1>2, <1>4, RightBefore DEF GivesTo
    <3>2. x = p => person[x].status # "ACTIVE"
        BY <1>1, <1>2, <1>4 DEF LeftAlone
    <3>. QED
        BY <1>2, <2>1, <3>1, <3>2 DEF Right
  <2>. QED
      BY <1>3, <2>2 DEF StaysRight
<1>. QED
    BY <1>1, <1>2, <1>4, ImportGoesOn DEF CountsFaults

LEMMA GiveAlone == ASSUME IntakeInv, ImportAlone, Undisturbed, NEW q \in Intake!Procs, Intake!GiveAccess(q) PROVE ImportAlone'
<1>1. PICK o, p, h : o = import[q] /\ p = Head(o.todo) /\ h = Passed(o)
    OBVIOUS
<1>2. /\ o.kind = "access" /\ o # Intake!Idle /\ import' = [import EXCEPT ![q] = h] /\ o.moved \in BOOLEAN
      /\ access' = [access EXCEPT ![p] = Intake!Due(p, o.moved)] /\ UNCHANGED person
      /\ broken' = broken \/ Intake!Count("refused") \/ Intake!Count("lost")
    BY <1>1, GiveCall
<1>3. h.kind = "row" /\ CountsFaults
    BY <1>1, <1>2 DEF Passed, CountsFaults, Intake!Faults
<1>4. ASSUME AllRight PROVE StaysRight(h)
  <2>1. access \in [People -> SUBSET Departments]
      BY DEF IntakeInv, Intake!TypeOK
  <2>2. ASSUME NEW x \in People PROVE (person'[x] = Intake!None => access'[x] = {}) /\ Right(x)'
    <3>1. (person[x] = Intake!None => access[x] = {}) /\ (Right(x) \/ GivesTo(o, x))
        BY <1>1, <1>2, <1>4, RightBefore
    <3>2. CASE x # p
        BY <1>1, <1>2, <2>1, <3>1, <3>2 DEF Right, GivesTo
    <3>3. CASE x = p
      <4>1. access'[x] = Intake!Due(x, o.moved)
          BY <1>2, <2>1, <3>3
      <4>2. person[x] = Intake!None => Intake!Reconciled(person[x]) = {}
          BY DEF Intake!Reconciled, Intake!None
      <4>3. person[x] = Intake!None => Intake!Due(x, o.moved) = {}
          BY <3>1, <4>2 DEF Intake!Due
      <4>4. person[x] # Intake!None /\ person[x].status = "ACTIVE" => Intake!Due(x, o.moved) = Intake!Reconciled(person[x])
          BY <1>2, <3>1 DEF Intake!Due, Right, GivesTo
      <4>. QED
          BY <1>2, <4>1, <4>3, <4>4 DEF Right
    <3>. QED
        BY <3>2, <3>3
  <2>. QED
      BY <1>3, <2>2 DEF StaysRight
<1>. QED
    BY <1>1, <1>2, <1>3, <1>4, ImportGoesOn

LEMMA SavingAlone == ASSUME IntakeInv, ImportAlone, Undisturbed, NEW q \in Intake!Procs, Intake!Save(q) PROVE ImportAlone'
<1>1. PICK o : o = import[q]
    OBVIOUS
<1>2. PICK p, now : p = Head(o.todo) /\ now = Intake!Saved(p, o.found, o.file.row[p].dept)
    OBVIOUS
<1>3. /\ o.kind = "save" /\ o # Intake!Idle /\ UNCHANGED <<access, broken>>
      /\ \/ import' = [import EXCEPT ![q] = Intake!Idle] /\ person' = person
         \/ person' = [person EXCEPT ![p] = now] /\ import' = [import EXCEPT ![q] = SavedFor(o, Moved(p, now))]
    BY <1>1, <1>2, SaveCall
<1>4. CASE import' = [import EXCEPT ![q] = Intake!Idle] /\ person' = person
  <2>1. PICK h : h = Intake!Idle
      OBVIOUS
  <2>2. h.kind # "leave" /\ import' = [import EXCEPT ![q] = h]
      BY <1>4, <2>1 DEF Intake!Idle
  <2>. QED
      BY <1>1, <1>3, <1>4, <2>2, QuietImport DEF CountsFaults
<1>6. ASSUME p \in People PROVE now \in Intake!Person /\ (person[p] = Intake!None \/ now.status = "ACTIVE")
  <2>1. o = import[q] /\ o.kind = "save"
      BY <1>1, <1>3
  <2>2. now = Intake!Saved(p, o.found, o.file.row[p].dept) /\ p = Head(o.todo)
      BY <1>2
  <2>. HIDE <1>1, <1>2, <1>3
  <2>. QED
      BY <1>6, <2>1, <2>2, SavedShape
<1>5. CASE person' = [person EXCEPT ![p] = now] /\ import' = [import EXCEPT ![q] = SavedFor(o, Moved(p, now))]
  <2>1. PICK m, h : m = Moved(p, now) /\ h = SavedFor(o, m)
      OBVIOUS
  <2>2. h.kind = "access" /\ h.todo = o.todo /\ h.moved = m /\ import' = [import EXCEPT ![q] = h]
      BY <1>5, <2>1 DEF SavedFor
  <2>3. person \in [People -> Intake!Person \cup {Intake!None}]
      BY DEF IntakeInv, Intake!TypeOK
  <2>4. ASSUME AllRight PROVE StaysRight(h)
    <3>1. ASSUME NEW x \in People PROVE (person'[x] = Intake!None => access'[x] = {}) /\ (Right(x)' \/ GivesTo(h, x)')
      <4>1. (person[x] = Intake!None => access[x] = {}) /\ Right(x)
          BY <1>1, <1>3, <2>4, RightBefore DEF GivesTo
      <4>2. CASE x # p
          BY <1>3, <1>5, <2>3, <4>1, <4>2 DEF Right
      <4>3. CASE x = p
        <5>1. now \in Intake!Person /\ (person[x] = Intake!None \/ now.status = "ACTIVE") /\ person'[x] = now
          <6>1. p \in People
              BY <4>3
          <6>2. now \in Intake!Person /\ (person[p] = Intake!None \/ now.status = "ACTIVE")
              BY <1>6, <6>1
          <6>3. person'[p] = now
              BY <1>5, <2>3, <6>1
          <6>. QED
              BY <4>3, <6>2, <6>3
        <5>2. ~m => access[x] \subseteq Intake!Reconciled(now)
          <6>1. SUFFICES ASSUME ~m PROVE access[x] \subseteq Intake!Reconciled(now)
              OBVIOUS
          <6>2. CASE person[x] = Intake!None
              BY <4>1, <6>2
          <6>3. CASE person[x] # Intake!None
            <7>1. person[x].status = now.status /\ person[x].dept = now.dept
                BY <2>1, <4>3, <6>1, <6>3 DEF Moved
            <7>. QED
                BY <4>1, <5>1, <6>3, <7>1 DEF Right, Intake!Reconciled
          <6>. QED
              BY <6>2, <6>3
        <5>3. GivesTo(h, x)'
            BY <1>2, <1>3, <2>2, <4>3, <5>1, <5>2 DEF GivesTo
        <5>4. person'[x] # Intake!None
            BY <5>1, Distinct
        <5>. QED
            BY <5>3, <5>4
      <4>. QED
          BY <4>2, <4>3
    <3>. QED
        BY <2>2, <3>1 DEF StaysRight
  <2>. QED
      BY <1>1, <1>3, <2>2, <2>4, ImportGoesOn DEF CountsFaults
<1>. QED
    BY <1>3, <1>4, <1>5

LEMMA ImportStep == ASSUME IntakeInv, ImportAlone, Undisturbed, Intake!Next PROVE ImportAlone'
<1>1. ASSUME NEW q \in Intake!Procs, Intake!Continue(q) PROVE ImportAlone'
    BY <1>1, SkipAlone, DisableAlone, LeaveAlone, ProvisionAlone, SavingAlone, GiveAlone, FinishAlone DEF Intake!Continue
<1>. QED
    BY <1>1, BesideAlone, CommitUploadAlone, SyncDirectoryAlone, IntakeCrashAlone DEF Intake!Next

LEMMA ImportSame == ASSUME ImportAlone, UNCHANGED Intake!vars PROVE ImportAlone'
<1>1. UNCHANGED <<person, access, import, broken>>
    BY DEF Intake!vars
<1>2. OneImport' /\ (broken \in [Intake!Faults -> Nat])'
    BY <1>1 DEF ImportAlone, OneImport
<1>3. AllRight => AllRight'
    BY <1>1 DEF AllRight, Right, GivesTo
<1>4. LeftAlone => LeftAlone'
    BY <1>1 DEF LeftAlone
<1>. QED
    BY <1>1, <1>2, <1>3, <1>4 DEF ImportAlone

LEMMA ImportStarts == ASSUME Intake!Init PROVE ImportAlone
<1>1. /\ person = [p \in People |-> Intake!None] /\ access = [p \in People |-> {}]
      /\ import = [q \in Intake!Procs |-> Intake!Idle] /\ broken = [f \in Intake!Faults |-> 0]
    BY DEF Intake!Init
<1>2. OneImport /\ broken \in [Intake!Faults -> Nat]
    BY <1>1 DEF OneImport
<1>3. AllRight
    BY <1>1 DEF AllRight, Right
<1>4. LeftAlone
    BY <1>1 DEF LeftAlone, Intake!Idle
<1>. QED
    BY <1>2, <1>3, <1>4 DEF ImportAlone

WideImports == IntakeInv /\ (breadth = 1 => ImportAlone)

\* Rows keep their shape, and whoever has a real account is in the directory, whatever imports
\* run at once; with one import at a time, none of which the process dies in, an active person
\* has between imports the birthright access of their department and no other, however HR,
\* rows and accounts change between them and whichever calls to a provider fail (commit_import
\* and _find_or_create_identity, run_hr_sync, run_sync).
THEOREM AccessFollowsAlone == ImportsSpec => []AloneAccessFollows
<1>1. ImportsInit => WideImports
    BY IntakeStarts, ImportStarts DEF ImportsInit, WideImports
<1>2. WideImports /\ [ImportsNext]_<<Intake!vars, breadth>> => WideImports'
  <2>1. ASSUME WideImports, ImportsNext PROVE WideImports'
    <3>1. IntakeInv /\ Intake!Next /\ breadth' = breadth
        BY <2>1 DEF WideImports, ImportsNext
    <3>2. IntakeInv'
        BY <3>1, IntakeStep
    <3>3. ASSUME breadth = 1 PROVE ImportAlone'
      <4>1. ImportAlone
          BY <2>1, <3>3 DEF WideImports
      <4>2. Undisturbed
          BY <2>1, <3>3 DEF ImportsNext, Undisturbed
      <4>. QED
          BY <3>1, <4>1, <4>2, ImportStep
    <3>. QED
        BY <3>1, <3>2, <3>3 DEF WideImports
  <2>2. ASSUME WideImports, UNCHANGED <<Intake!vars, breadth>> PROVE WideImports'
      BY <2>2, IntakeSame, ImportSame DEF WideImports
  <2>. QED
      BY <2>1, <2>2
<1>3. WideImports => AloneAccessFollows
  <2>1. SUFFICES ASSUME WideImports PROVE AloneAccessFollows
      OBVIOUS
  <2>2. Intake!TypeOK
      BY <2>1 DEF WideImports, IntakeInv
  <2>3. ASSUME breadth = 1, broken["crash"] = 0, Intake!Busy = {} PROVE \A p \in People : Right(p)
      BY <2>1, <2>3, RightBetween DEF WideImports, ImportAlone, Intake!Busy
  <2>. QED
      BY <2>2, <2>3 DEF AloneAccessFollows, Intake!AccessFollows, Right
<1>. QED
    BY <1>1, <1>2, <1>3, PTL DEF ImportsSpec
=============================================================================
