------------------------------- MODULE Accounts -------------------------------
(***************************************************************************)
(* The people who may sign: claimstone/operators.py, an append-only ledger *)
(* shared by the command line and the control server.                      *)
(*                                                                         *)
(* Every rule reads the ledger and appends one row while it holds          *)
(* .operators.lock, so a rule is one step.  The state is the fold of the   *)
(* rows; legacy rows, which nothing writes any more, are left out.  A      *)
(* process may be killed while it writes its row.                          *)
(***************************************************************************)
EXTENDS Naturals, FiniteSets

CONSTANTS Ids, Emails, Subs, Words,
          None,       \* no person, no address, no Google account, no role asked for
          MaxRows     \* bound: rows ever begun

Roles == {"operator", "admin"}

ASSUME AbsentAssumption == MaxRows \in Nat /\ None \notin Ids \cup Emails \cup Subs \cup Roles

Nobody   == [role |-> None]

VARIABLES
    people,   \* people[i]: the person the rows of id i fold to, or Nobody
    rows,     \* rows begun
    tail      \* the end of the file: "whole", "half" (a row cut short), or
              \* "merged" (a row appended behind half a one)

accounts == <<people, rows, tail>>

-----------------------------------------------------------------------------
(***************************************************************************)
(* Reading.                                                                *)
(***************************************************************************)

\* A half row at the end is skipped; one that was written behind is a line nobody can parse.
Readable == tail # "merged"

Known   == {i \in Ids : people[i] # Nobody}
Enabled == {i \in Known : people[i].enabled}
Admins  == {i \in Enabled : people[i].role = "admin"}

Taken(email, owner) ==
    /\ email # None
    /\ \E i \in Enabled \ {owner} : people[i].email = email

LastAdminIs(i) == Admins = {i}

Stamp(person) == person.credential
Verify(person, word) == person.credential.word = word

-----------------------------------------------------------------------------
(***************************************************************************)
(* Writing: the row that makes `after` of the people is appended, behind   *)
(* whatever the file ends with.  A killed writer leaves half of it.        *)
(***************************************************************************)
AppendRow(after) ==
    /\ rows < MaxRows
    /\ rows' = rows + 1
    /\ people' = IF tail = "whole" THEN after ELSE people
    /\ tail' = IF tail = "whole" THEN "whole" ELSE "merged"

CutRow ==
    /\ Readable /\ rows < MaxRows
    /\ rows' = rows + 1
    /\ tail' = "half"
    /\ UNCHANGED people

Fresh(word) == [word |-> word, salt |-> rows]

-----------------------------------------------------------------------------
(***************************************************************************)
(* The rules.                                                              *)
(***************************************************************************)
RoleGiven(role) == IF role # None THEN role ELSE IF Admins = {} THEN "admin" ELSE "operator"

MayAdd(i, email) == Readable /\ i \notin Known /\ ~Taken(email, None)

AddOperator(i, word, role, email, must) ==
    /\ MayAdd(i, email)
    /\ AppendRow([people EXCEPT ![i] =
           [role |-> RoleGiven(role), email |-> email, enabled |-> TRUE, sub |-> None,
            must_change |-> must, credential |-> Fresh(word)]])

\* A disabling that counts admins before it takes the lock.
MayDisableUncounted(i) == Readable /\ i \in Enabled

MayDisable(i) == Readable /\ i \in Enabled /\ ~LastAdminIs(i)

DisableOperator(i) ==
    /\ MayDisable(i)
    /\ AppendRow([people EXCEPT ![i].enabled = FALSE])

\* Enabling that takes the address as it was when the person was disabled.
MayEnableUnread(i) == Readable /\ i \in Known \ Enabled

MayEnable(i) == /\ Readable /\ i \in Known \ Enabled
                /\ ~Taken(people[i].email, i)

EnableOperator(i) ==
    /\ MayEnable(i)
    /\ AppendRow([people EXCEPT ![i].enabled = TRUE])

MaySetPassword(i) == Readable /\ i \in Known

SetPassword(i, word, must) ==
    /\ MaySetPassword(i)
    /\ AppendRow([people EXCEPT ![i].credential = Fresh(word), ![i].must_change = must])

MaySetEmail(i, email) == Readable /\ i \in Known /\ ~Taken(email, i)

SetEmail(i, email) ==
    /\ MaySetEmail(i, email)
    /\ AppendRow([people EXCEPT ![i].email = email])

MaySetRole(i, role) == Readable /\ i \in Known /\ (LastAdminIs(i) => role = "admin")

SetRole(i, role) ==
    /\ MaySetRole(i, role)
    /\ AppendRow([people EXCEPT ![i].role = role])

MayLink(i, sub, email) ==
    /\ Readable /\ i \in Enabled
    /\ people[i].sub = None
    /\ \A j \in Known : people[j].sub # sub
    /\ people[i].email # None /\ people[i].email = email

LinkGoogle(i, sub, email) ==
    /\ MayLink(i, sub, email)
    /\ AppendRow([people EXCEPT ![i].sub = sub])

UnlinkGoogle(i) ==
    /\ Readable /\ i \in Known /\ people[i].sub # None
    /\ AppendRow([people EXCEPT ![i].sub = None])

-----------------------------------------------------------------------------
(***************************************************************************)
(* The ledger alone: any rule, by anyone, in any order.                    *)
(***************************************************************************)
AccountsInit ==
    /\ people = [i \in Ids |-> Nobody]
    /\ rows = 0
    /\ tail = "whole"

AnyRule ==
    \E i \in Ids :
        \/ \E w \in Words, r \in Roles \cup {None}, e \in Emails \cup {None} :
               AddOperator(i, w, r, e, FALSE)
        \/ DisableOperator(i)
        \/ EnableOperator(i)
        \/ \E w \in Words : SetPassword(i, w, TRUE)
        \/ \E e \in Emails \cup {None} : SetEmail(i, e)
        \/ \E r \in Roles : SetRole(i, r)
        \/ \E s \in Subs, e \in Emails : LinkGoogle(i, s, e)
        \/ UnlinkGoogle(i)

AccountsNext == AnyRule \/ CutRow

AccountsSpec == AccountsInit /\ [][AccountsNext]_accounts

-----------------------------------------------------------------------------
\* Two people who may sign in never share an address, whatever disabling, renaming and enabling
\* came between, and a Google account belongs to one id for as long as it is linked: the
\* lookups by address and by subject return the first match.
DoorsApart ==
    \A i, j \in Known : i # j =>
        /\ i \in Enabled /\ j \in Enabled /\ people[i].email # None
               => people[i].email # people[j].email
        /\ people[i].sub # None => people[i].sub # people[j].sub

\* Once somebody may administer, somebody always may, over every order of disabling,
\* demoting and enabling by any number of writers.
AdminRemains == [][Admins # {} => Admins' # {}]_accounts
=============================================================================
