---------------------------- MODULE ControlProofs ----------------------------
(***************************************************************************)
(* Proofs about Accounts and Control, for any people, addresses, Google    *)
(* accounts, threads, sessions and limits: every property of the ledger    *)
(* holds with the server and the command line writing it together.         *)
(*                                                                         *)
(* The argument: a credential is salted when it is set, so it stands for   *)
(* one moment of the ledger, and with it for the debt of a new password    *)
(* that was set then (LedgerDated, Owes).  A thread that sets its own      *)
(* password makes the stamp of its session older than the ledger           *)
(* (Changing) before it clears the session's debt, and what it wrote       *)
(* stands until somebody writes a newer one (Stands), so the restamp never *)
(* goes back.  An idempotency key that was never dropped is held from the  *)
(* moment its request begins, so no other request runs under it (KeyInv).  *)
(*                                                                         *)
(* Then Authoring, whose routes are the server's too, for any drafts,      *)
(* tabs, names and days.                                                   *)
(***************************************************************************)
EXTENDS Control, Authoring, SequenceTheorems, FiniteSetTheorems, TLAPS

Credentials == [word: Words, salt: Nat]
Persons == [role: Roles, email: Emails \union {None}, enabled: BOOLEAN, sub: Subs \union {None},
            must_change: BOOLEAN, credential: Credentials]

Places == {"rest", "admit", "end", "book", "read", "verify", "open", "write", "others", "restamp",
           "apply", "revoke", "begin", "run", "finish", "refused"}

Logins == [who: Ids, stamp: Credentials, must_change: BOOLEAN, until: Nat, dies: Nat,
           proof: Credentials, changed: BOOLEAN]

Served == [at: Places, kind: Kinds \union {None}, who: Ids \union {None}, word: Words \union {None},
           new: Words \union {None}, token: Tokens \union {None}, target: Ids \union {None},
           key: Keys \union {None}, request: Requests \union {None},
           found: Persons \union {Nobody}, wrote: Credentials \union {None}]

LedgerType ==
    /\ people \in [Ids -> Persons \union {Nobody}]
    /\ rows \in Nat
    /\ tail \in {"whole", "half", "merged"}

\* The salts of the ledger's credentials are the numbers of the rows that set them.
LedgerDated == \A i \in Known : people[i].credential.salt < rows

ServerType ==
    /\ sessions \in [Tokens -> Logins \union {NoSession}]
    /\ thread \in [Threads -> Served]
    /\ clock \in Nat

TypeOK == LedgerType /\ ServerType

\* What each step of a request already knows.
Knows(q) ==
    /\ q.at \notin {"rest", "admit"} => q.who \in Ids
    /\ q.at # "rest" /\ q.kind # "login" => q.token \in Tokens
    /\ q.kind = "login" => q.token = None
    /\ q.at = "admit" => q.kind # "login"
    /\ q.at \in {"rest", "admit"} => q.found = Nobody
    /\ q.at = "open" => q.found \in Persons
    /\ q.kind \in {"login", "password", "person"} => q.word \in Words
    /\ q.kind = "password" => q.new \in Words
    /\ q.kind = "person" => q.target \in Ids
    /\ q.at \in {"book", "read", "verify"} => q.kind \in {"login", "password", "person"}
    /\ q.at = "open" => q.kind = "login"
    /\ q.at \in {"write", "others", "restamp"} => q.kind = "password"
    /\ q.at \in {"others", "restamp"} => q.wrote \in Credentials
    /\ q.at \in {"apply", "revoke"} => q.kind = "person"

\* Whoever holds the credential the ledger has for a person knows what the person owes, and
\* nobody holds one that is still to be set.
Owes(q) ==
    q.found # Nobody =>
        /\ q.found.credential.salt < rows
        /\ q.who \in Known /\ people[q.who].credential = q.found.credential
              => people[q.who].must_change = q.found.must_change

\* A request acts for the person of its session, as long as there is one.
Bound(q) ==
    q.at \notin {"rest", "admit"} /\ q.token \in Live => sessions[q.token].who = q.who

\* Behind a new password, the session that set it is stamped with an older one.
Changing(q) ==
    q.at \in {"others", "restamp"} /\ q.token \in Live /\ Readable
        => \/ sessions[q.token].changed
           \/ /\ q.who \in Known
              /\ sessions[q.token].stamp.salt < people[q.who].credential.salt

\* What a request wrote is what the ledger holds for its person, or something newer is.
Stands(q) ==
    q.at \in {"others", "restamp"} /\ Readable =>
        /\ q.wrote.salt < rows
        /\ q.who \in Known
        /\ \/ people[q.who].credential = q.wrote
           \/ q.wrote.salt < people[q.who].credential.salt

Fits(q) == Knows(q) /\ Owes(q) /\ Bound(q) /\ Changing(q) /\ Stands(q)

\* A session its holder has set no password in knows what its person owes; one in which a
\* password was set is stamped with it, or with a newer one.
Holds(s) ==
    /\ s.stamp.salt < rows
    /\ ~s.changed =>
          /\ s.stamp = s.proof
          /\ Readable /\ s.who \in Known /\ people[s.who].credential = s.stamp
                /\ people[s.who].must_change
             => s.must_change
    /\ s.changed => s.stamp = s.proof \/ s.stamp.salt > s.proof.salt

RequestsFit  == \A t \in Threads : Fits(thread[t])
SessionsHold == \A k \in Live : Holds(sessions[k])

IInv == TypeOK /\ LedgerDated /\ DoorsApart /\ RequestsFit /\ SessionsHold

-----------------------------------------------------------------------------
(***************************************************************************)
(* The ledger.                                                             *)
(***************************************************************************)
Ledger == LedgerType /\ LedgerDated /\ DoorsApart

\* What a row may change: a credential that differs is salted with this row, and an unchanged one
\* comes with an unchanged debt.
Moves ==
    /\ rows' = rows + 1
    /\ Readable' => Readable
    /\ Known \subseteq Known'
    /\ \A i \in Known' :
          \/ people'[i].credential.salt = rows
          \/ /\ i \in Known
             /\ people'[i].credential = people[i].credential
             /\ people'[i].must_change = people[i].must_change

RowKept == Ledger' /\ Moves /\ (Admins # {} => Admins' # {})

LEMMA NobodyIsNoPerson == Nobody \notin Persons
    BY AbsentAssumption DEF Nobody, Persons

LEMMA KnownPersons ==
    ASSUME LedgerType
    PROVE  /\ \A i \in Known : i \in Ids /\ people[i] \in Persons
           /\ Enabled \subseteq Known /\ Admins \subseteq Enabled
    BY DEF LedgerType, Known, Enabled, Admins

LEMMA Unmoved ==
    ASSUME Ledger, Readable \/ tail' = "merged", tail' \in {"whole", "half", "merged"},
           rows' = rows + 1, people' = people
    PROVE  RowKept
<1>1. LedgerType'
    BY DEF Ledger, LedgerType
<1>2. Known' = Known /\ Enabled' = Enabled /\ Admins' = Admins
    BY DEF Known, Enabled, Admins
<1>3. LedgerDated'
  <2>1. \A i \in Known : people[i].credential.salt \in Nat
      BY KnownPersons DEF Ledger, Persons, Credentials
  <2> QED
      BY <1>2, <2>1 DEF Ledger, LedgerDated, LedgerType
<1>4. DoorsApart'
    BY <1>2 DEF Ledger, DoorsApart
<1>5. Moves
    BY <1>2 DEF Moves, Readable
<1> QED
    BY <1>1, <1>2, <1>3, <1>4, <1>5 DEF RowKept, Ledger

\* A row that makes x of person i.
LEMMA Moved ==
    ASSUME Ledger, NEW i \in Ids, NEW x \in Persons,
           tail = "whole", tail' = "whole", rows' = rows + 1,
           people' = [people EXCEPT ![i] = x],
           \/ x.credential.salt = rows
           \/ /\ i \in Known
              /\ x.credential = people[i].credential
              /\ x.must_change = people[i].must_change,
           \A j \in Known \ {i} :
               /\ x.enabled /\ j \in Enabled /\ x.email # None => x.email # people[j].email
               /\ x.sub # None => x.sub # people[j].sub,
           i \in Admins => (x.enabled /\ x.role = "admin") \/ Admins # {i}
    PROVE  RowKept
<1>1. LedgerType'
    BY DEF Ledger, LedgerType
<1>2. /\ people'[i] = x
      /\ \A j \in Ids \ {i} : people'[j] = people[j]
    BY DEF Ledger, LedgerType
<1>3. Known' = Known \union {i}
    BY <1>2, NobodyIsNoPerson DEF Known
<1>4. \A j \in Ids \ {i} : (j \in Enabled' <=> j \in Enabled) /\ (j \in Admins' <=> j \in Admins)
    BY <1>2, <1>3 DEF Enabled, Admins, Known
<1>5. (i \in Enabled' <=> x.enabled) /\ (i \in Admins' <=> x.enabled /\ x.role = "admin")
    BY <1>2, <1>3 DEF Enabled, Admins
<1>6. LedgerDated'
  <2>1. SUFFICES ASSUME NEW j \in Known'
                 PROVE  people'[j].credential.salt < rows + 1
      BY DEF LedgerDated
  <2>2. \A h \in Known : people[h].credential.salt \in Nat /\ people[h].credential.salt < rows
      BY KnownPersons DEF Ledger, LedgerDated, Persons, Credentials
  <2>3. CASE j = i
      BY <1>2, <2>2, <2>3 DEF Ledger, LedgerType
  <2>4. CASE j # i
      BY <1>2, <1>3, <2>2, <2>4 DEF Ledger, LedgerType, Known
  <2> QED
      BY <2>3, <2>4
<1>7. DoorsApart'
  <2>1. SUFFICES ASSUME NEW g \in Known', NEW h \in Known', g # h
                 PROVE  /\ g \in Enabled' /\ h \in Enabled' /\ people'[g].email # None
                               => people'[g].email # people'[h].email
                        /\ people'[g].sub # None => people'[g].sub # people'[h].sub
      BY DEF DoorsApart
  <2>2. CASE g # i /\ h # i
      BY <1>2, <1>3, <1>4, <2>1, <2>2 DEF Ledger, DoorsApart, Known
  <2>3. CASE g = i
      BY <1>2, <1>3, <1>4, <1>5, <2>1, <2>3 DEF Known
  <2>4. CASE h = i
      BY <1>2, <1>3, <1>4, <1>5, <2>1, <2>4 DEF Known
  <2> QED
      BY <2>2, <2>3, <2>4
<1>8. Moves
  <2>1. \A j \in Known' : j = i \/ j \in Known
      BY <1>3
  <2>2. Known \subseteq Known'
      BY <1>3
  <2>3. \A j \in Known' :
           \/ people'[j].credential.salt = rows
           \/ /\ j \in Known
              /\ people'[j].credential = people[j].credential
              /\ people'[j].must_change = people[j].must_change
      BY <1>2, <2>1 DEF Known
  <2> QED
      BY <2>2, <2>3 DEF Moves, Readable
<1>9. Admins # {} => Admins' # {}
  <2>1. ASSUME i \in Admins, Admins # {i}
        PROVE  Admins' # {}
    <3>1. PICK j \in Admins : j # i
        BY <2>1
    <3> QED
        BY <1>4, <3>1, KnownPersons DEF Ledger
  <2>2. ASSUME NEW j \in Admins, j # i
        PROVE  j \in Admins'
      BY <1>4, <2>2, KnownPersons DEF Ledger
  <2> QED
      BY <1>5, <2>1, <2>2
<1> QED
    BY <1>1, <1>6, <1>7, <1>8, <1>9 DEF RowKept, Ledger

LEMMA Adding ==
    ASSUME Ledger, NEW i \in Ids, NEW w \in Words, NEW r \in Roles \union {None},
           NEW e \in Emails \union {None}, NEW m \in BOOLEAN, AddOperator(i, w, r, e, m)
    PROVE  RowKept
<1> DEFINE x == [role |-> RoleGiven(r), email |-> e, enabled |-> TRUE, sub |-> None,
                 must_change |-> m, credential |-> Fresh(w)]
<1>1. Readable /\ AppendRow([people EXCEPT ![i] = x])
    BY DEF AddOperator, MayAdd
<1>2. CASE tail # "whole"
    BY <1>1, <1>2, Unmoved DEF AppendRow, Readable
<1>3. CASE tail = "whole"
  <2>1. /\ people' = [people EXCEPT ![i] = x]
        /\ tail' = "whole" /\ rows' = rows + 1
      BY <1>1, <1>3 DEF AppendRow
  <2>2. x \in Persons
      BY DEF Persons, Credentials, Fresh, RoleGiven, Roles, Ledger, LedgerType
  <2>3. \/ x.credential.salt = rows
        \/ /\ i \in Known
           /\ x.credential = people[i].credential
           /\ x.must_change = people[i].must_change
      BY DEF Fresh
  <2>4. \A j \in Known \ {i} :
            /\ x.enabled /\ j \in Enabled /\ x.email # None => x.email # people[j].email
            /\ x.sub # None => x.sub # people[j].sub
      BY AbsentAssumption DEF AddOperator, MayAdd, Taken, Enabled, Known
  <2>5. i \in Admins => (x.enabled /\ x.role = "admin") \/ Admins # {i}
      BY DEF AddOperator, MayAdd, Admins, Enabled
  <2> HIDE DEF x
  <2> QED
      BY <1>3, <2>1, <2>2, <2>3, <2>4, <2>5, Moved
<1> QED
    BY <1>2, <1>3

LEMMA Disabling ==
    ASSUME Ledger, NEW i \in Ids, DisableOperator(i)
    PROVE  RowKept
<1> DEFINE x == [people[i] EXCEPT !.enabled = FALSE]
<1>1. Readable /\ AppendRow([people EXCEPT ![i] = x])
    BY KnownPersons DEF DisableOperator, MayDisable, Ledger, LedgerType, AppendRow
<1>2. CASE tail # "whole"
    BY <1>1, <1>2, Unmoved DEF AppendRow, Readable
<1>3. CASE tail = "whole"
  <2>1. /\ people' = [people EXCEPT ![i] = x]
        /\ tail' = "whole" /\ rows' = rows + 1
      BY <1>1, <1>3 DEF AppendRow
  <2>2. x \in Persons
      BY KnownPersons DEF Ledger, DisableOperator, MayDisable, Persons
  <2>3. \/ x.credential.salt = rows
        \/ /\ i \in Known
           /\ x.credential = people[i].credential
           /\ x.must_change = people[i].must_change
      BY KnownPersons DEF Ledger, DisableOperator, MayDisable, Persons
  <2>4. \A j \in Known \ {i} :
            /\ x.enabled /\ j \in Enabled /\ x.email # None => x.email # people[j].email
            /\ x.sub # None => x.sub # people[j].sub
      BY KnownPersons DEF Ledger, DisableOperator, MayDisable, DoorsApart, Persons
  <2>5. i \in Admins => (x.enabled /\ x.role = "admin") \/ Admins # {i}
      BY DEF DisableOperator, MayDisable, LastAdminIs
  <2> HIDE DEF x
  <2> QED
      BY <1>3, <2>1, <2>2, <2>3, <2>4, <2>5, Moved
<1> QED
    BY <1>2, <1>3

LEMMA Enabling ==
    ASSUME Ledger, NEW i \in Ids, EnableOperator(i)
    PROVE  RowKept
<1> DEFINE x == [people[i] EXCEPT !.enabled = TRUE]
<1>1. Readable /\ AppendRow([people EXCEPT ![i] = x])
    BY KnownPersons DEF EnableOperator, MayEnable, Ledger, LedgerType, AppendRow
<1>2. CASE tail # "whole"
    BY <1>1, <1>2, Unmoved DEF AppendRow, Readable
<1>3. CASE tail = "whole"
  <2>1. /\ people' = [people EXCEPT ![i] = x]
        /\ tail' = "whole" /\ rows' = rows + 1
      BY <1>1, <1>3 DEF AppendRow
  <2>2. x \in Persons
      BY KnownPersons DEF Ledger, EnableOperator, MayEnable, Persons
  <2>3. \/ x.credential.salt = rows
        \/ /\ i \in Known
           /\ x.credential = people[i].credential
           /\ x.must_change = people[i].must_change
      BY KnownPersons DEF Ledger, EnableOperator, MayEnable, Persons
  <2>4. \A j \in Known \ {i} :
            /\ x.enabled /\ j \in Enabled /\ x.email # None => x.email # people[j].email
            /\ x.sub # None => x.sub # people[j].sub
      BY KnownPersons DEF Ledger, EnableOperator, MayEnable, Taken, DoorsApart, Persons
  <2>5. i \in Admins => (x.enabled /\ x.role = "admin") \/ Admins # {i}
      BY KnownPersons DEF Ledger, EnableOperator, MayEnable
  <2> HIDE DEF x
  <2> QED
      BY <1>3, <2>1, <2>2, <2>3, <2>4, <2>5, Moved
<1> QED
    BY <1>2, <1>3

LEMMA SettingPassword ==
    ASSUME Ledger, NEW i \in Ids, NEW w \in Words, NEW m \in BOOLEAN, SetPassword(i, w, m)
    PROVE  RowKept
<1> DEFINE x == [people[i] EXCEPT !.credential = Fresh(w), !.must_change = m]
<1>1. Readable /\ AppendRow([people EXCEPT ![i] = x])
    BY KnownPersons DEF SetPassword, MaySetPassword, Ledger, LedgerType, AppendRow
<1>2. CASE tail # "whole"
    BY <1>1, <1>2, Unmoved DEF AppendRow, Readable
<1>3. CASE tail = "whole"
  <2>1. /\ people' = [people EXCEPT ![i] = x]
        /\ tail' = "whole" /\ rows' = rows + 1
      BY <1>1, <1>3 DEF AppendRow
  <2>2. x \in Persons
      BY KnownPersons DEF Ledger, SetPassword, MaySetPassword, Persons, Credentials, Fresh, LedgerType
  <2>3. \/ x.credential.salt = rows
        \/ /\ i \in Known
           /\ x.credential = people[i].credential
           /\ x.must_change = people[i].must_change
      BY KnownPersons DEF Ledger, SetPassword, MaySetPassword, Persons, Fresh
  <2>4. \A j \in Known \ {i} :
            /\ x.enabled /\ j \in Enabled /\ x.email # None => x.email # people[j].email
            /\ x.sub # None => x.sub # people[j].sub
      BY KnownPersons DEF Ledger, SetPassword, MaySetPassword, DoorsApart, Persons, Enabled
  <2>5. i \in Admins => (x.enabled /\ x.role = "admin") \/ Admins # {i}
      BY KnownPersons DEF Ledger, SetPassword, MaySetPassword, Persons, Admins, Enabled
  <2> HIDE DEF x
  <2> QED
      BY <1>3, <2>1, <2>2, <2>3, <2>4, <2>5, Moved
<1> QED
    BY <1>2, <1>3

LEMMA SettingEmail ==
    ASSUME Ledger, NEW i \in Ids, NEW e \in Emails \union {None}, SetEmail(i, e)
    PROVE  RowKept
<1> DEFINE x == [people[i] EXCEPT !.email = e]
<1>1. Readable /\ AppendRow([people EXCEPT ![i] = x])
    BY KnownPersons DEF SetEmail, MaySetEmail, Ledger, LedgerType, AppendRow
<1>2. CASE tail # "whole"
    BY <1>1, <1>2, Unmoved DEF AppendRow, Readable
<1>3. CASE tail = "whole"
  <2>1. /\ people' = [people EXCEPT ![i] = x]
        /\ tail' = "whole" /\ rows' = rows + 1
      BY <1>1, <1>3 DEF AppendRow
  <2>2. x \in Persons
      BY KnownPersons DEF Ledger, SetEmail, MaySetEmail, Persons
  <2>3. \/ x.credential.salt = rows
        \/ /\ i \in Known
           /\ x.credential = people[i].credential
           /\ x.must_change = people[i].must_change
      BY KnownPersons DEF Ledger, SetEmail, MaySetEmail, Persons
  <2>4. \A j \in Known \ {i} :
            /\ x.enabled /\ j \in Enabled /\ x.email # None => x.email # people[j].email
            /\ x.sub # None => x.sub # people[j].sub
      BY KnownPersons DEF Ledger, SetEmail, MaySetEmail, Taken, DoorsApart, Persons, Enabled
  <2>5. i \in Admins => (x.enabled /\ x.role = "admin") \/ Admins # {i}
      BY KnownPersons DEF Ledger, SetEmail, MaySetEmail, Persons, Admins, Enabled
  <2> HIDE DEF x
  <2> QED
      BY <1>3, <2>1, <2>2, <2>3, <2>4, <2>5, Moved
<1> QED
    BY <1>2, <1>3

LEMMA SettingRole ==
    ASSUME Ledger, NEW i \in Ids, NEW r \in Roles, SetRole(i, r)
    PROVE  RowKept
<1> DEFINE x == [people[i] EXCEPT !.role = r]
<1>1. Readable /\ AppendRow([people EXCEPT ![i] = x])
    BY KnownPersons DEF SetRole, MaySetRole, Ledger, LedgerType, AppendRow
<1>2. CASE tail # "whole"
    BY <1>1, <1>2, Unmoved DEF AppendRow, Readable
<1>3. CASE tail = "whole"
  <2>1. /\ people' = [people EXCEPT ![i] = x]
        /\ tail' = "whole" /\ rows' = rows + 1
      BY <1>1, <1>3 DEF AppendRow
  <2>2. x \in Persons
      BY KnownPersons DEF Ledger, SetRole, MaySetRole, Persons
  <2>3. \/ x.credential.salt = rows
        \/ /\ i \in Known
           /\ x.credential = people[i].credential
           /\ x.must_change = people[i].must_change
      BY KnownPersons DEF Ledger, SetRole, MaySetRole, Persons
  <2>4. \A j \in Known \ {i} :
            /\ x.enabled /\ j \in Enabled /\ x.email # None => x.email # people[j].email
            /\ x.sub # None => x.sub # people[j].sub
      BY KnownPersons DEF Ledger, SetRole, MaySetRole, DoorsApart, Persons, Enabled
  <2>5. i \in Admins => (x.enabled /\ x.role = "admin") \/ Admins # {i}
      BY KnownPersons DEF Ledger, SetRole, MaySetRole, LastAdminIs, Persons, Admins, Enabled
  <2> HIDE DEF x
  <2> QED
      BY <1>3, <2>1, <2>2, <2>3, <2>4, <2>5, Moved
<1> QED
    BY <1>2, <1>3

LEMMA Linking ==
    ASSUME Ledger, NEW i \in Ids, NEW s \in Subs, NEW e \in Emails, LinkGoogle(i, s, e)
    PROVE  RowKept
<1> DEFINE x == [people[i] EXCEPT !.sub = s]
<1>1. Readable /\ AppendRow([people EXCEPT ![i] = x])
    BY KnownPersons DEF LinkGoogle, MayLink, Ledger, LedgerType, AppendRow
<1>2. CASE tail # "whole"
    BY <1>1, <1>2, Unmoved DEF AppendRow, Readable
<1>3. CASE tail = "whole"
  <2>1. /\ people' = [people EXCEPT ![i] = x]
        /\ tail' = "whole" /\ rows' = rows + 1
      BY <1>1, <1>3 DEF AppendRow
  <2>2. x \in Persons
      BY KnownPersons DEF Ledger, LinkGoogle, MayLink, Persons
  <2>3. \/ x.credential.salt = rows
        \/ /\ i \in Known
           /\ x.credential = people[i].credential
           /\ x.must_change = people[i].must_change
      BY KnownPersons DEF Ledger, LinkGoogle, MayLink, Persons
  <2>4. \A j \in Known \ {i} :
            /\ x.enabled /\ j \in Enabled /\ x.email # None => x.email # people[j].email
            /\ x.sub # None => x.sub # people[j].sub
      BY KnownPersons DEF Ledger, LinkGoogle, MayLink, DoorsApart, Persons, Enabled
  <2>5. i \in Admins => (x.enabled /\ x.role = "admin") \/ Admins # {i}
      BY KnownPersons DEF Ledger, LinkGoogle, MayLink, Persons, Admins, Enabled
  <2> HIDE DEF x
  <2> QED
      BY <1>3, <2>1, <2>2, <2>3, <2>4, <2>5, Moved
<1> QED
    BY <1>2, <1>3

LEMMA Unlinking ==
    ASSUME Ledger, NEW i \in Ids, UnlinkGoogle(i)
    PROVE  RowKept
<1> DEFINE x == [people[i] EXCEPT !.sub = None]
<1>1. Readable /\ AppendRow([people EXCEPT ![i] = x])
    BY KnownPersons DEF UnlinkGoogle, Ledger, LedgerType, AppendRow
<1>2. CASE tail # "whole"
    BY <1>1, <1>2, Unmoved DEF AppendRow, Readable
<1>3. CASE tail = "whole"
  <2>1. /\ people' = [people EXCEPT ![i] = x]
        /\ tail' = "whole" /\ rows' = rows + 1
      BY <1>1, <1>3 DEF AppendRow
  <2>2. x \in Persons
      BY KnownPersons DEF Ledger, UnlinkGoogle, Persons
  <2>3. \/ x.credential.salt = rows
        \/ /\ i \in Known
           /\ x.credential = people[i].credential
           /\ x.must_change = people[i].must_change
      BY KnownPersons DEF Ledger, UnlinkGoogle, Persons
  <2>4. \A j \in Known \ {i} :
            /\ x.enabled /\ j \in Enabled /\ x.email # None => x.email # people[j].email
            /\ x.sub # None => x.sub # people[j].sub
      BY KnownPersons DEF Ledger, UnlinkGoogle, DoorsApart, Persons, Enabled
  <2>5. i \in Admins => (x.enabled /\ x.role = "admin") \/ Admins # {i}
      BY KnownPersons DEF Ledger, UnlinkGoogle, Persons, Admins, Enabled
  <2> HIDE DEF x
  <2> QED
      BY <1>3, <2>1, <2>2, <2>3, <2>4, <2>5, Moved
<1> QED
    BY <1>2, <1>3

LEMMA Cutting ==
    ASSUME Ledger, CutRow
    PROVE  RowKept
BY Unmoved DEF CutRow

LEMMA LedgerKept ==
    ASSUME Ledger, AccountsNext
    PROVE  RowKept
<1>1. CASE CutRow
    BY <1>1, Cutting
<1>2. CASE AnyRule
  <2>1. PICK i \in Ids :
            \/ \E w \in Words, r \in Roles \union {None}, e \in Emails \union {None} :
                   AddOperator(i, w, r, e, FALSE)
            \/ DisableOperator(i)
            \/ EnableOperator(i)
            \/ \E w \in Words : SetPassword(i, w, TRUE)
            \/ \E e \in Emails \union {None} : SetEmail(i, e)
            \/ \E r \in Roles : SetRole(i, r)
            \/ \E s \in Subs, e \in Emails : LinkGoogle(i, s, e)
            \/ UnlinkGoogle(i)
      BY <1>2 DEF AnyRule
  <2>2. CASE \E w \in Words, r \in Roles \union {None}, e \in Emails \union {None} :
                 AddOperator(i, w, r, e, FALSE)
      BY <2>2, Adding
  <2>3. CASE DisableOperator(i)
      BY <2>3, Disabling
  <2>4. CASE EnableOperator(i)
      BY <2>4, Enabling
  <2>5. CASE \E w \in Words : SetPassword(i, w, TRUE)
      BY <2>5, SettingPassword
  <2>6. CASE \E e \in Emails \union {None} : SetEmail(i, e)
      BY <2>6, SettingEmail
  <2>7. CASE \E r \in Roles : SetRole(i, r)
      BY <2>7, SettingRole
  <2>8. CASE \E s \in Subs, e \in Emails : LinkGoogle(i, s, e)
      BY <2>8, Linking
  <2>9. CASE UnlinkGoogle(i)
      BY <2>9, Unlinking
  <2> QED
      BY <2>1, <2>2, <2>3, <2>4, <2>5, <2>6, <2>7, <2>8, <2>9
<1> QED
    BY <1>1, <1>2 DEF AccountsNext

-----------------------------------------------------------------------------
(***************************************************************************)
(* One thread moves on.                                                    *)
(***************************************************************************)
LEMMA NoSessionIsNoLogin == NoSession \notin Logins
    BY AbsentAssumption DEF NoSession, Logins

LEMMA RestFits == Rest \in Served /\ Fits(Rest) /\ Rest.token \notin Tokens
    BY RequestAssumption DEF Rest, Served, Places, Fits, Knows, Owes, Bound, Changing, Stands, Kinds

LEMMA LiveSessions ==
    ASSUME ServerType
    PROVE  \A k \in Live : k \in Tokens /\ sessions[k] \in Logins
    BY DEF ServerType, Live

\* Thread t turns to q.
LEMMA Turned ==
    ASSUME thread \in [Threads -> Served], NEW t \in Threads, NEW q \in Served,
           thread' = [thread EXCEPT ![t] = q], Fits(q)',
           \A u \in Threads \ {t} : \E r \in Served : r = thread[u] /\ Fits(r)'
    PROVE  thread' \in [Threads -> Served] /\ RequestsFit'
<1>1. thread' \in [Threads -> Served]
    OBVIOUS
<1>2. ASSUME NEW u \in Threads
      PROVE  Fits(thread[u])'
  <2>1. PICK r \in Served : r = thread'[u] /\ Fits(r)'
      OBVIOUS
  <2> QED
      BY <2>1 DEF Fits, Knows, Owes, Bound, Changing, Stands
<1> QED
    BY <1>1, <1>2 DEF RequestsFit

\* The sessions after a step: under each token one of the same person as before, with the same
\* stamp until its holder sets a password in it.
Gentle(k) ==
    /\ k \in Live
    /\ sessions'[k].who = sessions[k].who
    /\ \/ sessions'[k].changed
       \/ (~sessions[k].changed /\ sessions'[k].stamp = sessions[k].stamp)

LEMMA StillFits ==
    ASSUME IInv, NEW r \in Served, Fits(r), UNCHANGED accounts,
           r.token \in Live' => Gentle(r.token)
    PROVE  Fits(r)'
<1>1. Known' = Known /\ (Readable' <=> Readable)
    BY DEF Known, accounts, Readable
<1>2. Owes(r)' /\ Knows(r)'
    BY <1>1 DEF Fits, Owes, Knows, accounts
<1>3. Bound(r)'
    BY DEF Fits, Bound, Gentle
<1>4. Changing(r)'
    BY <1>1 DEF Fits, Changing, Gentle, accounts
<1>5. Stands(r)'
    BY <1>1 DEF Fits, Stands, accounts
<1> QED
    BY <1>2, <1>3, <1>4, <1>5 DEF Fits

LEMMA StepKeeps ==
    ASSUME IInv, UNCHANGED <<accounts, clock>>,
           NEW t \in Threads, NEW q \in Served, Fits(q),
           thread' = [thread EXCEPT ![t] = q],
           sessions' \in [Tokens -> Logins \union {NoSession}],
           SessionsHold',
           \A u \in Threads : thread'[u].token \in Live' => Gentle(thread'[u].token)
    PROVE  IInv'
<1>1. LedgerType' /\ LedgerDated' /\ DoorsApart'
    BY DEF IInv, TypeOK, LedgerType, LedgerDated, DoorsApart, Known, Enabled, accounts
<1>2. Fits(q)'
    BY StillFits DEF IInv, TypeOK, ServerType
<1>3. ASSUME NEW u \in Threads \ {t}
      PROVE  \E r \in Served : r = thread[u] /\ Fits(r)'
  <2>1. PICK r \in Served : r = thread[u]
      BY DEF IInv, TypeOK, ServerType
  <2>2. Fits(r)
      BY <2>1 DEF IInv, RequestsFit
  <2>3. thread'[u] = r
      BY <2>1 DEF IInv, TypeOK, ServerType
  <2> QED
      BY <2>1, <2>2, <2>3, StillFits
<1>4. thread' \in [Threads -> Served] /\ RequestsFit'
    BY <1>2, <1>3, Turned DEF IInv, TypeOK, ServerType
<1> QED
    BY <1>1, <1>4 DEF IInv, TypeOK, ServerType

\* The sessions are those of before, without some.
LEMMA SomeEnded ==
    ASSUME IInv, UNCHANGED accounts, NEW gone, sessions' = Without(gone) \/ sessions' = sessions
    PROVE  /\ sessions' \in [Tokens -> Logins \union {NoSession}]
           /\ SessionsHold'
           /\ \A k \in Live' : Gentle(k) /\ sessions'[k] = sessions[k]
<1>1. sessions' \in [Tokens -> Logins \union {NoSession}]
    BY DEF IInv, TypeOK, ServerType, Without
<1>2. ASSUME NEW k \in Live'
      PROVE  k \in Live /\ sessions'[k] = sessions[k]
    BY DEF Live, Without
<1>3. ASSUME NEW k \in Live'
      PROVE  Gentle(k)
    BY <1>2, LiveSessions DEF Gentle, IInv, TypeOK, Logins
<1>4. SessionsHold'
  <2>1. SUFFICES ASSUME NEW k \in Live'
                 PROVE  Holds(sessions[k])'
      BY DEF SessionsHold
  <2>2. Holds(sessions[k])
      BY <1>2 DEF IInv, SessionsHold
  <2> QED
      BY <1>2, <2>2 DEF Holds, Known, Readable, accounts
<1> QED
    BY <1>1, <1>2, <1>3, <1>4

\* The step that moves thread t on, and may end sessions.
LEMMA EndKeeps ==
    ASSUME IInv, UNCHANGED <<accounts, clock>>,
           NEW t \in Threads, NEW q \in Served, Fits(q),
           thread' = [thread EXCEPT ![t] = q],
           NEW gone, sessions' = Without(gone) \/ sessions' = sessions
    PROVE  IInv'
<1>1. /\ sessions' \in [Tokens -> Logins \union {NoSession}]
      /\ SessionsHold'
      /\ \A k \in Live' : Gentle(k)
    BY SomeEnded
<1> QED
    BY <1>1, StepKeeps

-----------------------------------------------------------------------------
(***************************************************************************)
(* The steps of a request that leave the ledger alone.                     *)
(***************************************************************************)
LEMMA Reading ==
    ASSUME IInv, NEW t \in Threads
    PROVE  /\ thread[t] \in Served /\ Fits(thread[t])
           /\ clock \in Nat
    BY DEF IInv, TypeOK, ServerType, RequestsFit

LEMMA Handed ==
    ASSUME NEW s \in Served
    PROVE  /\ \A p \in Places : [s EXCEPT !.at = p] \in Served
           /\ \A w \in Ids \union {None} : [s EXCEPT !.who = w] \in Served
           /\ \A f \in Persons \union {Nobody} : [s EXCEPT !.found = f] \in Served
<1>1. ASSUME NEW p \in Places
      PROVE  [s EXCEPT !.at = p] \in Served
    BY DEF Served
<1>2. ASSUME NEW w \in Ids \union {None}
      PROVE  [s EXCEPT !.who = w] \in Served
    BY DEF Served
<1>3. ASSUME NEW f \in Persons \union {Nobody}
      PROVE  [s EXCEPT !.found = f] \in Served
    BY DEF Served
<1> QED
    BY <1>1, <1>2, <1>3

LEMMA Answering ==
    ASSUME IInv, UNCHANGED <<accounts, clock>>, NEW t \in Threads, Answer(t),
           NEW gone, sessions' = Without(gone) \/ sessions' = sessions
    PROVE  IInv'
<1>1. thread' = [thread EXCEPT ![t] = Rest]
    BY DEF Answer
<1> QED
    BY <1>1, EndKeeps, RestFits

LEMMA Arrives ==
    ASSUME IInv, NEW t \in Threads, Arrive(t, Kinds, Ids)
    PROVE  IInv'
<1>1. UNCHANGED <<accounts, clock>> /\ sessions' = sessions
    BY DEF Arrive
<1>2. \E q \in Served : Fits(q) /\ thread' = [thread EXCEPT ![t] = q]
  <2>1. PICK kind \in Kinds :
          \/ /\ kind = "login"
             /\ \E i \in Ids, w \in Words :
                    thread' = [thread EXCEPT ![t] =
                        [Rest EXCEPT !.at = "book", !.kind = kind, !.who = i, !.word = w]]
          \/ /\ kind \in {"logout", "others"}
             /\ \E k \in Live :
                    thread' = [thread EXCEPT ![t] = Carrying(kind, k)]
          \/ /\ kind = "password"
             /\ \E k \in Live, w, n \in Words :
                    /\ n # w
                    /\ thread' = [thread EXCEPT ![t] =
                           [Carrying(kind, k) EXCEPT !.word = w, !.new = n]]
          \/ /\ kind = "person"
             /\ \E k \in Live, w \in Words, j \in Ids :
                    thread' = [thread EXCEPT ![t] =
                        [Carrying(kind, k) EXCEPT !.word = w, !.target = j]]
          \/ /\ kind = "post"
             /\ \E k \in Live, key \in Keys, r \in Requests :
                    thread' = [thread EXCEPT ![t] =
                        [Carrying(kind, k) EXCEPT !.key = key, !.request = r]]
      BY DEF Arrive
  <2>2. \A k \in Live : k \in Tokens
      BY DEF Live
  <2>3. CASE kind = "login"
    <3>1. PICK i \in Ids, w \in Words :
              thread' = [thread EXCEPT ![t] =
                  [Rest EXCEPT !.at = "book", !.kind = kind, !.who = i, !.word = w]]
        BY <2>1, <2>3
    <3> DEFINE q == [Rest EXCEPT !.at = "book", !.kind = kind, !.who = i, !.word = w]
    <3>2. q \in Served /\ Fits(q)
        BY <2>3, RequestAssumption DEF Rest, Served, Places, Kinds, Fits, Knows, Owes, Bound, Changing, Stands, Live
    <3> QED
        BY <3>1, <3>2
  <2>4. CASE kind \in {"logout", "others"}
    <3>1. PICK k \in Live : thread' = [thread EXCEPT ![t] = Carrying(kind, k)]
        BY <2>1, <2>4
    <3>2. Carrying(kind, k) \in Served /\ Fits(Carrying(kind, k))
        BY <2>2, <2>4 DEF Carrying, Rest, Served, Places, Kinds, Fits, Knows, Owes, Bound, Changing, Stands
    <3> QED
        BY <3>1, <3>2
  <2>5. CASE kind = "password"
    <3>1. PICK k \in Live, w, n \in Words :
              /\ n # w
              /\ thread' = [thread EXCEPT ![t] = [Carrying(kind, k) EXCEPT !.word = w, !.new = n]]
        BY <2>1, <2>5
    <3> DEFINE q == [Carrying(kind, k) EXCEPT !.word = w, !.new = n]
    <3>2. q \in Served /\ Fits(q)
        BY <2>2, <2>5 DEF Carrying, Rest, Served, Places, Kinds, Fits, Knows, Owes, Bound, Changing, Stands
    <3> QED
        BY <3>1, <3>2
  <2>6. CASE kind = "person"
    <3>1. PICK k \in Live, w \in Words, j \in Ids :
              thread' = [thread EXCEPT ![t] = [Carrying(kind, k) EXCEPT !.word = w, !.target = j]]
        BY <2>1, <2>6
    <3> DEFINE q == [Carrying(kind, k) EXCEPT !.word = w, !.target = j]
    <3>2. q \in Served /\ Fits(q)
        BY <2>2, <2>6 DEF Carrying, Rest, Served, Places, Kinds, Fits, Knows, Owes, Bound, Changing, Stands
    <3> QED
        BY <3>1, <3>2
  <2>7. CASE kind = "post"
    <3>1. PICK k \in Live, key \in Keys, r \in Requests :
              thread' = [thread EXCEPT ![t] =
                  [Carrying(kind, k) EXCEPT !.key = key, !.request = r]]
        BY <2>1, <2>7
    <3> DEFINE q == [Carrying(kind, k) EXCEPT !.key = key, !.request = r]
    <3>2. q \in Served /\ Fits(q)
        BY <2>2, <2>7 DEF Carrying, Rest, Served, Places, Kinds, Fits, Knows, Owes, Bound, Changing, Stands
    <3> QED
        BY <3>1, <3>2
  <2> QED
      BY <2>3, <2>4, <2>5, <2>6, <2>7 DEF Kinds
<1> QED
    BY <1>1, <1>2, EndKeeps

LEMMA Ends ==
    ASSUME IInv, NEW t \in Threads, EndSession(t)
    PROVE  IInv'
<1>1. UNCHANGED <<accounts, clock>> /\ Answer(t)
    BY DEF EndSession
<1>2. \E gone : sessions' = Without(gone)
    BY DEF EndSession, EndWhere
<1> QED
    BY <1>1, <1>2, Answering

\* A step that only changes where its thread stands, and may end sessions.
MayGo(q, at) ==
    /\ q.at \notin {"rest", "admit"} /\ at \in Places
    /\ \/ at = "read" /\ q.at = "book"
       \/ at \in {"run", "finish", "refused"}
       \/ at = "open" /\ q.kind = "login" /\ q.found \in Persons
       \/ at = "write" /\ q.kind = "password"
       \/ at = "apply" /\ q.kind = "person"
       \/ at = "restamp" /\ q.at = "others"

LEMMA Going ==
    ASSUME IInv, UNCHANGED <<accounts, clock>>, NEW t \in Threads, NEW at, Goto(t, at),
           MayGo(thread[t], at),
           NEW gone, sessions' = Without(gone) \/ sessions' = sessions
    PROVE  IInv'
<1> DEFINE q == [thread[t] EXCEPT !.at = at]
<1>1. q \in Served
    BY Reading DEF Served, MayGo
<1>2. Fits(q)
    BY Reading DEF Served, MayGo, Fits, Knows, Owes, Bound, Changing, Stands
<1>3. thread' = [thread EXCEPT ![t] = q]
    BY DEF Goto, IInv, TypeOK, ServerType
<1> HIDE DEF q
<1> QED
    BY <1>1, <1>2, <1>3, EndKeeps

LEMMA Books ==
    ASSUME IInv, NEW t \in Threads, Book(t)
    PROVE  IInv'
<1>1. UNCHANGED <<accounts, clock>> /\ sessions' = sessions /\ thread[t].at = "book"
    BY DEF Book
<1>2. CASE Goto(t, "read")
  <2>1. MayGo(thread[t], "read")
      BY <1>1 DEF MayGo, Places
  <2> QED
      BY <1>1, <1>2, <2>1, Going
<1>3. CASE Answer(t)
    BY <1>1, <1>3, Answering
<1> QED
    BY <1>2, <1>3 DEF Book

LEMMA Reads ==
    ASSUME IInv, NEW t \in Threads, ReadPerson(t)
    PROVE  IInv'
<1>1. UNCHANGED <<accounts, clock>> /\ sessions' = sessions /\ thread[t].at = "read"
    BY DEF ReadPerson
<1>2. CASE Answer(t)
    BY <1>1, <1>2, Answering
<1>3. CASE Readable /\ ~Answer(t)
  <2> DEFINE found == IF thread[t].who \in Enabled THEN people[thread[t].who] ELSE Nobody
             q == [thread[t] EXCEPT !.at = "verify", !.found = found]
  <2>1. thread' = [thread EXCEPT ![t] = q]
      BY <1>3 DEF ReadPerson, IInv, TypeOK, ServerType
  <2>2. found \in Persons \union {Nobody}
      BY KnownPersons DEF IInv, TypeOK
  <2> HIDE DEF found
  <2>3. q \in Served
    <3>1. PICK s \in Served : s = thread[t]
        BY Reading
    <3>2. "verify" \in Places
        BY DEF Places
    <3>3. [s EXCEPT !.at = "verify", !.found = found] \in Served
      <4>1. [s EXCEPT !.at = "verify"] \in Served
          BY <3>2, Handed
      <4> QED
          BY <2>2, <4>1, Handed
    <3> QED
        BY <3>1, <3>3
  <2> USE DEF found
  <2>4. found # Nobody => /\ found.credential.salt < rows
                          /\ found = people[thread[t].who]
      BY KnownPersons DEF IInv, TypeOK, LedgerDated
  <2> HIDE DEF found
  <2>5. Fits(q)
      BY <1>1, <2>2, <2>4, Reading DEF Served, Fits, Knows, Owes, Bound, Changing, Stands
  <2> HIDE DEF q
  <2> QED
      BY <1>1, <2>1, <2>3, <2>5, EndKeeps
<1> QED
    BY <1>2, <1>3 DEF ReadPerson

LEMMA Verifies ==
    ASSUME IInv, NEW t \in Threads, VerifyPassword(t)
    PROVE  IInv'
<1>1. UNCHANGED <<accounts, clock>> /\ sessions' = sessions /\ thread[t].at = "verify"
    BY DEF VerifyPassword
<1>2. CASE Answer(t)
    BY <1>1, <1>2, Answering
<1>3. CASE ~Answer(t)
  <2>1. /\ thread[t].found # Nobody
        /\ Goto(t, IF thread[t].kind = "login" THEN "open"
                   ELSE IF thread[t].kind = "password" THEN "write" ELSE "apply")
      BY <1>3 DEF VerifyPassword
  <2>2. thread[t].found \in Persons
      BY <2>1, Reading DEF Served
  <2>3. thread[t].kind \in {"login", "password", "person"}
      BY <1>1, Reading DEF Fits, Knows
  <2>4. CASE thread[t].kind = "login"
    <3>1. Goto(t, "open")
        BY <2>1, <2>4
    <3>2. MayGo(thread[t], "open")
        BY <1>1, <2>2, <2>4 DEF MayGo, Places
    <3> QED
        BY <1>1, <3>1, <3>2, Going
  <2>5. CASE thread[t].kind = "password"
    <3>1. Goto(t, "write")
        BY <2>1, <2>5
    <3>2. MayGo(thread[t], "write")
        BY <1>1, <2>5 DEF MayGo, Places
    <3> QED
        BY <1>1, <3>1, <3>2, Going
  <2>6. CASE thread[t].kind = "person"
    <3>1. Goto(t, "apply")
        BY <2>1, <2>6
    <3>2. MayGo(thread[t], "apply")
        BY <1>1, <2>6 DEF MayGo, Places
    <3> QED
        BY <1>1, <3>1, <3>2, Going
  <2> QED
      BY <2>3, <2>4, <2>5, <2>6
<1> QED
    BY <1>2, <1>3

LEMMA EndsOthers ==
    ASSUME IInv, NEW t \in Threads, EndOthers(t)
    PROVE  IInv'
<1>1. UNCHANGED <<accounts, clock>> /\ thread[t].at = "others" /\ Goto(t, "restamp")
    BY DEF EndOthers
<1>2. \E gone : sessions' = Without(gone)
    BY DEF EndOthers, EndWhere
<1>3. MayGo(thread[t], "restamp")
    BY <1>1 DEF MayGo, Places
<1> QED
    BY <1>1, <1>2, <1>3, Going

LEMMA Revokes ==
    ASSUME IInv, NEW t \in Threads, Revoke(t)
    PROVE  IInv'
<1>1. UNCHANGED <<accounts, clock>> /\ Answer(t)
    BY DEF Revoke
<1>2. \E gone : sessions' = Without(gone)
    BY DEF Revoke, EndWhere
<1> QED
    BY <1>1, <1>2, Answering

LEMMA Keyed ==
    ASSUME IInv, NEW t \in Threads, BeginKey(t) \/ Run(t) \/ FinishKey(t)
    PROVE  IInv'
<1>1. UNCHANGED <<accounts, clock>> /\ sessions' = sessions
    BY DEF BeginKey, Run, FinishKey
<1>2. CASE Answer(t)
    BY <1>1, <1>2, Answering
<1>3. CASE ~Answer(t)
  <2>1. PICK at \in {"run", "finish", "refused"} : Goto(t, at)
      BY <1>3 DEF BeginKey, Run, FinishKey
  <2>2. thread[t].at \in {"begin", "run"}
      BY <1>3 DEF BeginKey, Run, FinishKey
  <2>3. MayGo(thread[t], at)
      BY <2>1, <2>2 DEF MayGo, Places
  <2> QED
      BY <1>1, <2>1, <2>3, Going
<1> QED
    BY <1>2, <1>3

\* The one session a request touches.
LEMMA OneSession ==
    ASSUME IInv, UNCHANGED <<accounts, clock>>,
           NEW t \in Threads, NEW q \in Served, Fits(q),
           thread' = [thread EXCEPT ![t] = q],
           NEW k \in Live, NEW s \in Logins,
           sessions' = [sessions EXCEPT ![k] = s],
           s.who = sessions[k].who,
           s.changed \/ (~sessions[k].changed /\ s.stamp = sessions[k].stamp),
           Holds(s)
    PROVE  IInv'
<1>1. k \in Tokens
    BY DEF Live
<1>2. sessions' \in [Tokens -> Logins \union {NoSession}]
    BY DEF IInv, TypeOK, ServerType
<1>3. Live' = Live
    BY <1>1, NoSessionIsNoLogin DEF Live, IInv, TypeOK, ServerType
<1>4. \A j \in Live' : IF j = k THEN sessions'[j] = s ELSE sessions'[j] = sessions[j]
    BY <1>3 DEF Live, IInv, TypeOK, ServerType
<1>5. \A j \in Live' : Gentle(j)
    BY <1>3, <1>4, LiveSessions DEF Gentle, IInv, TypeOK, Logins
<1>6. SessionsHold'
  <2>1. SUFFICES ASSUME NEW j \in Live'
                 PROVE  Holds(sessions[j])'
      BY DEF SessionsHold
  <2>2. CASE j = k
      BY <1>4, <2>2 DEF Holds, Known, Readable, accounts
  <2>3. CASE j # k
    <3>1. Holds(sessions[j])
        BY <1>3 DEF IInv, SessionsHold
    <3> QED
        BY <1>4, <2>3, <3>1 DEF Holds, Known, Readable, accounts
  <2> QED
      BY <2>2, <2>3
<1> QED
    BY <1>2, <1>5, <1>6, StepKeeps

LEMMA Admits ==
    ASSUME IInv, NEW t \in Threads, Admit(t)
    PROVE  IInv'
<1> DEFINE k == thread[t].token
<1>1. UNCHANGED <<accounts, clock>> /\ thread[t].at = "admit"
    BY DEF Admit
<1>2. CASE ~Readable /\ Answer(t) /\ sessions' = sessions
    BY <1>1, <1>2, Answering
<1>3. CASE sessions' = Without({k}) /\ Answer(t)
    BY <1>1, <1>3, Answering
<1>4. CASE Readable /\ Accepted(k) /\ sessions' = [sessions EXCEPT ![k].until = clock + Idle]
  <2>1. PICK s \in Logins : s = sessions[k]
      BY <1>4, LiveSessions DEF Accepted, IInv, TypeOK
  <2> DEFINE r == [s EXCEPT !.until = clock + Idle]
  <2>2. k \in Live /\ Holds(s)
      BY <1>4, <2>1 DEF Accepted, IInv, SessionsHold
  <2>3. r \in Logins
      BY Reading, SpanAssumption DEF Logins
  <2>4. Holds(r) /\ r.who = s.who /\ r.stamp = s.stamp /\ r.changed = s.changed
      BY <2>1, <2>2 DEF Holds, Logins
  <2>5. sessions' = [sessions EXCEPT ![k] = r]
      BY <1>4, <2>1, <2>2 DEF Live, IInv, TypeOK, ServerType
  <2>6. s.changed \in BOOLEAN
      BY DEF Logins
  <2>7. \E q \in Served : Fits(q) /\ thread' = [thread EXCEPT ![t] = q]
    <3>1. CASE Answer(t)
        BY <3>1, RestFits DEF Answer
    <3>2. CASE ~Answer(t)
      <4> DEFINE at == CASE thread[t].kind \in {"password", "person"} -> "book"
                         [] thread[t].kind = "post" -> "begin"
                         [] OTHER -> "end"
                 q == [thread[t] EXCEPT !.who = s.who, !.at = at]
      <4>1. thread' = [thread EXCEPT ![t].who = sessions[k].who, ![t].at = at]
          BY <1>4, <3>2 DEF Admit
      <4>2. thread' = [thread EXCEPT ![t] = q]
          BY <2>1, <4>1 DEF IInv, TypeOK, ServerType
      <4>3. /\ at \in {"book", "begin", "end"}
            /\ at = "book" => thread[t].kind \in {"password", "person"}
          OBVIOUS
      <4> HIDE DEF at
      <4>4. q \in Served
        <5>1. PICK g \in Served : g = thread[t]
            BY Reading
        <5>2. at \in Places /\ s.who \in Ids
            BY <4>3 DEF Places, Logins
        <5>3. [g EXCEPT !.who = s.who, !.at = at] \in Served
          <6>1. [g EXCEPT !.who = s.who] \in Served
              BY <5>2, Handed
          <6> QED
              BY <5>2, <6>1, Handed
        <5> QED
            BY <5>1, <5>3
      <4>5. Fits(q)
          BY <1>1, <2>1, <4>3, Reading DEF Served, Logins, Fits, Knows, Owes, Bound, Changing, Stands
      <4> QED
          BY <4>2, <4>4, <4>5
    <3> QED
        BY <3>1, <3>2
  <2> HIDE DEF r, k
  <2> QED
      BY <1>1, <2>1, <2>2, <2>3, <2>4, <2>5, <2>6, <2>7, OneSession
<1> QED
    BY <1>1, <1>2, <1>3, <1>4 DEF Admit

LEMMA Opens ==
    ASSUME IInv, NEW t \in Threads, OpenSession(t)
    PROVE  IInv'
<1> DEFINE gone == {k \in Live : Over(k)}
           i == thread[t].who
           person == thread[t].found
           s == Session(i, person, clock)
<1>1. /\ UNCHANGED <<accounts, clock>> /\ thread[t].at = "open"
      /\ thread' = [thread EXCEPT ![t] = Rest]
    BY DEF OpenSession, Answer
<1>2. PICK k \in Tokens \ Carried :
          sessions[k] = NoSession /\ sessions' = [Without(gone) EXCEPT ![k] = s]
    BY DEF OpenSession, CreateSession
<1>3. i \in Ids /\ person \in Persons
    BY <1>1, Reading DEF Fits, Knows
<1>4. s \in Logins
    BY <1>3, Reading, SpanAssumption DEF Session, Stamp, Logins, Persons
<1>5. sessions' \in [Tokens -> Logins \union {NoSession}]
    BY <1>2, <1>4 DEF IInv, TypeOK, ServerType, Without
<1>6. sessions'[k] = s
    BY <1>2 DEF Without
<1>7. \A j \in Live' \ {k} : j \in Live /\ sessions'[j] = sessions[j]
    BY <1>2 DEF Live, Without
<1>8. \A j \in Live' \ {k} : Gentle(j)
    BY <1>7, LiveSessions DEF Gentle, IInv, TypeOK, Logins
<1>9. Holds(s)
  <2>1. /\ person.credential.salt < rows
        /\ i \in Known /\ people[i].credential = person.credential
              => people[i].must_change = person.must_change
      BY <1>3, Reading, NobodyIsNoPerson DEF Fits, Owes
  <2> QED
      BY <2>1 DEF Holds, Session, Stamp
<1>10. SessionsHold'
  <2>1. SUFFICES ASSUME NEW j \in Live'
                 PROVE  Holds(sessions[j])'
      BY DEF SessionsHold
  <2> HIDE DEF s
  <2>2. CASE j = k
      BY <1>1, <1>6, <1>9, <2>2 DEF Holds, Known, Readable, accounts
  <2>3. CASE j # k
    <3>1. Holds(sessions[j])
        BY <1>7, <2>3 DEF IInv, SessionsHold
    <3> QED
        BY <1>1, <1>7, <2>3, <3>1 DEF Holds, Known, Readable, accounts
  <2> QED
      BY <2>2, <2>3
<1>11. ASSUME NEW u \in Threads, thread'[u].token \in Live'
       PROVE  Gentle(thread'[u].token)
  <2>1. u # t
      BY <1>1, <1>11, RestFits DEF Live, IInv, TypeOK, ServerType
  <2>2. thread'[u] = thread[u]
      BY <1>1, <2>1 DEF IInv, TypeOK, ServerType
  <2>3. thread'[u].token # k
      BY <1>2, <2>2 DEF Carried
  <2> QED
      BY <1>8, <1>11, <2>3
<1> QED
    BY <1>1, <1>5, <1>10, <1>11, StepKeeps, RestFits

LEMMA Restamps ==
    ASSUME IInv, NEW t \in Threads, Restamp(t)
    PROVE  IInv'
<1> DEFINE k == thread[t].token
           i == thread[t].who
           cleared == [sessions[k] EXCEPT !.must_change = FALSE]
<1>1. /\ UNCHANGED <<accounts, clock>> /\ thread[t].at = "restamp"
      /\ Answer(t) /\ thread' = [thread EXCEPT ![t] = Rest]
    BY DEF Restamp, Answer
<1>2. CASE k \notin Live
  <2>1. sessions' = sessions
      BY <1>2 DEF Restamp, IInv, TypeOK, ServerType
  <2> QED
      BY <1>1, <2>1, Answering
<1>3. CASE k \in Live
  <2>1. sessions[k] \in Logins /\ Holds(sessions[k]) /\ sessions[k].who = i
      BY <1>1, <1>3, LiveSessions, Reading DEF IInv, TypeOK, SessionsHold, Fits, Bound
  <2>2. cleared \in Logins
      BY <2>1 DEF Logins
  <2>3. CASE ~Readable \/ i \notin Enabled
    <3>1. sessions' = [sessions EXCEPT ![k] = cleared]
        BY <1>3, <2>3 DEF Restamp
    <3>2. /\ cleared.who = sessions[k].who
          /\ cleared.stamp = sessions[k].stamp
          /\ cleared.changed = sessions[k].changed
          /\ cleared.proof = sessions[k].proof
        BY <2>1 DEF Logins
    <3>3. Holds(cleared)
      <4>1. sessions[k].stamp.salt \in Nat /\ sessions[k].changed \in BOOLEAN
          BY <2>1 DEF Logins, Credentials
      <4>2. Readable => \/ sessions[k].changed
                        \/ /\ i \in Known
                           /\ sessions[k].stamp.salt < people[i].credential.salt
          BY <1>1, <1>3, Reading DEF Fits, Changing
      <4>3. Readable /\ i \in Known /\ people[i].credential = sessions[k].stamp
                => sessions[k].changed
          BY <4>1, <4>2
      <4> QED
          BY <2>1, <3>2, <4>3 DEF Holds
    <3>4. sessions[k].changed \in BOOLEAN
        BY <2>1 DEF Logins
    <3> HIDE DEF cleared
    <3> QED
        BY <1>1, <1>3, <2>2, <3>1, <3>2, <3>3, <3>4, RestFits, OneSession
  <2>4. CASE Readable /\ i \in Enabled
    <3> DEFINE s == [cleared EXCEPT !.stamp = Stamp(people[i]), !.proof = thread[t].wrote,
                                    !.changed = TRUE]
    <3>1. sessions' = [sessions EXCEPT ![k] = s]
        BY <1>3, <2>4 DEF Restamp
    <3>2. thread[t].wrote \in Credentials
        BY <1>1, Reading DEF Fits, Knows
    <3>3. i \in Known /\ people[i] \in Persons
        BY <2>4, KnownPersons DEF IInv, TypeOK
    <3>4. s \in Logins /\ s.who = i /\ s.changed /\ s.stamp = people[i].credential
        BY <2>1, <2>2, <3>2, <3>3 DEF Stamp, Persons, Logins
    <3>5. Holds(s)
      <4>1. s.proof = thread[t].wrote
          BY <2>1, <2>2, <3>2, <3>3 DEF Stamp, Persons, Logins
      <4>2. \/ people[i].credential = thread[t].wrote
            \/ thread[t].wrote.salt < people[i].credential.salt
          BY <1>1, <2>4, Reading DEF Fits, Stands
      <4>3. thread[t].wrote.salt \in Nat /\ people[i].credential.salt \in Nat
          BY <3>2, <3>3 DEF Persons, Credentials
      <4>4. s.stamp = s.proof \/ s.stamp.salt > s.proof.salt
          BY <3>4, <4>1, <4>2, <4>3
      <4> QED
          BY <3>3, <3>4, <4>4 DEF Holds, IInv, LedgerDated
    <3>6. s \in Logins /\ s.who = sessions[k].who /\ s.changed
        BY <2>1, <3>4
    <3>7. s.changed \/ (~sessions[k].changed /\ s.stamp = sessions[k].stamp)
        BY <3>6
    <3> HIDE DEF s, k, i, cleared
    <3> QED
        BY <1>1, <1>3, <3>1, <3>5, <3>6, <3>7, RestFits, OneSession
  <2> QED
      BY <2>3, <2>4
<1> QED
    BY <1>2, <1>3

-----------------------------------------------------------------------------
(***************************************************************************)
(* The steps that write the ledger, and the rest.                          *)
(***************************************************************************)
LEMMA InvariantLedger ==
    ASSUME IInv
    PROVE  Ledger
    BY DEF IInv, TypeOK, Ledger

LEMMA RowFits ==
    ASSUME IInv, NEW r \in Served, Fits(r), RowKept, sessions' = sessions
    PROVE  Fits(r)'
<1>1. /\ rows \in Nat /\ rows' = rows + 1 /\ (Readable' => Readable) /\ Known \subseteq Known'
      /\ \A i \in Known' :
            \/ people'[i].credential.salt = rows
            \/ /\ i \in Known
               /\ people'[i].credential = people[i].credential
               /\ people'[i].must_change = people[i].must_change
    BY DEF RowKept, Moves, IInv, TypeOK, LedgerType
<1>2. Live' = Live
    BY DEF Live
<1>3. Knows(r)' /\ Bound(r)'
    BY <1>2 DEF Fits, Knows, Bound
<1>4. Owes(r)'
  <2>1. r.found # Nobody => r.found.credential.salt \in Nat
      BY DEF Served, Persons, Credentials
  <2> QED
      BY <1>1, <2>1 DEF Fits, Owes
<1>5. Changing(r)'
  <2>1. SUFFICES ASSUME r.at \in {"others", "restamp"}, r.token \in Live, Readable',
                        ~sessions[r.token].changed
                 PROVE  /\ r.who \in Known'
                        /\ sessions[r.token].stamp.salt < people'[r.who].credential.salt
      BY <1>2 DEF Changing
  <2>2. /\ r.who \in Known
        /\ sessions[r.token].stamp.salt < people[r.who].credential.salt
      BY <1>1, <2>1 DEF Fits, Changing
  <2>3. sessions[r.token].stamp.salt < rows
      BY <2>1 DEF IInv, SessionsHold, Holds
  <2> QED
      BY <1>1, <2>2, <2>3
<1>6. Stands(r)'
  <2>1. SUFFICES ASSUME r.at \in {"others", "restamp"}, Readable'
                 PROVE  /\ r.wrote.salt < rows'
                        /\ r.who \in Known'
                        /\ \/ people'[r.who].credential = r.wrote
                           \/ r.wrote.salt < people'[r.who].credential.salt
      BY DEF Stands
  <2>2. /\ r.wrote.salt < rows /\ r.who \in Known
        /\ \/ people[r.who].credential = r.wrote
           \/ r.wrote.salt < people[r.who].credential.salt
      BY <1>1, <2>1 DEF Fits, Stands
  <2>3. r.wrote.salt \in Nat
      BY <2>1 DEF Fits, Knows, Credentials
  <2>4. r.who \in Known'
      BY <2>2 DEF RowKept, Moves
  <2> QED
      BY <1>1, <2>2, <2>3, <2>4
<1> QED
    BY <1>3, <1>4, <1>5, <1>6 DEF Fits

LEMMA RowHolds ==
    ASSUME IInv, RowKept, sessions' = sessions
    PROVE  SessionsHold'
<1>1. /\ rows \in Nat /\ rows' = rows + 1 /\ (Readable' => Readable)
      /\ \A i \in Known' :
            \/ people'[i].credential.salt = rows
            \/ /\ i \in Known
               /\ people'[i].credential = people[i].credential
               /\ people'[i].must_change = people[i].must_change
    BY DEF RowKept, Moves, IInv, TypeOK, LedgerType
<1>2. SUFFICES ASSUME NEW k \in Live'
               PROVE  Holds(sessions[k])'
    BY DEF SessionsHold
<1>3. k \in Live /\ Holds(sessions[k]) /\ sessions[k].stamp.salt \in Nat
    BY LiveSessions DEF Live, IInv, SessionsHold, TypeOK, Logins, Credentials
<1> QED
    BY <1>1, <1>3 DEF Holds

\* Thread t, or none, moves on to q with a row.
LEMMA RowKeeps ==
    ASSUME IInv, RowKept, UNCHANGED <<sessions, clock>>,
           \/ thread' = thread
           \/ \E t \in Threads, q \in Served : Fits(q)' /\ thread' = [thread EXCEPT ![t] = q]
    PROVE  IInv'
<1>1. LedgerType' /\ LedgerDated' /\ DoorsApart'
    BY DEF RowKept, Ledger
<1>2. ASSUME NEW u \in Threads
      PROVE  \E r \in Served : r = thread[u] /\ Fits(r)'
  <2>1. PICK r \in Served : r = thread[u]
      BY DEF IInv, TypeOK, ServerType
  <2>2. Fits(r)
      BY <2>1 DEF IInv, RequestsFit
  <2> QED
      BY <2>1, <2>2, RowFits
<1>3. thread' \in [Threads -> Served] /\ RequestsFit'
  <2>1. CASE thread' = thread
    <3>1. ASSUME NEW u \in Threads
          PROVE  Fits(thread[u])'
      <4>1. PICK r \in Served : r = thread[u] /\ Fits(r)'
          BY <1>2
      <4>2. r = thread'[u]
          BY <2>1, <4>1
      <4> QED
          BY <4>1, <4>2 DEF Fits, Knows, Owes, Bound, Changing, Stands
    <3> QED
        BY <2>1, <3>1 DEF RequestsFit, IInv, TypeOK, ServerType
  <2>2. ASSUME NEW t \in Threads, NEW q \in Served, Fits(q)', thread' = [thread EXCEPT ![t] = q]
        PROVE  thread' \in [Threads -> Served] /\ RequestsFit'
      BY <1>2, <2>2, Turned DEF IInv, TypeOK, ServerType
  <2> QED
      BY <2>1, <2>2
<1> QED
    BY <1>1, <1>3, RowHolds DEF IInv, TypeOK, ServerType

LEMMA Writes ==
    ASSUME IInv, NEW t \in Threads, WritePassword(t)
    PROVE  IInv' /\ (Admins # {} => Admins' # {})
<1>1. /\ UNCHANGED <<sessions, clock>> /\ thread[t].at = "write"
      /\ thread[t].who \in Ids /\ thread[t].new \in Words /\ thread[t].kind = "password"
    BY Reading DEF WritePassword, Fits, Knows
<1>2. CASE UNCHANGED accounts /\ Answer(t)
  <2>1. IInv'
      BY <1>1, <1>2, Answering
  <2> QED
      BY <1>2, <2>1 DEF accounts, Admins, Enabled, Known
<1>3. CASE ~(UNCHANGED accounts /\ Answer(t))
  <2> DEFINE w == Fresh(thread[t].new)
             q == [thread[t] EXCEPT !.at = "others", !.wrote = w]
  <2>1. /\ SetPassword(thread[t].who, thread[t].new, FALSE)
        /\ thread' = [thread EXCEPT ![t].at = "others", ![t].wrote = w]
      BY <1>3 DEF WritePassword
  <2>2. thread' = [thread EXCEPT ![t] = q]
      BY <2>1 DEF IInv, TypeOK, ServerType
  <2>3. PICK i \in Ids, n \in Words : i = thread[t].who /\ n = thread[t].new
      BY <1>1
  <2>4. RowKept
      BY <2>1, <2>3, InvariantLedger, SettingPassword
  <2>5. w \in Credentials
      BY <1>1 DEF Fresh, Credentials, IInv, TypeOK, LedgerType
  <2> HIDE DEF w
  <2>6. PICK r \in Served : r = q
      BY <2>5, Reading DEF Served, Places
  <2>7. /\ r.at = "others" /\ r.wrote \in Credentials
        /\ r.kind = thread[t].kind /\ r.who = thread[t].who /\ r.token = thread[t].token
        /\ r.found = thread[t].found /\ r.word = thread[t].word /\ r.new = thread[t].new
        /\ r.target = thread[t].target
      BY <2>5, <2>6, Reading DEF Served
  <2>8. Knows(r) /\ Owes(r) /\ Bound(r)
      BY <1>1, <2>7, Reading DEF Fits, Knows, Owes, Bound
  <2>9. PICK h \in Served : h = [r EXCEPT !.at = "write"]
    <3>1. \A y \in Served : [y EXCEPT !.at = "write"] \in Served
        BY DEF Served, Places
    <3> QED
        BY <2>6, <3>1
  <2>10. Fits(h)'
    <3>1. Fits(h)
        BY <2>7, <2>8, <2>9 DEF Fits, Knows, Owes, Bound, Changing, Stands, Served
    <3> QED
        BY <1>1, <2>4, <3>1, RowFits
  <2>11. Changing(r)'
    <3>1. SUFFICES ASSUME r.token \in Live, Readable'
                   PROVE  /\ i \in Known'
                          /\ sessions[r.token].stamp.salt < people'[i].credential.salt
        BY <1>1, <2>3, <2>7 DEF Changing, Live
    <3>2. /\ tail = "whole" /\ i \in Known
          /\ people' = [people EXCEPT ![i].credential = Fresh(n), ![i].must_change = FALSE]
        BY <2>1, <2>3, <3>1 DEF SetPassword, MaySetPassword, AppendRow, Readable
    <3>3. people[i] \in Persons
        BY <3>2, KnownPersons DEF IInv, TypeOK
    <3>4. people'[i].credential.salt = rows
        BY <3>2, <3>3 DEF Fresh, Persons, IInv, TypeOK, LedgerType
    <3>5. i \in Known'
        BY <2>4, <3>2 DEF RowKept, Moves
    <3>6. sessions[r.token].stamp.salt < rows
        BY <3>1 DEF IInv, SessionsHold, Holds
    <3> QED
        BY <3>4, <3>5, <3>6
  <2>12. Fits(r)'
    <3>1. Knows(r)' /\ Bound(r)'
        BY <1>1, <2>8 DEF Knows, Bound, Live
    <3>2. Owes(r)'
        BY <2>9, <2>10 DEF Fits, Owes, Served
    <3>3. Stands(r)'
      <4>1. SUFFICES ASSUME Readable'
                     PROVE  /\ r.wrote.salt < rows'
                            /\ i \in Known' /\ people'[i].credential = r.wrote
          BY <2>3, <2>7 DEF Stands
      <4>2. /\ tail = "whole" /\ i \in Known /\ rows' = rows + 1
            /\ people' = [people EXCEPT ![i].credential = w, ![i].must_change = FALSE]
          BY <2>1, <2>3, <4>1 DEF SetPassword, MaySetPassword, AppendRow, Readable, w
      <4>3. people[i] \in Persons
          BY <4>2, KnownPersons DEF IInv, TypeOK
      <4>4. people'[i].credential = w
          BY <4>2, <4>3 DEF Persons, IInv, TypeOK, LedgerType
      <4>5. r.wrote = w
          BY <2>5, <2>6, Reading DEF Served
      <4>6. w.salt = rows /\ rows \in Nat
          BY DEF w, Fresh, IInv, TypeOK, LedgerType
      <4>7. i \in Known'
          BY <2>4, <4>2 DEF RowKept, Moves
      <4> QED
          BY <4>2, <4>4, <4>5, <4>6, <4>7
    <3> QED
        BY <2>11, <3>1, <3>2, <3>3 DEF Fits
  <2>13. thread' = [thread EXCEPT ![t] = r]
      BY <2>2, <2>6
  <2>14. IInv'
      BY <1>1, <2>4, <2>12, <2>13, RowKeeps
  <2> QED
      BY <2>4, <2>14 DEF RowKept
<1> QED
    BY <1>2, <1>3

LEMMA Applies ==
    ASSUME IInv, NEW t \in Threads, Apply(t)
    PROVE  IInv' /\ (Admins # {} => Admins' # {})
<1>1. /\ UNCHANGED <<sessions, clock>> /\ thread[t].at = "apply"
      /\ thread[t].target \in Ids /\ thread[t].kind = "person"
    BY Reading DEF Apply, Fits, Knows
<1>2. CASE UNCHANGED accounts /\ Answer(t)
  <2>1. IInv'
      BY <1>1, <1>2, Answering
  <2> QED
      BY <1>2, <2>1 DEF accounts, Admins, Enabled, Known
<1>3. CASE ~(UNCHANGED accounts /\ Answer(t))
  <2>1. PICK j \in Ids : j = thread[t].target
      BY <1>1
  <2>2. RowKept
    <3>1. CASE \E w \in Words : SetPassword(j, w, TRUE)
        BY <3>1, InvariantLedger, SettingPassword
    <3>2. CASE DisableOperator(j)
        BY <3>2, InvariantLedger, Disabling
    <3>3. CASE EnableOperator(j)
        BY <3>3, InvariantLedger, Enabling
    <3>4. CASE \E r \in Roles : SetRole(j, r)
        BY <3>4, InvariantLedger, SettingRole
    <3>5. CASE \E e \in Emails \union {None} : SetEmail(j, e)
        BY <3>5, InvariantLedger, SettingEmail
    <3>6. CASE \E w \in Words, r \in Roles, e \in Emails \union {None} :
                   AddOperator(j, w, r, e, TRUE)
        BY <3>6, InvariantLedger, Adding
    <3> QED
        BY <1>3, <2>1, <3>1, <3>2, <3>3, <3>4, <3>5, <3>6 DEF Apply
  <2>3. \E q \in Served : Fits(q) /\ thread' = [thread EXCEPT ![t] = q]
    <3>1. CASE Answer(t)
        BY <3>1, RestFits DEF Answer
    <3>2. CASE Goto(t, "revoke")
      <4> DEFINE q == [thread[t] EXCEPT !.at = "revoke"]
      <4>1. thread' = [thread EXCEPT ![t] = q]
          BY <3>2 DEF Goto, IInv, TypeOK, ServerType
      <4>2. q \in Served
          BY Reading DEF Served, Places
      <4>3. Fits(q)
          BY <1>1, Reading DEF Served, Fits, Knows, Owes, Bound, Changing, Stands
      <4> QED
          BY <4>1, <4>2, <4>3
    <3> QED
        BY <3>1, <3>2 DEF Apply
  <2>4. \E q \in Served : Fits(q)' /\ thread' = [thread EXCEPT ![t] = q]
      BY <1>1, <2>2, <2>3, RowFits
  <2>5. IInv'
      BY <1>1, <2>2, <2>4, RowKeeps
  <2> QED
      BY <2>2, <2>5 DEF RowKept
<1> QED
    BY <1>2, <1>3

LEMMA Restarts ==
    ASSUME IInv, Restart
    PROVE  IInv'
<1>1. LedgerType' /\ LedgerDated' /\ DoorsApart'
    BY DEF IInv, TypeOK, LedgerType, LedgerDated, DoorsApart, Known, Enabled, accounts, Restart
<1>2. Live' = {} /\ ServerType'
    BY RestFits DEF Restart, Live, IInv, TypeOK, ServerType
<1>3. RequestsFit'
  <2>1. SUFFICES ASSUME NEW u \in Threads
                 PROVE  Fits(thread[u])'
      BY DEF RequestsFit
  <2>2. thread'[u] = Rest
      BY DEF Restart
  <2> QED
      BY <2>2, RequestAssumption DEF Fits, Knows, Owes, Bound, Changing, Stands, Rest, Kinds
<1> QED
    BY <1>1, <1>2, <1>3 DEF IInv, TypeOK, SessionsHold

LEMMA Stays ==
    ASSUME IInv, UNCHANGED <<accounts, sessions, thread>>, clock' = clock \/ clock' = clock + 1
    PROVE  IInv'
BY DEF IInv, TypeOK, LedgerType, ServerType, LedgerDated, DoorsApart, Known, Enabled, accounts,
       RequestsFit, SessionsHold, Live, Fits, Knows, Owes, Bound, Changing, Stands, Holds, Readable

-----------------------------------------------------------------------------
(***************************************************************************)
(* The theorems.                                                           *)
(***************************************************************************)
LEMMA AdminsStay ==
    ASSUME UNCHANGED accounts
    PROVE  Admins' = Admins
    BY DEF accounts, Admins, Enabled, Known

LEMMA Starts ==
    ASSUME ControlInit
    PROVE  IInv
<1>1. Known = {} /\ LedgerType
    BY DEF ControlInit, AccountsInit, Known, LedgerType
<1>2. LedgerDated /\ DoorsApart
    BY <1>1 DEF LedgerDated, DoorsApart
<1>3. Live = {} /\ ServerType
    BY RestFits DEF ControlInit, ServerInit, Live, ServerType
<1>4. RequestsFit
    BY RestFits DEF RequestsFit, ControlInit, ServerInit
<1> QED
    BY <1>1, <1>2, <1>3, <1>4 DEF IInv, TypeOK, SessionsHold

LEMMA Serves ==
    ASSUME IInv, NEW t \in Threads, Serve(t)
    PROVE  IInv' /\ (Admins # {} => Admins' # {})
<1>1. CASE WritePassword(t)
    BY <1>1, Writes
<1>2. CASE Apply(t)
    BY <1>2, Applies
<1>3. CASE ~WritePassword(t) /\ ~Apply(t)
  <2>1. UNCHANGED accounts
      BY <1>3 DEF Serve, Admit, EndSession, Book, ReadPerson, VerifyPassword, OpenSession,
                  EndOthers, Restamp, Revoke, BeginKey, Run, FinishKey
  <2>2. IInv'
      BY <1>3, Admits, Ends, Books, Reads, Verifies, Opens, EndsOthers, Restamps, Revokes, Keyed
         DEF Serve
  <2> QED
      BY <2>1, <2>2, AdminsStay
<1> QED
    BY <1>1, <1>2, <1>3

LEMMA Steps ==
    ASSUME IInv, [ControlNext]_control
    PROVE  IInv' /\ (Admins # {} => Admins' # {})
<1>1. ASSUME NEW t \in Threads, Arrive(t, Kinds, Ids)
      PROVE  IInv' /\ (Admins # {} => Admins' # {})
  <2>1. UNCHANGED accounts
      BY <1>1 DEF Arrive
  <2> QED
      BY <1>1, <2>1, Arrives, AdminsStay
<1>2. CASE AccountsNext /\ UNCHANGED <<server, clock, ran, forgotten>>
  <2>1. RowKept
      BY <1>2, InvariantLedger, LedgerKept
  <2>2. UNCHANGED <<sessions, clock>> /\ thread' = thread
      BY <1>2 DEF server
  <2>3. IInv'
      BY <2>1, <2>2, RowKeeps
  <2> QED
      BY <2>1, <2>3 DEF RowKept
<1>3. CASE Tick
  <2>1. UNCHANGED <<accounts, sessions, thread>> /\ clock' = clock + 1
      BY <1>3 DEF Tick, server
  <2> QED
      BY <2>1, Stays, AdminsStay
<1>4. CASE Restart
  <2>1. UNCHANGED accounts
      BY <1>4 DEF Restart
  <2> QED
      BY <1>4, <2>1, Restarts, AdminsStay
<1>5. CASE UNCHANGED control
  <2>1. UNCHANGED <<accounts, sessions, thread, clock>>
      BY <1>5 DEF control, server
  <2> QED
      BY <2>1, Stays, AdminsStay
<1> QED
    BY <1>1, <1>2, <1>3, <1>4, <1>5, Serves DEF ControlNext

\* The invariant holds, of any number of requests served at once beside the command line.
THEOREM Invariant == ControlSpec => []IInv
<1>1. ControlInit => IInv
    BY Starts
<1>2. IInv /\ [ControlNext]_control => IInv'
    BY Steps
<1> QED
    BY <1>1, <1>2, PTL DEF ControlSpec

\* The people, the sessions and the requests keep their types: a request never acts for nobody,
\* and a session never lacks its person.
THEOREM TypeCorrect == ControlSpec => []TypeOK
<1>1. IInv => TypeOK
    BY DEF IInv
<1> QED
    BY <1>1, Invariant, PTL

\* However the server's threads and the command line interleave over the ledger, two people who
\* may sign in never share an address, nor any two a Google account.
THEOREM DoorsStayApart == ControlSpec => []DoorsApart
<1>1. IInv => DoorsApart
    BY DEF IInv
<1> QED
    BY <1>1, Invariant, PTL

\* No order of requests and commands leaves the instance without an administrator who could
\* bring one back.
THEOREM AdminStays == ControlSpec => AdminRemains
<1>1. IInv /\ [ControlNext]_control => [Admins # {} => Admins' # {}]_accounts
    BY Steps
<1> QED
    BY <1>1, Invariant, PTL DEF ControlSpec, AdminRemains

\* Until its holder sets a password in it, a session never answers for one its holder has not
\* shown, nor forgets that a new one is owed, whatever moved in the ledger between the reading,
\* the verification and the opening; and the restamping after that never leaves it on a
\* credential older than the one the holder wrote, whatever rows came in between.
THEOREM SessionsCarryProof == ControlSpec => []LoginCarriesProof
<1>1. IInv => LoginCarriesProof
    BY LiveSessions DEF IInv, TypeOK, SessionsHold, Holds, LoginCarriesProof, Accepted, Enabled, Stamp
<1> QED
    BY <1>1, Invariant, PTL

\* The same of the ledger by itself, under any rules by any writers.
THEOREM LedgerDoors == AccountsSpec => []DoorsApart /\ AdminRemains
<1>1. AccountsInit => Ledger
    BY DEF AccountsInit, Ledger, LedgerType, LedgerDated, DoorsApart, Known
<1>2. Ledger /\ [AccountsNext]_accounts => Ledger' /\ [Admins # {} => Admins' # {}]_accounts
  <2>1. ASSUME Ledger, AccountsNext
        PROVE  Ledger' /\ (Admins # {} => Admins' # {})
      BY <2>1, LedgerKept DEF RowKept
  <2>2. ASSUME Ledger, UNCHANGED accounts
        PROVE  Ledger'
      BY <2>2 DEF accounts, Ledger, LedgerType, LedgerDated, DoorsApart, Known, Enabled
  <2> QED
      BY <2>1, <2>2
<1>3. Ledger => DoorsApart
    BY DEF Ledger
<1> QED
    BY <1>1, <1>2, <1>3, PTL DEF AccountsSpec, AdminRemains

-----------------------------------------------------------------------------
(***************************************************************************)
(* The idempotency keys: a key that was never dropped is held as long as   *)
(* its request runs, so no other request runs under it.                    *)
(***************************************************************************)
Entries == [who: Ids, key: Keys, request: Requests, at: Nat, result: Requests \union {None}]

Under(i, key) == {e \in Range(held) : e.who = i /\ e.key = key}

Posting(q) ==
    /\ q.kind = "post" => q.key \in Keys /\ q.request \in Requests
    /\ q.at \in {"begin", "run", "finish", "refused"} => q.kind = "post"

\* The request is at work under i's key.
Working(q, i, key) == q.at \in {"run", "finish", "refused"} /\ q.who = i /\ q.key = key

StandsFor(r, i, key) == Under(i, key) # {} /\ \A e \in Under(i, key) : e.request = r

KeyHolds(i, key) ==
    /\ \A t, u \in Threads : Working(thread[t], i, key) /\ Working(thread[u], i, key) => t = u
    /\ \A t \in Threads : Working(thread[t], i, key) =>
          /\ StandsFor(thread[t].request, i, key)
          /\ ran[<<i, key>>] = IF thread[t].at = "finish" THEN 1 ELSE 0
    /\ ran[<<i, key>>] \in {0, 1}
    /\ ran[<<i, key>>] = 1 => Under(i, key) # {}
    /\ \A e \in Under(i, key) : e.result \in {None, e.request}

KeysType ==
    /\ held \in Seq(Entries)
    /\ ran \in [Ids \X Keys -> Nat]
    /\ \A t \in Threads : Posting(thread[t])

KeyInv == KeysType /\ \A i \in Ids, key \in Keys : <<i, key>> \notin forgotten => KeyHolds(i, key)

\* A piece of a sequence holds nothing the sequence does not.
LEMMA Piece ==
    ASSUME NEW S, NEW s \in Seq(S), NEW a \in Nat \ {0}, NEW b \in 0..Len(s)
    PROVE  SubSeq(s, a, b) \in Seq(S) /\ Range(SubSeq(s, a, b)) \subseteq Range(s)
<1>1. PICK n \in Nat : n = Len(s) /\ b \in 0..n /\ DOMAIN s = 1..n
    OBVIOUS
<1>2. CASE a <= b
  <2>1. \A k \in a..b : s[k] \in S
      BY <1>1, <1>2
  <2>2. /\ SubSeq(s, a, b) \in Seq(S) /\ Len(SubSeq(s, a, b)) = b - a + 1
        /\ \A k \in 1..(b - a + 1) : SubSeq(s, a, b)[k] = s[a + k - 1]
      BY <1>1, <1>2, <2>1, SubSeqProperties
  <2>3. \A k \in 1..(b - a + 1) : a + k - 1 \in 1..n
      BY <1>1, <1>2
  <2> QED
      BY <1>1, <2>2, <2>3 DEF Range
<1>3. CASE ~(a <= b)
  <2>1. SubSeq(s, a, b) = <<>>
      BY <1>1, <1>3, SubSeqEmpty
  <2> QED
      BY <2>1 DEF Range
<1> QED
    BY <1>2, <1>3

\* Without one of its places a sequence holds all it held in the others.
LEMMA OneRemoved ==
    ASSUME NEW S, NEW s \in Seq(S), NEW m \in 1..Len(s)
    PROVE  /\ RemoveAt(s, m) \in Seq(S)
           /\ Range(RemoveAt(s, m)) \subseteq Range(s)
           /\ \A e \in Range(s) : e # s[m] => e \in Range(RemoveAt(s, m))
<1>1. PICK n \in Nat : n = Len(s) /\ m \in 1..n /\ DOMAIN s = 1..n
    OBVIOUS
<1> DEFINE front == SubSeq(s, 1, m - 1)
           back  == SubSeq(s, m + 1, n)
<1>2. /\ front \in Seq(S) /\ Range(front) \subseteq Range(s) /\ Len(front) = m - 1
      /\ \A k \in 1..(m - 1) : front[k] = s[k]
  <2>1. \A k \in 1..(m - 1) : s[k] \in S
      BY <1>1
  <2>2. m - 1 \in 0..n
      BY <1>1
  <2> QED
      BY <1>1, <2>1, <2>2, Piece, SubSeqProperties
<1>3. /\ back \in Seq(S) /\ Range(back) \subseteq Range(s) /\ Len(back) = n - m
      /\ \A k \in 1..(n - m) : back[k] = s[m + k]
  <2>1. \A k \in (m + 1)..n : s[k] \in S
      BY <1>1
  <2>2. m + 1 \in Nat \ {0} /\ n \in 0..n
      BY <1>1
  <2> QED
      BY <1>1, <2>1, <2>2, Piece, SubSeqProperties
<1>4. RemoveAt(s, m) = front \o back
    BY <1>1 DEF RemoveAt
<1> HIDE DEF front, back
<1>5. PICK r \in Seq(S) : r = front \o back
    BY <1>2, <1>3, ConcatProperties
<1>6. /\ Len(r) = n - 1
      /\ \A k \in 1..(n - 1) : r[k] = IF k <= m - 1 THEN s[k] ELSE s[k + 1]
  <2>1. /\ Len(r) = (m - 1) + (n - m)
        /\ \A k \in 1..((m - 1) + (n - m)) :
              r[k] = IF k <= m - 1 THEN front[k] ELSE back[k - (m - 1)]
    <3>1. /\ Len(front \o back) = Len(front) + Len(back)
          /\ \A k \in 1..(Len(front) + Len(back)) :
                (front \o back)[k] = IF k <= Len(front) THEN front[k] ELSE back[k - Len(front)]
        BY <1>2, <1>3, ConcatProperties
    <3>2. Len(front) = m - 1 /\ Len(back) = n - m
        BY <1>2, <1>3
    <3> QED
        BY ONLY <1>5, <3>1, <3>2
  <2>2. (m - 1) + (n - m) = n - 1
      BY <1>1
  <2>3. \A k \in 1..(n - 1) : k > m - 1 => k - (m - 1) \in 1..(n - m) /\ m + (k - (m - 1)) = k + 1
      BY <1>1
  <2>4. \A k \in 1..(n - 1) : k <= m - 1 => k \in 1..(m - 1)
      BY <1>1
  <2>5. ASSUME NEW k \in 1..(n - 1)
        PROVE  r[k] = IF k <= m - 1 THEN s[k] ELSE s[k + 1]
    <3>1. CASE k <= m - 1
        BY <1>2, <2>1, <2>2, <2>4, <3>1
    <3>2. CASE ~(k <= m - 1)
      <4>1. k > m - 1
          BY <1>1, <3>2
      <4>2. k - (m - 1) \in 1..(n - m) /\ m + (k - (m - 1)) = k + 1
          BY <2>3, <4>1
      <4>3. r[k] = back[k - (m - 1)]
          BY <2>1, <2>2, <3>2
      <4>4. back[k - (m - 1)] = s[m + (k - (m - 1))]
          BY ONLY <1>3, <4>2
      <4> QED
          BY ONLY <3>2, <4>2, <4>3, <4>4
    <3> QED
        BY <3>1, <3>2
  <2> QED
      BY <2>1, <2>2, <2>5
<1>7. DOMAIN r = 1..(n - 1)
    BY <1>5, <1>6
<1>8. \A k \in 1..(n - 1) : r[k] \in Range(s)
  <2>1. \A k \in 1..(n - 1) : k \in 1..n /\ k + 1 \in 1..n
      BY <1>1
  <2> QED
      BY <1>1, <1>6, <2>1 DEF Range
<1>9. ASSUME NEW k \in 1..n, k # m
      PROVE  \E j \in 1..(n - 1) : r[j] = s[k]
  <2>1. CASE k <= m - 1
    <3>1. k \in 1..(n - 1)
        BY <1>1, <2>1
    <3> QED
        BY <1>6, <2>1, <3>1
  <2>2. CASE ~(k <= m - 1)
    <3>1. k - 1 \in 1..(n - 1) /\ ~(k - 1 <= m - 1) /\ (k - 1) + 1 = k
        BY <1>1, <1>9, <2>2
    <3>2. r[k - 1] = s[(k - 1) + 1]
        BY <1>6, <3>1
    <3> QED
        BY ONLY <3>1, <3>2
  <2> QED
      BY <2>1, <2>2
<1>10. Range(r) \subseteq Range(s) /\ \A e \in Range(s) : e # s[m] => e \in Range(r)
  <2>1. Range(r) \subseteq Range(s)
      BY <1>7, <1>8 DEF Range
  <2>2. ASSUME NEW e \in Range(s), e # s[m]
        PROVE  e \in Range(r)
    <3>1. PICK k \in 1..n : k # m /\ e = s[k]
        BY <1>1, <2>2 DEF Range
    <3>2. PICK j \in 1..(n - 1) : r[j] = e
        BY <1>9, <3>1
    <3> QED
        BY <1>7, <3>2 DEF Range
  <2> QED
      BY <2>1, <2>2
<1> QED
    BY <1>4, <1>5, <1>10

\* What is left when the old ones go, and when room is made, was held before.
LEMMA Fewer ==
    ASSUME NEW s \in Seq(Entries)
    PROVE  /\ Fresher(s) \in Seq(Entries) /\ Range(Fresher(s)) \subseteq Range(s)
           /\ Evicted(s) \in Seq(Entries) /\ Range(Evicted(s)) \subseteq Range(s)
<1>1. PICK n \in Nat : n = Len(s)
    OBVIOUS
<1>2. Fresher(s) \in Seq(Entries) /\ Range(Fresher(s)) \subseteq Range(s)
  <2> DEFINE old == {k \in 1..Len(s) : s[k].at + Kept <= clock}
  <2>1. Cardinality(old) \in Nat
    <3>1. IsFiniteSet(1..n) /\ old \subseteq 1..n
        BY <1>1, FS_Interval
    <3> HIDE DEF old
    <3> QED
        BY <3>1, FS_Subset, FS_CardinalityType
  <2>2. Cardinality(old) + 1 \in Nat \ {0} /\ n \in 0..n
      BY <2>1
  <2> QED
      BY <1>1, <2>2, Piece DEF Fresher
<1>3. Evicted(s) \in Seq(Entries) /\ Range(Evicted(s)) \subseteq Range(s)
  <2>1. PICK h \in Nat : h = HeldLimit - 1
      BY SpanAssumption
  <2>2. Min({n, h}) \in {n, h} /\ Min({n, h}) <= n
    <3>1. \E x \in {n, h} : \A y \in {n, h} : x <= y
      <4>1. CASE n <= h
          BY <4>1
      <4>2. CASE ~(n <= h)
          BY <4>2
      <4> QED
          BY <4>1, <4>2
    <3> QED
        BY <3>1 DEF Min
  <2>3. PICK j \in Nat : j = Min({n, h}) /\ j <= n
      BY <2>2
  <2>4. n - j + 1 \in Nat \ {0} /\ n \in 0..n
      BY <2>3
  <2> QED
      BY <1>1, <2>1, <2>3, <2>4, Piece DEF Evicted
<1> QED
    BY <1>2, <1>3

LEMMA KeyRange ==
    ASSUME NEW s \in Seq(Entries), NEW i, NEW key
    PROVE  /\ <<i, key>> \in KeysOf(s) <=> \E e \in Range(s) : e.who = i /\ e.key = key
           /\ Found(s, i, key) # {} <=> \E e \in Range(s) : e.who = i /\ e.key = key
BY DEF KeysOf, Found, Range

\* Nobody starts to work under the key, and it stays held if it was.
LEMMA KeyStays ==
    ASSUME NEW i, NEW key, KeyHolds(i, key), ran'[<<i, key>>] = ran[<<i, key>>],
           Under(i, key)' \subseteq Under(i, key), Under(i, key) # {} => Under(i, key)' # {},
           \A t \in Threads : thread'[t] = thread[t] \/ ~Working(thread'[t], i, key)
    PROVE  KeyHolds(i, key)'
<1>1. \A t \in Threads : Working(thread'[t], i, key) =>
          Working(thread[t], i, key) /\ thread'[t] = thread[t]
    OBVIOUS
<1>2. \A t, u \in Threads : Working(thread'[t], i, key) /\ Working(thread'[u], i, key) => t = u
    BY <1>1 DEF KeyHolds
<1>3. \A t \in Threads : Working(thread'[t], i, key) =>
          /\ StandsFor(thread[t].request, i, key)'
          /\ ran'[<<i, key>>] = IF thread'[t].at = "finish" THEN 1 ELSE 0
    BY <1>1 DEF KeyHolds, StandsFor
<1> QED
    BY <1>2, <1>3 DEF KeyHolds

\* Steps that start no work under a key, and drop none but those they forget.
LEMMA KeysRest ==
    ASSUME KeyInv, held' \in Seq(Entries), Range(held') \subseteq Range(held), ran' = ran,
           forgotten \subseteq forgotten', KeysOf(held) \ KeysOf(held') \subseteq forgotten',
           \A t \in Threads : thread'[t] = thread[t] \/
               (thread'[t].at \notin {"run", "finish", "refused"} /\ Posting(thread'[t]))
    PROVE  KeyInv'
<1>1. KeysType'
    BY DEF KeyInv, KeysType
<1>2. ASSUME NEW i \in Ids, NEW key \in Keys, <<i, key>> \notin forgotten'
      PROVE  KeyHolds(i, key)'
  <2>1. KeyHolds(i, key)
      BY <1>2 DEF KeyInv
  <2>2. Under(i, key)' \subseteq Under(i, key)
      BY DEF Under
  <2>3. Under(i, key) # {} => Under(i, key)' # {}
      BY <1>2, KeyRange DEF Under, KeyInv, KeysType
  <2>4. \A t \in Threads : thread'[t] = thread[t] \/ ~Working(thread'[t], i, key)
      BY DEF Working
  <2> QED
      BY <2>1, <2>2, <2>3, <2>4, KeyStays
<1> QED
    BY <1>1, <1>2 DEF KeyInv

LEMMA KeysSame ==
    ASSUME KeyInv, UNCHANGED <<held, ran, forgotten>>,
           \A t \in Threads : thread'[t] = thread[t] \/
               (thread'[t].at \notin {"run", "finish", "refused"} /\ Posting(thread'[t]))
    PROVE  KeyInv'
<1>1. held' \in Seq(Entries) /\ Range(held') \subseteq Range(held)
      /\ KeysOf(held) \ KeysOf(held') \subseteq forgotten'
    BY DEF KeyInv, KeysType
<1> QED
    BY <1>1, KeysRest

LEMMA RestPosts == Posting(Rest) /\ Rest.at = "rest"
    BY RequestAssumption DEF Posting, Rest, Kinds

\* A thread that goes on elsewhere.
LEMMA ElsewhereMoves ==
    ASSUME IInv, KeyInv, NEW t \in Threads, NEW q, thread' = [thread EXCEPT ![t] = q],
           q.at \notin {"run", "finish", "refused"}, Posting(q), UNCHANGED <<held, ran, forgotten>>
    PROVE  KeyInv'
<1>1. \A u \in Threads : thread'[u] = thread[u] \/ thread'[u] = q
    BY DEF IInv, TypeOK, ServerType
<1> QED
    BY <1>1, KeysSame

LEMMA ElsewhereAnswers ==
    ASSUME IInv, KeyInv, NEW t \in Threads, Answer(t), UNCHANGED <<held, ran, forgotten>>
    PROVE  KeyInv'
BY RestPosts, ElsewhereMoves DEF Answer

LEMMA ElsewhereGoes ==
    ASSUME IInv, KeyInv, NEW t \in Threads, NEW at, Goto(t, at),
           at \notin {"begin", "run", "finish", "refused"}, UNCHANGED <<held, ran, forgotten>>
    PROVE  KeyInv'
<1> DEFINE q == [thread[t] EXCEPT !.at = at]
<1>1. thread' = [thread EXCEPT ![t] = q]
    BY DEF Goto, IInv, TypeOK, ServerType
<1>2. q.at = at /\ Posting(q)
    BY Reading DEF Served, KeyInv, KeysType, Posting
<1> HIDE DEF q
<1> QED
    BY <1>1, <1>2, ElsewhereMoves

LEMMA KeysArrive ==
    ASSUME IInv, KeyInv, NEW t \in Threads, Arrive(t, Kinds, Ids)
    PROVE  KeyInv'
<1>1. UNCHANGED <<held, ran, forgotten>>
    BY DEF Arrive
<1>2. \E q : Posting(q) /\ q.at \in {"book", "admit"} /\ thread' = [thread EXCEPT ![t] = q]
  <2>1. CASE \E i \in Ids, w \in Words :
                thread' = [thread EXCEPT ![t] =
                    [Rest EXCEPT !.at = "book", !.kind = "login", !.who = i, !.word = w]]
      BY <2>1 DEF Posting, Rest
  <2>2. CASE \E kind \in {"logout", "others"}, k \in Live :
                thread' = [thread EXCEPT ![t] = Carrying(kind, k)]
      BY <2>2 DEF Posting, Rest, Carrying
  <2>3. CASE \E k \in Live, w, n \in Words :
                thread' = [thread EXCEPT ![t] =
                    [Carrying("password", k) EXCEPT !.word = w, !.new = n]]
      BY <2>3 DEF Posting, Rest, Carrying
  <2>4. CASE \E k \in Live, w \in Words, j \in Ids :
                thread' = [thread EXCEPT ![t] =
                    [Carrying("person", k) EXCEPT !.word = w, !.target = j]]
      BY <2>4 DEF Posting, Rest, Carrying
  <2>5. CASE \E k \in Live, key \in Keys, r \in Requests :
                thread' = [thread EXCEPT ![t] =
                    [Carrying("post", k) EXCEPT !.key = key, !.request = r]]
      BY <2>5 DEF Posting, Rest, Carrying
  <2>6. PICK kind \in Kinds :
          \/ /\ kind = "login"
             /\ \E i \in Ids, w \in Words :
                    thread' = [thread EXCEPT ![t] =
                        [Rest EXCEPT !.at = "book", !.kind = kind, !.who = i, !.word = w]]
          \/ /\ kind \in {"logout", "others"}
             /\ \E k \in Live :
                    thread' = [thread EXCEPT ![t] = Carrying(kind, k)]
          \/ /\ kind = "password"
             /\ \E k \in Live, w, n \in Words :
                    /\ n # w
                    /\ thread' = [thread EXCEPT ![t] =
                           [Carrying(kind, k) EXCEPT !.word = w, !.new = n]]
          \/ /\ kind = "person"
             /\ \E k \in Live, w \in Words, j \in Ids :
                    thread' = [thread EXCEPT ![t] =
                        [Carrying(kind, k) EXCEPT !.word = w, !.target = j]]
          \/ /\ kind = "post"
             /\ \E k \in Live, key \in Keys, r \in Requests :
                    thread' = [thread EXCEPT ![t] =
                        [Carrying(kind, k) EXCEPT !.key = key, !.request = r]]
      BY ONLY Arrive(t, Kinds, Ids) DEF Arrive
  <2>7. kind = "login" => \E i \in Ids, w \in Words :
                thread' = [thread EXCEPT ![t] =
                    [Rest EXCEPT !.at = "book", !.kind = "login", !.who = i, !.word = w]]
      BY <2>6
  <2>8. kind = "password" => \E k \in Live, w, n \in Words :
                thread' = [thread EXCEPT ![t] =
                    [Carrying("password", k) EXCEPT !.word = w, !.new = n]]
      BY <2>6
  <2>9. kind = "person" => \E k \in Live, w \in Words, j \in Ids :
                thread' = [thread EXCEPT ![t] =
                    [Carrying("person", k) EXCEPT !.word = w, !.target = j]]
      BY <2>6
  <2>10. kind = "post" => \E k \in Live, key \in Keys, r \in Requests :
                thread' = [thread EXCEPT ![t] =
                    [Carrying("post", k) EXCEPT !.key = key, !.request = r]]
      BY <2>6
  <2>11. kind \in {"logout", "others"} => \E k \in Live :
                thread' = [thread EXCEPT ![t] = Carrying(kind, k)]
      BY <2>6
  <2> QED
      BY <2>1, <2>2, <2>3, <2>4, <2>5, <2>7, <2>8, <2>9, <2>10, <2>11 DEF Kinds
<1> QED
    BY <1>1, <1>2, ElsewhereMoves

LEMMA KeysAdmit ==
    ASSUME IInv, KeyInv, NEW t \in Threads, Admit(t)
    PROVE  KeyInv'
<1>1. UNCHANGED <<held, ran, forgotten>>
    BY DEF Admit
<1>2. CASE Answer(t)
    BY <1>1, <1>2, ElsewhereAnswers
<1>3. CASE ~Answer(t)
  <2> DEFINE at == CASE thread[t].kind \in {"password", "person"} -> "book"
                     [] thread[t].kind = "post" -> "begin"
                     [] OTHER -> "end"
             i == sessions[thread[t].token].who
             q == [thread[t] EXCEPT !.who = i, !.at = at]
  <2>1. thread' = [thread EXCEPT ![t].who = i, ![t].at = at]
      BY <1>3 DEF Admit
  <2>2. thread' = [thread EXCEPT ![t] = q]
      BY <2>1 DEF IInv, TypeOK, ServerType
  <2>3. at \in {"book", "begin", "end"} /\ (at = "begin" => thread[t].kind = "post")
      OBVIOUS
  <2> HIDE DEF at, i
  <2>4. q.at = at /\ Posting(q)
      BY <2>3, Reading DEF Served, KeyInv, KeysType, Posting
  <2> HIDE DEF q
  <2> QED
      BY <1>1, <2>2, <2>3, <2>4, ElsewhereMoves
<1> QED
    BY <1>2, <1>3

\* Every step of a request but those under a key.
LEMMA KeysElsewhere ==
    ASSUME IInv, KeyInv, NEW t \in Threads, Serve(t), ~(BeginKey(t) \/ Run(t) \/ FinishKey(t))
    PROVE  KeyInv'
<1>1. CASE Admit(t)
    BY <1>1, KeysAdmit
<1>2. CASE ~Admit(t)
  <2>1. UNCHANGED <<held, ran, forgotten>>
      BY <1>2 DEF Serve, EndSession, Book, ReadPerson, VerifyPassword, OpenSession, WritePassword,
                  EndOthers, Restamp, Apply, Revoke
  <2>2. CASE Answer(t)
      BY <2>1, <2>2, ElsewhereAnswers
  <2>3. CASE ReadPerson(t) /\ ~Answer(t)
    <3> DEFINE found == IF thread[t].who \in Enabled THEN people[thread[t].who] ELSE Nobody
               q == [thread[t] EXCEPT !.at = "verify", !.found = found]
    <3>1. thread' = [thread EXCEPT ![t] = q]
        BY <2>3 DEF ReadPerson, IInv, TypeOK, ServerType
    <3> HIDE DEF found
    <3>2. q.at = "verify" /\ Posting(q)
        BY Reading DEF Served, KeyInv, KeysType, Posting
    <3> HIDE DEF q
    <3> QED
        BY <2>1, <3>1, <3>2, ElsewhereMoves
  <2>4. CASE WritePassword(t) /\ ~Answer(t)
    <3> DEFINE wrote == Fresh(thread[t].new)
               q == [thread[t] EXCEPT !.at = "others", !.wrote = wrote]
    <3>1. thread' = [thread EXCEPT ![t] = q]
        BY <2>4 DEF WritePassword, IInv, TypeOK, ServerType
    <3> HIDE DEF wrote
    <3>2. q.at = "others" /\ Posting(q)
        BY Reading DEF Served, KeyInv, KeysType, Posting
    <3> HIDE DEF q
    <3> QED
        BY <2>1, <3>1, <3>2, ElsewhereMoves
  <2>5. CASE ~Answer(t) /\ ~ReadPerson(t) /\ ~WritePassword(t)
    <3>1. \E at \in {"read", "open", "write", "apply", "restamp", "revoke"} : Goto(t, at)
        BY <1>2, <2>5 DEF Serve, EndSession, Book, VerifyPassword, OpenSession,
                    EndOthers, Restamp, Apply, Revoke
    <3> QED
        BY <2>1, <3>1, ElsewhereGoes
  <2> QED
      BY <2>2, <2>3, <2>4, <2>5
<1> QED
    BY <1>1, <1>2

\* The step drops no other key, and starts nothing under it.
OthersStay(i, key) ==
    \A j \in Ids, k \in Keys : <<j, k>> # <<i, key>> /\ <<j, k>> \notin forgotten' =>
        /\ ran'[<<j, k>>] = ran[<<j, k>>]
        /\ Under(j, k)' \subseteq Under(j, k)
        /\ Under(j, k) # {} => Under(j, k)' # {}

Settles(i, key) == <<i, key>> \notin forgotten' => KeyHolds(i, key)'

\* A step under a key of one thread: it can touch no other key.
LEMMA OneKey ==
    ASSUME IInv, KeyInv, NEW t \in Threads, NEW q, thread' = [thread EXCEPT ![t] = q], Posting(q),
           NEW i \in Ids, NEW key \in Keys,
           q.at \in {"run", "finish", "refused"} => q.who = i /\ q.key = key,
           held' \in Seq(Entries), ran' \in [Ids \X Keys -> Nat], forgotten \subseteq forgotten',
           OthersStay(i, key), Settles(i, key)
    PROVE  KeyInv'
<1>1. thread'[t] = q /\ \A u \in Threads : u # t => thread'[u] = thread[u]
    BY DEF IInv, TypeOK, ServerType
<1>2. KeysType'
    BY <1>1 DEF KeyInv, KeysType
<1>3. ASSUME NEW j \in Ids, NEW k \in Keys, <<j, k>> \notin forgotten', <<j, k>> # <<i, key>>
      PROVE  KeyHolds(j, k)'
  <2>1. KeyHolds(j, k)
      BY <1>3 DEF KeyInv
  <2>2. ~Working(thread'[t], j, k)
      BY <1>1, <1>3 DEF Working
  <2> QED
      BY <1>1, <1>3, <2>1, <2>2, KeyStays DEF OthersStay
<1> QED
    BY <1>2, <1>3 DEF KeyInv, Settles

\* Who works under a key, and what it knows.
LEMMA AtWork ==
    ASSUME IInv, KeyInv, NEW t \in Threads, thread[t].at \in {"begin", "run", "finish", "refused"}
    PROVE  /\ thread[t].who \in Ids /\ thread[t].key \in Keys /\ thread[t].request \in Requests
           /\ thread[t].kind = "post"
BY Reading DEF Fits, Knows, KeyInv, KeysType, Posting

LEMMA KeysRun ==
    ASSUME IInv, KeyInv, NEW t \in Threads, Run(t)
    PROVE  KeyInv'
<1>1. /\ thread[t].at = "run" /\ UNCHANGED held
      /\ \/ Goto(t, "refused") /\ ran' = ran /\ forgotten' = forgotten
         \/ /\ Goto(t, "finish") /\ forgotten' = forgotten
            /\ ran' = [ran EXCEPT ![<<thread[t].who, thread[t].key>>] = Min({2, @ + 1})]
         \/ /\ Goto(t, "refused")
            /\ forgotten' = forgotten \union {<<thread[t].who, thread[t].key>>}
            /\ ran' = [ran EXCEPT ![<<thread[t].who, thread[t].key>>] = Min({2, @ + 1})]
    BY DEF Run
<1>2. PICK i \in Ids, key \in Keys : i = thread[t].who /\ key = thread[t].key
    BY <1>1, AtWork
<1>3. PICK at \in {"refused", "finish"} :
          /\ Goto(t, at)
          /\ \/ ran' = ran /\ at = "refused"
             \/ /\ ran' = [ran EXCEPT ![<<i, key>>] = Min({2, @ + 1})]
                /\ at = "finish" \/ <<i, key>> \in forgotten'
          /\ forgotten \subseteq forgotten'
    BY <1>1, <1>2
<1>11. PICK q : q = [thread[t] EXCEPT !.at = at]
    OBVIOUS
<1>4. thread' = [thread EXCEPT ![t] = q]
    BY <1>3, <1>11 DEF Goto, IInv, TypeOK, ServerType
<1>5. /\ q.at = at /\ q.who = i /\ q.key = key /\ q.request = thread[t].request
      /\ Posting(q)
    BY <1>1, <1>2, <1>11, Reading DEF Served, KeyInv, KeysType, Posting
<1>6. thread'[t] = q /\ \A u \in Threads : u # t => thread'[u] = thread[u]
    BY <1>4 DEF IInv, TypeOK, ServerType
<1>7. /\ ran' \in [Ids \X Keys -> Nat]
      /\ \A p \in Ids \X Keys : p # <<i, key>> => ran'[p] = ran[p]
      /\ ran[<<i, key>>] = 0 /\ <<i, key>> \notin forgotten'
            => ran'[<<i, key>>] = IF at = "finish" THEN 1 ELSE 0
  <2>1. PICK x \in Nat : x = ran[<<i, key>>]
      BY DEF KeyInv, KeysType
  <2>2. Min({2, x + 1}) \in Nat /\ (x = 0 => Min({2, x + 1}) = 1)
    <3>1. Min({2, x + 1}) \in {2, x + 1} /\ \A y \in {2, x + 1} : Min({2, x + 1}) <= y
      <4>1. \E z \in {2, x + 1} : \A y \in {2, x + 1} : z <= y
        <5>1. CASE 2 <= x + 1
            BY <5>1
        <5>2. CASE ~(2 <= x + 1)
            BY <5>2
        <5> QED
            BY <5>1, <5>2
      <4> QED
          BY <4>1 DEF Min
    <3> QED
        BY <3>1
  <2> QED
      BY <1>3, <2>1, <2>2 DEF KeyInv, KeysType
<1>8. \A j \in Ids, k \in Keys : Under(j, k)' = Under(j, k)
    BY <1>1 DEF Under
<1>9. ASSUME <<i, key>> \notin forgotten'
      PROVE  KeyHolds(i, key)'
  <2>1. KeyHolds(i, key) /\ Working(thread[t], i, key)
      BY <1>1, <1>2, <1>3, <1>9 DEF KeyInv, Working
  <2>2. StandsFor(q.request, i, key)' /\ ran[<<i, key>>] = 0
      BY <1>1, <1>5, <1>8, <2>1 DEF KeyHolds, StandsFor
  <2>3. \A u \in Threads : Working(thread'[u], i, key) => u = t
      BY <1>6, <2>1 DEF KeyHolds
  <2>4. ran'[<<i, key>>] = IF at = "finish" THEN 1 ELSE 0
      BY <1>7, <1>9, <2>2
  <2>5. Under(i, key)' # {} /\ \A e \in Under(i, key)' : e.result \in {None, e.request}
      BY <1>8, <2>1, <2>2 DEF KeyHolds, StandsFor
  <2>6. \A u \in Threads : Working(thread'[u], i, key) =>
            /\ StandsFor(thread[u].request, i, key)'
            /\ ran'[<<i, key>>] = IF thread'[u].at = "finish" THEN 1 ELSE 0
      BY <1>5, <1>6, <2>2, <2>3, <2>4 DEF StandsFor
  <2> QED
      BY <2>3, <2>4, <2>5, <2>6 DEF KeyHolds
<1>10. held' \in Seq(Entries) /\ forgotten \subseteq forgotten'
    BY <1>1, <1>3 DEF KeyInv, KeysType
<1>12. OthersStay(i, key) /\ Settles(i, key)
    BY <1>7, <1>8, <1>9 DEF OthersStay, Settles
<1> QED
    BY <1>2, <1>4, <1>5, <1>7, <1>10, <1>12, OneKey

LEMMA KeysBegin ==
    ASSUME IInv, KeyInv, NEW t \in Threads, BeginKey(t)
    PROVE  KeyInv'
<1>1. thread[t].at = "begin" /\ ran' = ran /\ held \in Seq(Entries)
    BY DEF BeginKey, KeyInv, KeysType
<1>2. PICK i \in Ids, key \in Keys, r \in Requests :
          i = thread[t].who /\ key = thread[t].key /\ r = thread[t].request
    BY <1>1, AtWork
<1>7. PICK made : made = [who |-> i, key |-> key, request |-> r, at |-> clock, result |-> None]
    OBVIOUS
<1>3. PICK kept \in Seq(Entries), room \in Seq(Entries) :
          /\ kept = Fresher(held) /\ room = Evicted(kept)
          /\ Range(kept) \subseteq Range(held) /\ Range(room) \subseteq Range(kept)
    BY <1>1, Fewer
<1>4. \/ /\ held' = kept /\ Answer(t)
         /\ forgotten' = forgotten \union (KeysOf(held) \ KeysOf(kept))
      \/ /\ Found(kept, i, key) = {} /\ held' = Append(room, made) /\ Goto(t, "run")
         /\ forgotten' = forgotten \union (KeysOf(held) \ KeysOf(room))
    BY <1>2, <1>3, <1>7 DEF BeginKey
<1>5. CASE /\ held' = kept /\ Answer(t)
           /\ forgotten' = forgotten \union (KeysOf(held) \ KeysOf(kept))
  <2>1. \A u \in Threads : thread'[u] = thread[u] \/ thread'[u] = Rest
      BY <1>5 DEF Answer, IInv, TypeOK, ServerType
  <2>2. \A u \in Threads : thread'[u] = thread[u] \/
            (thread'[u].at \notin {"run", "finish", "refused"} /\ Posting(thread'[u]))
      BY <2>1, RestPosts
  <2> QED
      BY <1>1, <1>3, <1>5, <2>2, KeysRest
<1>6. CASE /\ Found(kept, i, key) = {} /\ held' = Append(room, made) /\ Goto(t, "run")
           /\ forgotten' = forgotten \union (KeysOf(held) \ KeysOf(room))
  <2>1. PICK q : q = [thread[t] EXCEPT !.at = "run"]
      OBVIOUS
  <2>2. thread' = [thread EXCEPT ![t] = q]
      BY <1>6, <2>1 DEF Goto, IInv, TypeOK, ServerType
  <2>3. q.at = "run" /\ q.who = i /\ q.key = key /\ q.request = r /\ Posting(q)
      BY <1>1, <1>2, <2>1, Reading DEF Served, KeyInv, KeysType, Posting
  <2>4. thread'[t] = q /\ \A u \in Threads : u # t => thread'[u] = thread[u]
      BY <2>2 DEF IInv, TypeOK, ServerType
  <2>5. /\ made \in Entries /\ made.who = i /\ made.key = key /\ made.request = r
        /\ made.result = None
      BY <1>7, Reading DEF Entries
  <2>6. held' \in Seq(Entries) /\ Range(held') = Range(room) \union {made}
    <3>1. PICK n \in Nat : n = Len(room) /\ DOMAIN room = 1..n
        OBVIOUS
    <3>2. /\ Append(room, made) \in Seq(Entries) /\ DOMAIN Append(room, made) = 1..(n + 1)
          /\ \A k \in 1..n : Append(room, made)[k] = room[k]
          /\ Append(room, made)[n + 1] = made
        BY <2>5, <3>1
    <3>3. \A k \in 1..(n + 1) : k \in 1..n \/ k = n + 1
        BY <3>1
    <3>4. 1..n \subseteq 1..(n + 1) /\ n + 1 \in 1..(n + 1)
        BY <3>1
    <3> QED
        BY <1>6, <3>1, <3>2, <3>3, <3>4 DEF Range
  <2>7. ASSUME NEW j \in Ids, NEW k \in Keys, <<j, k>> # <<i, key>>, <<j, k>> \notin forgotten'
        PROVE  /\ ran'[<<j, k>>] = ran[<<j, k>>]
               /\ Under(j, k)' \subseteq Under(j, k)
               /\ Under(j, k) # {} => Under(j, k)' # {}
    <3>1. Under(j, k)' \subseteq Under(j, k)
        BY <1>3, <2>5, <2>6, <2>7 DEF Under
    <3>2. ASSUME Under(j, k) # {}
          PROVE  Under(j, k)' # {}
      <4>1. <<j, k>> \in KeysOf(held)
          BY <1>1, <3>2, KeyRange DEF Under
      <4>2. <<j, k>> \in KeysOf(room)
          BY <1>6, <2>7, <4>1
      <4>3. \E e \in Range(room) : e.who = j /\ e.key = k
          BY <4>2, KeyRange
      <4> QED
          BY <2>6, <4>3 DEF Under
    <3> QED
        BY <1>1, <3>1, <3>2
  <2>8. ASSUME <<i, key>> \notin forgotten'
        PROVE  KeyHolds(i, key)'
    <3>1. KeyHolds(i, key)
        BY <1>6, <2>8 DEF KeyInv
    <3>2. ~\E e \in Range(kept) : e.who = i /\ e.key = key
        BY <1>6, KeyRange
    <3>3. <<i, key>> \notin KeysOf(room)
        BY <1>3, <3>2, KeyRange
    <3>4. <<i, key>> \notin KeysOf(held)
        BY <1>6, <2>8, <3>3
    <3>5. Under(i, key) = {}
        BY <1>1, <3>4, KeyRange DEF Under
    <3>6. Under(i, key)' = {made}
        BY <1>3, <2>5, <2>6, <3>2 DEF Under
    <3>7. ran'[<<i, key>>] = 0
        BY <1>1, <3>1, <3>5 DEF KeyHolds
    <3>8. \A u \in Threads : Working(thread'[u], i, key) => u = t
        BY <2>4, <3>1, <3>5 DEF KeyHolds, StandsFor
    <3>9. \A u \in Threads : Working(thread'[u], i, key) =>
              /\ StandsFor(thread[u].request, i, key)'
              /\ ran'[<<i, key>>] = IF thread'[u].at = "finish" THEN 1 ELSE 0
        BY <2>3, <2>4, <2>5, <3>6, <3>7, <3>8 DEF StandsFor
    <3>10. \A e \in Under(i, key)' : e.result \in {None, e.request}
        BY <2>5, <3>6
    <3> QED
        BY <3>7, <3>8, <3>9, <3>10 DEF KeyHolds
  <2>9. ran' \in [Ids \X Keys -> Nat] /\ forgotten \subseteq forgotten'
      BY <1>1, <1>6 DEF KeyInv, KeysType
  <2>10. OthersStay(i, key) /\ Settles(i, key)
      BY <2>7, <2>8 DEF OthersStay, Settles
  <2> QED
      BY <2>2, <2>3, <2>6, <2>9, <2>10, OneKey
<1> QED
    BY <1>4, <1>5, <1>6

LEMMA KeysFinish ==
    ASSUME IInv, KeyInv, NEW t \in Threads, FinishKey(t)
    PROVE  KeyInv'
<1>1. /\ thread[t].at \in {"finish", "refused"} /\ UNCHANGED <<ran, forgotten>>
      /\ held \in Seq(Entries) /\ Answer(t)
    BY DEF FinishKey, KeyInv, KeysType
<1>2. PICK i \in Ids, key \in Keys, r \in Requests :
          i = thread[t].who /\ key = thread[t].key /\ r = thread[t].request
    BY <1>1, AtWork
<1>3. PICK n \in Nat : n = Len(held) /\ DOMAIN held = 1..n
    BY <1>1
<1>4. thread' = [thread EXCEPT ![t] = Rest] /\ Posting(Rest) /\ Rest.at = "rest"
    BY <1>1, RestPosts DEF Answer
<1>5. thread'[t] = Rest /\ \A u \in Threads : u # t => thread'[u] = thread[u]
    BY <1>4 DEF IInv, TypeOK, ServerType
<1>6. /\ held' \in Seq(Entries)
      /\ \A j, k : <<j, k>> # <<i, key>> => Under(j, k)' = Under(j, k)
      /\ thread[t].at = "finish" =>
            /\ Under(i, key) # {} => Under(i, key)' # {}
            /\ \A e \in Under(i, key)' : e.result = r /\ \E f \in Under(i, key) : e.request = f.request
      /\ thread[t].at = "refused" => Under(i, key)' \subseteq Under(i, key)
  <2>1. CASE thread[t].at = "finish"
    <3>1. held' = [m \in 1..n |-> IF m \in Found(held, i, key) THEN [held[m] EXCEPT !.result = r]
                                                             ELSE held[m]]
        BY <1>2, <1>3, <2>1 DEF FinishKey
    <3>2. \A m \in 1..n : m \in Found(held, i, key) <=> held[m].who = i /\ held[m].key = key
        BY <1>3 DEF Found
    <3>3. \A m \in 1..n : held[m] \in Entries
        BY <1>1, <1>3
    <3>4. ASSUME NEW m \in 1..n
          PROVE  /\ held'[m] \in Entries /\ held'[m].who = held[m].who /\ held'[m].key = held[m].key
                 /\ held'[m].request = held[m].request
                 /\ m \in Found(held, i, key) => held'[m].result = r
                 /\ m \notin Found(held, i, key) => held'[m] = held[m]
        BY <3>1, <3>3 DEF Entries
    <3>5. held' \in Seq(Entries) /\ DOMAIN held' = 1..n
        BY <1>3, <3>1, <3>4
    <3>6. ASSUME NEW j, NEW k, <<j, k>> # <<i, key>>
          PROVE  Under(j, k)' = Under(j, k)
        BY <1>3, <3>2, <3>4, <3>5, <3>6 DEF Under, Range
    <3>7. Under(i, key) # {} => Under(i, key)' # {}
        BY <1>3, <3>2, <3>4, <3>5 DEF Under, Range
    <3>8. ASSUME NEW e \in Under(i, key)'
          PROVE  e.result = r /\ \E f \in Under(i, key) : e.request = f.request
      <4>1. PICK m \in 1..n : e = held'[m] /\ held'[m].who = i /\ held'[m].key = key
          BY <3>5 DEF Under, Range
      <4>2. held[m] \in Under(i, key) /\ m \in Found(held, i, key)
          BY <1>3, <3>2, <3>4, <4>1 DEF Under, Range
      <4> QED
          BY <3>4, <4>1, <4>2
    <3> QED
        BY <2>1, <3>5, <3>6, <3>7, <3>8
  <2>2. CASE thread[t].at = "refused" /\ Found(held, i, key) = {}
    <3>1. held' = held
        BY <1>2, <2>2 DEF FinishKey
    <3> QED
        BY <1>1, <2>2, <3>1 DEF Under
  <2>3. CASE thread[t].at = "refused" /\ Found(held, i, key) # {}
    <3>1. PICK m \in Found(held, i, key) : held' = RemoveAt(held, m)
        BY <1>2, <2>3 DEF FinishKey
    <3>2. m \in 1..Len(held) /\ held[m].who = i /\ held[m].key = key
        BY DEF Found
    <3>3. /\ held' \in Seq(Entries) /\ Range(held') \subseteq Range(held)
          /\ \A e \in Range(held) : e # held[m] => e \in Range(held')
        BY <1>1, <3>1, <3>2, OneRemoved
    <3>4. ASSUME NEW j, NEW k, <<j, k>> # <<i, key>>
          PROVE  Under(j, k)' = Under(j, k)
        BY <3>2, <3>3, <3>4 DEF Under
    <3>5. Under(i, key)' \subseteq Under(i, key)
        BY <3>3 DEF Under
    <3> QED
        BY <2>3, <3>3, <3>4, <3>5
  <2> QED
      BY <1>1, <2>1, <2>2, <2>3
<1>7. ASSUME <<i, key>> \notin forgotten'
      PROVE  KeyHolds(i, key)'
  <2>1. KeyHolds(i, key) /\ Working(thread[t], i, key)
      BY <1>1, <1>2, <1>7 DEF KeyInv, Working
  <2>2. \A u \in Threads : ~Working(thread'[u], i, key)
      BY <1>4, <1>5, <2>1 DEF KeyHolds, Working
  <2>3. /\ Under(i, key) # {} /\ \A e \in Under(i, key) : e.request = r
        /\ ran[<<i, key>>] = IF thread[t].at = "finish" THEN 1 ELSE 0
      BY <1>2, <2>1 DEF KeyHolds, StandsFor
  <2>4. ran'[<<i, key>>] \in {0, 1} /\ (ran'[<<i, key>>] = 1 => Under(i, key)' # {})
      BY <1>1, <1>6, <2>3
  <2>5. \A e \in Under(i, key)' : e.result \in {None, e.request}
      BY <1>1, <1>6, <2>1, <2>3 DEF KeyHolds
  <2> QED
      BY <2>2, <2>4, <2>5 DEF KeyHolds
<1>8. OthersStay(i, key) /\ Settles(i, key)
    BY <1>1, <1>6, <1>7 DEF OthersStay, Settles
<1>9. ran' \in [Ids \X Keys -> Nat] /\ forgotten \subseteq forgotten'
    BY <1>1 DEF KeyInv, KeysType
<1> QED
    BY <1>4, <1>6, <1>8, <1>9, OneKey

LEMMA KeysStart ==
    ASSUME ControlInit
    PROVE  KeyInv
<1>1. /\ held = <<>> /\ ran = [of \in Ids \X Keys |-> 0] /\ thread = [t \in Threads |-> Rest]
    BY DEF ControlInit, ServerInit
<1>2. Range(held) = {} /\ held \in Seq(Entries)
    BY <1>1 DEF Range
<1>3. KeysType
    BY <1>1, <1>2, RestPosts DEF KeysType
<1>4. ASSUME NEW i \in Ids, NEW key \in Keys
      PROVE  KeyHolds(i, key)
    BY <1>1, <1>2, RestPosts DEF KeyHolds, Under, Working
<1> QED
    BY <1>3, <1>4 DEF KeyInv

LEMMA KeysStep ==
    ASSUME IInv, KeyInv, [ControlNext]_control
    PROVE  KeyInv'
<1>1. ASSUME NEW t \in Threads, Serve(t)
      PROVE  KeyInv'
    BY <1>1, KeysElsewhere, KeysBegin, KeysRun, KeysFinish
<1>2. CASE AccountsNext /\ UNCHANGED <<server, clock, ran, forgotten>>
    BY <1>2, KeysSame DEF server
<1>3. CASE Tick
    BY <1>3, KeysSame DEF Tick, server
<1>4. CASE Restart
  <2>1. /\ held' = <<>> /\ ran' = ran /\ forgotten' = Ids \X Keys
        /\ \A t \in Threads : thread'[t] = Rest
      BY <1>4 DEF Restart
  <2>2. KeysType'
      BY <2>1, RestPosts DEF KeyInv, KeysType
  <2> QED
      BY <2>1, <2>2 DEF KeyInv
<1>5. CASE UNCHANGED control
    BY <1>5, KeysSame DEF control, server
<1> QED
    BY <1>1, <1>2, <1>3, <1>4, <1>5, KeysArrive DEF ControlNext

\* As long as a key was dropped neither by age, nor by the limit, nor with the process, one request
\* ran under it, once, whichever requests came with it and however they were interleaved; and
\* what it answers again is the answer to that request.
THEOREM KeysStandForOne == ControlSpec => []KeyStandsForOne
<1>1. ControlInit => KeyInv
    BY KeysStart
<1>2. IInv /\ KeyInv /\ [ControlNext]_control => KeyInv'
    BY KeysStep
<1>3. ASSUME KeyInv
      PROVE  KeyStandsForOne
  <2>1. SUFFICES ASSUME NEW i \in Ids, NEW key \in Keys, <<i, key>> \notin forgotten
                 PROVE  /\ ran[<<i, key>>] <= 1
                        /\ \A n \in Found(held, i, key) : held[n].result \in {None, held[n].request}
      BY DEF KeyStandsForOne
  <2>2. KeyHolds(i, key)
      BY <1>3, <2>1 DEF KeyInv
  <2>3. \A n \in Found(held, i, key) : held[n] \in Under(i, key)
      BY <1>3 DEF KeyInv, KeysType, Found, Under, Range
  <2> QED
      BY <2>2, <2>3 DEF KeyHolds
<1> QED
    BY <1>1, <1>2, <1>3, Invariant, PTL DEF ControlSpec

-----------------------------------------------------------------------------
(***************************************************************************)
(* Authoring: a creation holds the drafts' lock, so what it froze of its   *)
(* draft is still so when its last row is written; and only a kill parts a *)
(* project from the draft it was made of.                                  *)
(***************************************************************************)
Projects == [draft: Drafts, protocol: Protocols]

Papers == [revision: Nat, status: {"open", "discarded", "created"}, name: Names \union {Blank},
           text: Texts \union {Blank}, rest: BOOLEAN, files: Protocols \union {Blank},
           project: Names \union {Blank}]

AuthoringType ==
    /\ draft \in [Drafts -> Papers]
    /\ dirs \in [Names -> {Blank, Empty, Foreign} \union Projects]
    /\ today \in 0..LastDay
    /\ serverKills \in Nat

\* What a draft's project asks and measures.
Said(p) == IF p.files = Blank THEN p.text ELSE p.files.text

\* What the creation under way took from its draft is still there.
Underway ==
    making # Blank =>
        /\ making \in Creations
        /\ draft[making.draft].status = "open"
        /\ draft[making.draft].name = making.name
        /\ Said(draft[making.draft]) = making.protocol.text
        /\ making.at = "staged" => ~Made(making.name)
        /\ making.at = "renamed" =>
             dirs[making.name] = [draft |-> making.draft, protocol |-> making.protocol]

\* What is on disk of the draft with rows p: the project it names, as its rows have it.
Finished(p, d) ==
    /\ p.name # Blank => p.text \in Texts
    /\ p.status # "created" => p.project = Blank
    /\ p.status = "created" =>
         /\ p.project = p.name /\ p.project \in Names
         /\ Made(p.project) /\ dirs[p.project].draft = d
         /\ dirs[p.project].protocol.text = Said(p)

MadeOf(d) == {n \in Names : Made(n) /\ dirs[n].draft = d}
Lost(d)   == MadeOf(d) \ ({draft[d].project} \union IF making = Blank THEN {} ELSE {making.name})

\* Projects that no row tells of: each was hidden by a kill.
Counted(d) == IsFiniteSet(MadeOf(d)) /\ Cardinality(Lost(d)) <= serverKills

AuthoringInv ==
    /\ AuthoringType
    /\ Underway
    /\ \A d \in Drafts : Finished(draft[d], d)
    /\ \A d \in Drafts : Counted(d)

LEMMA MadeHere ==
    ASSUME AuthoringType, NEW n \in Names
    PROVE  Made(n) <=> dirs[n] \in Projects
BY HandsAssumption DEF AuthoringType, Made, Projects

LEMMA RenderSays ==
    ASSUME AuthoringType, NEW d \in Drafts, draft[d].name # Blank => draft[d].text \in Texts,
           draft[d].name # Blank
    PROVE  Render(d).text = Said(draft[d]) /\ Render(d) \in Protocols
BY DEF AuthoringType, Papers, Render, Said, Protocols

\* Nothing is lost that was not, and at most one more project was made.
LEMMA StillCounted ==
    ASSUME NEW d \in Drafts, Counted(d), NEW n, MadeOf(d)' \subseteq MadeOf(d) \union {n},
           Lost(d)' \subseteq Lost(d), serverKills' = serverKills, serverKills \in Nat
    PROVE  Counted(d)'
<1>1. IsFiniteSet(MadeOf(d)')
    BY FS_AddElement, FS_Subset DEF Counted
<1>2. IsFiniteSet(Lost(d))
    BY FS_Subset DEF Lost, Counted
<1>3. Cardinality(Lost(d)') <= Cardinality(Lost(d))
    BY <1>2, FS_Subset
<1>4. Cardinality(Lost(d)') \in Nat /\ Cardinality(Lost(d)) \in Nat
    BY <1>2, FS_Subset, FS_CardinalityType
<1> QED
    BY <1>1, <1>3, <1>4 DEF Counted

\* Directories, the lock and the kills stay: the counts do.
LEMMA NothingMoves ==
    ASSUME AuthoringType, NEW d \in Drafts, Counted(d), UNCHANGED <<dirs, serverKills>>,
           making' = making \/ making = Blank, draft'[d].project = draft[d].project
    PROVE  Counted(d)'
<1>1. MadeOf(d)' = MadeOf(d) /\ Lost(d)' \subseteq Lost(d)
    BY DEF MadeOf, Made, Lost
<1> QED
    BY <1>1, StillCounted DEF AuthoringType

\* A row of an open draft while nobody creates.
LEMMA DraftWritten ==
    ASSUME AuthoringInv, NEW d \in Drafts, NEW p \in Papers, draft[d].status = "open",
           making = Blank, making' = Blank, UNCHANGED <<dirs, today, serverKills>>,
           draft' = [draft EXCEPT ![d] = p],
           p.name # Blank => p.text \in Texts,
           p.project = draft[d].project, p.status # "created"
    PROVE  AuthoringInv'
<1>1. AuthoringType' /\ Underway'
    BY DEF AuthoringInv, AuthoringType, Underway
<1>2. \A e \in Drafts : e # d => draft'[e] = draft[e]
    BY DEF AuthoringInv, AuthoringType
<1>3. draft'[d] = p /\ draft[d].project = Blank
    BY DEF AuthoringInv, AuthoringType, Finished
<1>4. \A e \in Drafts : Finished(draft[e], e)'
  <2>1. SUFFICES ASSUME NEW e \in Drafts
                 PROVE  Finished(draft[e], e)'
      OBVIOUS
  <2>2. CASE e = d
      BY <1>3, <2>2 DEF Finished
  <2>3. CASE e # d
      BY <1>2, <2>3 DEF AuthoringInv, Finished, Made, Said
  <2> QED
      BY <2>2, <2>3
<1>5. \A e \in Drafts : Counted(e)'
    BY <1>2, <1>3, NothingMoves DEF AuthoringInv
<1> QED
    BY <1>1, <1>4, <1>5 DEF AuthoringInv

\* Steps that touch neither drafts nor directories nor the creation.
LEMMA AuthoringRests ==
    ASSUME AuthoringInv, UNCHANGED <<draft, dirs, making, serverKills>>, today' \in 0..LastDay
    PROVE  AuthoringInv'
<1>1. AuthoringType' /\ Underway'
    BY DEF AuthoringInv, AuthoringType, Underway, Made
<1>2. \A e \in Drafts : Finished(draft[e], e)'
    BY DEF AuthoringInv, Finished, Made
<1>3. \A e \in Drafts : Counted(e)'
    BY NothingMoves DEF AuthoringInv
<1> QED
    BY <1>1, <1>2, <1>3 DEF AuthoringInv

LEMMA Saves ==
    ASSUME AuthoringInv, NEW t \in Tabs,
           \/ \E n \in Names, x \in Texts : SaveTopics(t, n, x)
           \/ \E files \in Protocols \union {Blank} : SaveAdvanced(t, files)
           \/ SaveRest(t) \/ Discard(t)
    PROVE  AuthoringInv'
<1>1. PICK d \in Drafts : d = DraftOf[t]
    BY TabsAssumption
<1>2. /\ making = Blank /\ making' = Blank /\ UNCHANGED <<dirs, today, serverKills>>
      /\ draft[d].status = "open"
    BY <1>1 DEF SaveTopics, SaveAdvanced, SaveRest, Discard, MaySave, Save, Open
<1>3. /\ draft \in [Drafts -> Papers] /\ Finished(draft[d], d)
      /\ draft[d] \in Papers /\ draft[d].revision + 1 \in Nat
    BY DEF AuthoringInv, AuthoringType, Papers
<1> DEFINE old == draft[d]
<1>4. CASE \E n \in Names, x \in Texts : SaveTopics(t, n, x)
  <2>1. PICK n \in Names, x \in Texts : SaveTopics(t, n, x)
      BY <1>4
  <2> DEFINE p == [old EXCEPT !.revision = @ + 1, !.name = n, !.text = x]
  <2>2. draft' = [draft EXCEPT ![d] = p]
      BY <1>1, <1>3, <2>1 DEF SaveTopics, Save, Saved, Papers
  <2>3. p \in Papers /\ p.project = old.project /\ p.status = old.status /\ p.text = x
      BY <1>3 DEF Papers
  <2> HIDE DEF p
  <2> QED
      BY <1>2, <2>2, <2>3, DraftWritten
<1>5. CASE \E files \in Protocols \union {Blank} : SaveAdvanced(t, files)
  <2>1. PICK files \in Protocols \union {Blank} : SaveAdvanced(t, files)
      BY <1>5
  <2> DEFINE p == [old EXCEPT !.revision = @ + 1, !.files = files]
  <2>2. draft' = [draft EXCEPT ![d] = p]
      BY <1>1, <1>3, <2>1 DEF SaveAdvanced, Save, Saved, Papers
  <2>3. /\ p \in Papers /\ p.project = old.project /\ p.status = old.status
        /\ p.name = old.name /\ p.text = old.text
      BY <1>3 DEF Papers
  <2> HIDE DEF p
  <2> QED
      BY <1>2, <1>3, <2>2, <2>3, DraftWritten DEF Finished
<1>6. CASE SaveRest(t)
  <2> DEFINE p == [old EXCEPT !.revision = @ + 1, !.rest = TRUE]
  <2>2. draft' = [draft EXCEPT ![d] = p]
      BY <1>1, <1>3, <1>6 DEF SaveRest, Save, Saved, Papers
  <2>3. /\ p \in Papers /\ p.project = old.project /\ p.status = old.status
        /\ p.name = old.name /\ p.text = old.text
      BY <1>3 DEF Papers
  <2> HIDE DEF p
  <2> QED
      BY <1>2, <1>3, <2>2, <2>3, DraftWritten DEF Finished
<1>7. CASE Discard(t)
  <2> DEFINE p == [old EXCEPT !.revision = @ + 1, !.status = "discarded"]
  <2>2. draft' = [draft EXCEPT ![d] = p]
      BY <1>1, <1>3, <1>7 DEF Discard, Save, Saved, Papers
  <2>3. /\ p \in Papers /\ p.project = old.project /\ p.status = "discarded"
        /\ p.name = old.name /\ p.text = old.text
      BY <1>3 DEF Papers
  <2> HIDE DEF p
  <2> QED
      BY <1>2, <1>3, <2>2, <2>3, DraftWritten DEF Finished
<1> QED
    BY <1>4, <1>5, <1>6, <1>7

LEMMA Begins ==
    ASSUME AuthoringInv, NEW t \in Tabs, Begin(t)
    PROVE  AuthoringInv'
<1>1. PICK d \in Drafts : d = DraftOf[t]
    BY TabsAssumption
<1>2. /\ making = Blank /\ UNCHANGED <<dirs, today, serverKills>>
      /\ draft[d].status = "open" /\ draft[d].name # Blank
      /\ \/ making' = making /\ draft' = Saved(d)
         \/ /\ dirs[draft[d].name] = Blank /\ draft' = draft
            /\ making' = [draft |-> d, at |-> "staged", name |-> draft[d].name,
                          protocol |-> Render(d)]
    BY <1>1 DEF Begin, Renders, Open, Complete
<1>3. /\ draft \in [Drafts -> Papers] /\ Finished(draft[d], d)
      /\ draft[d] \in Papers /\ draft[d].revision + 1 \in Nat /\ draft[d].name \in Names
    BY <1>2 DEF AuthoringInv, AuthoringType, Papers
<1>4. CASE making' = making /\ draft' = Saved(d)
  <2> DEFINE p == [draft[d] EXCEPT !.revision = @ + 1]
  <2>1. draft' = [draft EXCEPT ![d] = p]
      BY <1>3, <1>4 DEF Saved, Papers
  <2>2. /\ p \in Papers /\ p.project = draft[d].project /\ p.status = draft[d].status
        /\ p.name = draft[d].name /\ p.text = draft[d].text
      BY <1>3 DEF Papers
  <2> HIDE DEF p
  <2> QED
      BY <1>2, <1>3, <1>4, <2>1, <2>2, DraftWritten DEF Finished
<1>5. CASE /\ dirs[draft[d].name] = Blank /\ draft' = draft
           /\ making' = [draft |-> d, at |-> "staged", name |-> draft[d].name,
                         protocol |-> Render(d)]
  <2>1. Render(d).text = Said(draft[d]) /\ Render(d) \in Protocols
      BY <1>2, <1>3, RenderSays DEF AuthoringInv, Finished
  <2>2. ~Made(draft[d].name)
      BY <1>5 DEF Made
  <2>3. /\ making'.draft = d /\ making'.name = draft[d].name /\ making'.protocol = Render(d)
        /\ making'.at = "staged"
      BY <1>5
  <2>4. making' \in Creations
      BY <1>3, <1>5, <2>1 DEF Creations
  <2>7. Underway'
      BY <1>2, <1>3, <1>5, <2>1, <2>2, <2>3, <2>4 DEF Underway, Made, Said
  <2>5. AuthoringType' /\ \A e \in Drafts : Finished(draft[e], e)'
      BY <1>2, <1>5 DEF AuthoringInv, AuthoringType, Finished, Made
  <2>6. \A e \in Drafts : Counted(e)'
      BY <1>2, <1>5, NothingMoves DEF AuthoringInv
  <2> QED
      BY <2>5, <2>6, <2>7 DEF AuthoringInv
<1> QED
    BY <1>2, <1>4, <1>5

LEMMA Renames ==
    ASSUME AuthoringInv, Rename
    PROVE  AuthoringInv'
<1>1. /\ making # Blank /\ making.at = "staged" /\ UNCHANGED <<draft, today, serverKills>>
      /\ \/ making' = Blank /\ dirs' = dirs
         \/ /\ dirs' = [dirs EXCEPT ![making.name] =
                            [draft |-> making.draft, protocol |-> making.protocol]]
            /\ making' = [making EXCEPT !.at = "renamed"]
    BY DEF Rename
<1>2. PICK d \in Drafts, n \in Names, r \in Protocols :
          d = making.draft /\ n = making.name /\ r = making.protocol
    BY <1>1 DEF AuthoringInv, Underway, Creations
<1>3. /\ ~Made(n) /\ draft[d].status = "open" /\ draft[d].name = n /\ Said(draft[d]) = r.text
    BY <1>1, <1>2 DEF AuthoringInv, Underway
<1>4. CASE making' = Blank /\ dirs' = dirs
  <2>1. AuthoringType' /\ Underway' /\ \A e \in Drafts : Finished(draft[e], e)'
      BY <1>1, <1>4 DEF AuthoringInv, AuthoringType, Underway, Finished, Made
  <2>2. ASSUME NEW e \in Drafts
        PROVE  Counted(e)'
    <3>1. MadeOf(e)' = MadeOf(e) /\ n \notin MadeOf(e) /\ Lost(e)' \subseteq Lost(e)
        BY <1>1, <1>2, <1>3, <1>4 DEF MadeOf, Made, Lost
    <3> QED
        BY <1>1, <3>1, StillCounted DEF AuthoringInv, AuthoringType
  <2> QED
      BY <2>1, <2>2 DEF AuthoringInv
<1>5. CASE /\ dirs' = [dirs EXCEPT ![n] = [draft |-> d, protocol |-> r]]
           /\ making' = [making EXCEPT !.at = "renamed"]
  <2> DEFINE made == [draft |-> d, protocol |-> r]
  <2>1. made \in Projects /\ made.draft = d /\ made.protocol = r
      BY DEF Projects
  <2> HIDE DEF made
  <2>2. /\ dirs'[n] = made /\ \A m \in Names : m # n => dirs'[m] = dirs[m]
        /\ dirs' \in [Names -> {Blank, Empty, Foreign} \union Projects]
      BY <1>5, <2>1 DEF AuthoringInv, AuthoringType, made
  <2>3. AuthoringType'
      BY <1>1, <2>2 DEF AuthoringInv, AuthoringType
  <2>4. \A m \in Names : m # n => (Made(m)' <=> Made(m)) /\ dirs'[m] = dirs[m]
      BY <2>2 DEF Made
  <2>5. /\ making' \in Creations /\ making' # Blank
        /\ making'.draft = d /\ making'.name = n /\ making'.protocol = r
        /\ making'.at = "renamed"
      BY <1>1, <1>2, <1>5, HandsAssumption DEF AuthoringInv, Underway, Creations
  <2>6. Underway'
      BY <1>1, <1>3, <2>2, <2>5 DEF Underway, Said, made
  <2>7. ASSUME NEW e \in Drafts
        PROVE  Finished(draft[e], e)'
      BY <1>1, <1>3, <2>4 DEF AuthoringInv, Finished, Made, Said
  <2>8. ASSUME NEW e \in Drafts
        PROVE  Counted(e)'
    <3>1. MadeOf(e)' \subseteq MadeOf(e) \union {n}
        BY <2>4 DEF MadeOf
    <3>2. Lost(e)' \subseteq Lost(e)
        BY <1>1, <1>2, <2>4, <2>5 DEF MadeOf, Lost
    <3> QED
        BY <1>1, <3>1, <3>2, StillCounted DEF AuthoringInv, AuthoringType
  <2> QED
      BY <2>3, <2>6, <2>7, <2>8 DEF AuthoringInv
<1> QED
    BY <1>1, <1>2, <1>4, <1>5

\* The last row: the draft says what it made, and the lock is given back.
LEMMA Created ==
    ASSUME AuthoringInv, MarkCreated
    PROVE  AuthoringInv'
<1>1. /\ making # Blank /\ making.at = "renamed" /\ making' = Blank
      /\ UNCHANGED <<dirs, today, serverKills>>
    BY DEF MarkCreated
<1>2. PICK d \in Drafts, n \in Names, r \in Protocols :
          d = making.draft /\ n = making.name /\ r = making.protocol
    BY <1>1 DEF AuthoringInv, Underway, Creations
<1>3. /\ draft[d].status = "open" /\ draft[d].name = n /\ Said(draft[d]) = r.text
      /\ dirs[n] = [draft |-> d, protocol |-> r]
    BY <1>1, <1>2 DEF AuthoringInv, Underway
<1>4. draft \in [Drafts -> Papers] /\ draft[d] \in Papers /\ draft[d].revision + 1 \in Nat
    BY DEF AuthoringInv, AuthoringType, Papers
<1> DEFINE p == [draft[d] EXCEPT !.revision = @ + 1, !.status = "created", !.project = n]
<1>5. draft' = [draft EXCEPT ![d] = p]
    BY <1>2, <1>4 DEF MarkCreated, Saved, Papers
<1>6. /\ p \in Papers /\ p.project = n /\ p.status = "created" /\ p.name = n
      /\ p.text = draft[d].text /\ p.files = draft[d].files
    BY <1>3, <1>4 DEF Papers
<1> HIDE DEF p
<1>7. draft'[d] = p /\ (\A e \in Drafts : e # d => draft'[e] = draft[e]) /\ AuthoringType'
    BY <1>1, <1>4, <1>5, <1>6 DEF AuthoringInv, AuthoringType
<1>8. Underway'
    BY <1>1 DEF Underway
<1>9. ASSUME NEW e \in Drafts
      PROVE  Finished(draft[e], e)'
  <2>1. CASE e # d
      BY <1>1, <1>7, <2>1 DEF AuthoringInv, Finished, Made, Said
  <2>2. CASE e = d
    <3>1. Made(n) /\ dirs[n].draft = d /\ dirs[n].protocol.text = Said(p)
      <4>1. dirs[n] \in Projects
          BY <1>3 DEF Projects
      <4>2. Made(n)
          BY <4>1, MadeHere DEF AuthoringInv
      <4> QED
          BY <1>3, <1>6, <4>2 DEF Said
    <3>2. p.name # Blank => p.text \in Texts
        BY <1>3, <1>6 DEF AuthoringInv, Finished
    <3> QED
        BY <1>1, <1>6, <1>7, <2>2, <3>1, <3>2 DEF Finished, Made
  <2> QED
      BY <2>1, <2>2
<1>10. ASSUME NEW e \in Drafts
       PROVE  Counted(e)'
  <2>1. MadeOf(e)' = MadeOf(e)
      BY <1>1 DEF MadeOf, Made
  <2>2. CASE e # d
    <3>1. n \notin MadeOf(e)
        BY <1>3, <2>2 DEF MadeOf
    <3>2. Lost(e)' \subseteq Lost(e)
        BY <1>1, <1>2, <1>7, <2>1, <2>2, <3>1 DEF Lost
    <3> QED
        BY <1>1, <2>1, <3>2, StillCounted DEF AuthoringInv, AuthoringType
  <2>3. CASE e = d
    <3>1. draft[d].project = Blank /\ Blank \notin MadeOf(e)
        BY <1>3, HandsAssumption DEF AuthoringInv, Finished, MadeOf
    <3>2. Lost(e)' \subseteq Lost(e)
        BY <1>1, <1>2, <1>6, <1>7, <2>1, <2>3, <3>1 DEF Lost
    <3> QED
        BY <1>1, <2>1, <3>2, StillCounted DEF AuthoringInv, AuthoringType
  <2> QED
      BY <2>2, <2>3
<1> QED
    BY <1>7, <1>8, <1>9, <1>10 DEF AuthoringInv

\* A kill may hide one project from its draft.
LEMMA Killed ==
    ASSUME AuthoringInv, KillCreation
    PROVE  AuthoringInv'
<1>1. /\ making # Blank /\ making' = Blank /\ serverKills' = serverKills + 1
      /\ UNCHANGED <<draft, tab, dirs, stored, today>> /\ serverKills \in Nat
    BY DEF KillCreation, AuthoringInv, AuthoringType
<1>2. AuthoringType' /\ Underway' /\ \A e \in Drafts : Finished(draft[e], e)'
    BY <1>1 DEF AuthoringInv, AuthoringType, Underway, Finished, Made
<1>3. ASSUME NEW e \in Drafts
      PROVE  Counted(e)'
  <2>1. PICK n : n = making.name
      OBVIOUS
  <2>2. MadeOf(e)' = MadeOf(e) /\ Lost(e)' \subseteq Lost(e) \union {n}
      BY <1>1, <2>1 DEF MadeOf, Made, Lost
  <2>3. IsFiniteSet(MadeOf(e)) /\ IsFiniteSet(Lost(e)) /\ Cardinality(Lost(e)) <= serverKills
      BY <1>3, FS_Subset DEF Lost, AuthoringInv, Counted
  <2>4. /\ IsFiniteSet(Lost(e) \union {n})
        /\ Cardinality(Lost(e) \union {n}) <= Cardinality(Lost(e)) + 1
        /\ Cardinality(Lost(e)) \in Nat
    <3>1. PICK L : L = Lost(e)
        OBVIOUS
    <3>2. /\ IsFiniteSet(L \union {n}) /\ Cardinality(L) \in Nat
          /\ \/ Cardinality(L \union {n}) = Cardinality(L)
             \/ Cardinality(L \union {n}) = Cardinality(L) + 1
        BY <2>3, <3>1, FS_AddElement, FS_CardinalityType
    <3> QED
        BY <3>1, <3>2
  <2>5. /\ Cardinality(Lost(e)') <= Cardinality(Lost(e) \union {n})
        /\ Cardinality(Lost(e)') \in Nat /\ Cardinality(Lost(e) \union {n}) \in Nat
      BY <2>2, <2>4, FS_Subset, FS_CardinalityType
  <2>6. Cardinality(Lost(e)') <= serverKills + 1
      BY <1>1, <2>3, <2>4, <2>5
  <2> QED
      BY <1>1, <2>2, <2>3, <2>6 DEF Counted
<1> QED
    BY <1>2, <1>3 DEF AuthoringInv

\* What hands put under a name is no project, and lies where nothing was.
LEMMA Hands ==
    ASSUME AuthoringInv, NEW n \in Names, NEW content \in {Empty, Foreign}, ByHand(n, content)
    PROVE  AuthoringInv'
<1>1. /\ dirs[n] = Blank /\ dirs' = [dirs EXCEPT ![n] = content]
      /\ UNCHANGED <<draft, making, today, serverKills>>
    BY DEF ByHand
<1>2. dirs'[n] = content /\ \A m \in Names : m # n => dirs'[m] = dirs[m]
    BY <1>1 DEF AuthoringInv, AuthoringType
<1>3. ~Made(n) /\ ~Made(n)' /\ \A m \in Names : m # n => (Made(m)' <=> Made(m))
    BY <1>1, <1>2 DEF Made
<1>4. AuthoringType'
    BY <1>1 DEF AuthoringInv, AuthoringType
<1>5. Underway'
  <2>1. making # Blank => making \in Creations /\ making.name \in Names
      BY DEF AuthoringInv, Underway, Creations
  <2>2. making # Blank /\ making.at = "renamed" => making.name # n
    <3>1. Blank \notin Projects
        BY HandsAssumption DEF Projects
    <3>2. making # Blank => [draft |-> making.draft, protocol |-> making.protocol] \in Projects
        BY <2>1 DEF Creations, Projects
    <3> QED
        BY <1>1, <3>1, <3>2 DEF AuthoringInv, Underway
  <2> QED
      BY <1>1, <1>2, <1>3, <2>1, <2>2 DEF AuthoringInv, Underway
<1>6. \A e \in Drafts : Finished(draft[e], e)'
    BY <1>1, <1>2, <1>3 DEF AuthoringInv, Finished
<1>7. ASSUME NEW e \in Drafts
      PROVE  Counted(e)'
  <2>1. MadeOf(e)' = MadeOf(e)
      BY <1>2, <1>3 DEF MadeOf
  <2>2. Lost(e)' = Lost(e)
      BY <1>1, <2>1 DEF Lost
  <2> QED
      BY <1>1, <2>1, <2>2 DEF AuthoringInv, Counted
<1> QED
    BY <1>4, <1>5, <1>6, <1>7 DEF AuthoringInv

LEMMA AuthoringStarts ==
    ASSUME AuthoringInit
    PROVE  AuthoringInv
<1>1. AuthoringType /\ Underway
    BY TabsAssumption DEF AuthoringInit, AuthoringType, Underway, NewDraft, Papers
<1>2. ASSUME NEW d \in Drafts
      PROVE  Finished(draft[d], d)
    BY DEF AuthoringInit, NewDraft, Finished
<1>3. ASSUME NEW d \in Drafts
      PROVE  Counted(d)
  <2>1. MadeOf(d) = {} /\ Lost(d) = {} /\ serverKills = 0
      BY DEF AuthoringInit, MadeOf, Made, Lost
  <2> QED
      BY <2>1, FS_EmptySet DEF Counted
<1> QED
    BY <1>1, <1>2, <1>3 DEF AuthoringInv

LEMMA AuthoringSteps ==
    ASSUME AuthoringInv, [AuthoringNext]_authoring
    PROVE  AuthoringInv'
<1>1. ASSUME NEW t \in Tabs, Editing(t)
      PROVE  AuthoringInv'
  <2>1. CASE Resume(t) \/ Preview(t)
      BY <2>1, AuthoringRests DEF Resume, Preview, AuthoringInv, AuthoringType
  <2> QED
      BY <1>1, <2>1, Saves, Begins DEF Editing
<1>2. CASE Creating
    BY <1>2, Renames, Created, Killed DEF Creating
<1>3. CASE Beside
  <2>1. ASSUME NEW n \in Names, Use(n)
        PROVE  AuthoringInv'
      BY <2>1, AuthoringRests DEF Use, AuthoringInv, AuthoringType
  <2>2. CASE NextDay
      BY <2>2, TabsAssumption, AuthoringRests DEF NextDay, AuthoringInv, AuthoringType
  <2> QED
      BY <1>3, <2>1, <2>2, Hands DEF Beside
<1>4. CASE UNCHANGED authoring
    BY <1>4, AuthoringRests DEF authoring, AuthoringInv, AuthoringType
<1> QED
    BY <1>1, <1>2, <1>3, <1>4 DEF AuthoringNext

LEMMA ToldByInv ==
    ASSUME AuthoringInv
    PROVE  OneProjectPerDraft
<1>1. DOMAIN draft = Drafts
    BY DEF AuthoringInv, AuthoringType
<1>2. ASSUME NEW d \in Drafts, draft[d].status = "created"
      PROVE  /\ draft[d].project = draft[d].name /\ draft[d].project \in MadeOf(d)
             /\ dirs[draft[d].project].protocol.text = Render(d).text
  <2>1. Finished(draft[d], d) /\ draft[d].name \in Names /\ draft[d].name # Blank
      BY <1>2, HandsAssumption DEF AuthoringInv, Finished
  <2>2. Render(d).text = Said(draft[d])
      BY <2>1, RenderSays DEF AuthoringInv, Finished
  <2> QED
      BY <1>2, <2>1, <2>2 DEF Finished, MadeOf
<1>3. ASSUME NEW d \in Drafts
      PROVE  Cardinality(Lost(d)) <= serverKills
    BY <1>3 DEF AuthoringInv, Counted
<1> QED
    BY <1>1, <1>2, <1>3 DEF OneProjectPerDraft, MadeOf, Lost

\* A draft that says "created" names the project made of it, which asks what its last revision
\* does; and only a kill between the rename and the row hides a project from its draft
\* (create_project).
THEOREM ProjectsAreTold == AuthoringSpec => []OneProjectPerDraft
<1>1. AuthoringInit => AuthoringInv
    BY AuthoringStarts
<1>2. AuthoringInv /\ [AuthoringNext]_authoring => AuthoringInv'
    BY AuthoringSteps
<1>3. AuthoringInv => OneProjectPerDraft
    BY ToldByInv
<1> QED
    BY <1>1, <1>2, <1>3, PTL DEF AuthoringSpec
=============================================================================
