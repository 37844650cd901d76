------------------------ MODULE StoreOpeningProofs ------------------------
(***************************************************************************)
(* Theorems about StoreOpening, for any number of deployments, schema      *)
(* changes, crashes and failed copies, and any families a change touches.  *)
(*                                                                         *)
(* That a refused store is untouched needs that an opening in place never  *)
(* fails.  Opens says of a store, with the rows it has and what decodes of *)
(* them, whether its opening will succeed; every step of an opening keeps  *)
(* Opens both ways, on the probe as on the file.  The probe that got to    *)
(* its end opens, hence the store it was copied from does, and goes on     *)
(* doing so while it is opened.  That the cause of a refusal is a row set  *)
(* aside, and that what is allocated is free, needs what a store keeps     *)
(* from one opening to the next (Kept): it is stated of the rows alone,    *)
(* decodable or not, so that a schema change does not disturb it.          *)
(***************************************************************************)
EXTENDS StoreOpening, FiniteSetTheorems, WellFoundedInduction, TLAPS

-----------------------------------------------------------------------------
(* Types. *)

Transitions == Nat \X {0, 1}

KeyType(t) ==
  IF t \in {"allocation", "configuration"} THEN {0}
  ELSE IF t \in {"outbox", "intent"} THEN Transitions ELSE Nat

IntentType == [position : Nat, state : {"Pending", "Bound", "Appended", "Acknowledged"}]

ValueType(t) ==
  IF t = "log" THEN Transitions
  ELSE IF t = "allocation" THEN [identifier : Nat, position : Nat]
  ELSE IF t = "intent" THEN IntentType
  ELSE IF t = "outbox" THEN [state : {"Pending", "Dispatched", "Acknowledged"}]
  ELSE IF t = "configuration"
    THEN [desired : {"Archived", "BuiltIn", "Ordinary", "Meta"}, meta : BOOLEAN]
  ELSE IF t = "record" THEN {"Open", "Terminal"}
  ELSE {"Deployed", "Held"}

RowType(t) == [key : KeyType(t), value : ValueType(t), decodes : BOOLEAN]

AllKeys   == UNION {KeyType(t) : t \in Tables}
AllValues == UNION {ValueType(t) : t \in Tables}

StoreType ==
  [exists : BOOLEAN, schema : {"Current", "Older", "Foreign"}, sidecars : BOOLEAN,
   rows  : [Tables -> SUBSET [key : AllKeys, value : AllValues, decodes : BOOLEAN]],
   aside : [Tables -> SUBSET [key : AllKeys, number : Nat, value : AllValues]]]

\* The tables whose keys are numbers an allocation is rebuilt from.
Counted == {"live", "job", "log"}

OneRowPerKey(s) == \A t \in Tables : \A r, q \in s.rows[t] : r.key = q.key => r = q

AsideOf(s, t, key) == {q \in s.aside[t] : q.key = key}

Typed(s) ==
  /\ s \in StoreType
  /\ \A t \in Tables : s.rows[t] \subseteq RowType(t)
  /\ OneRowPerKey(s)
  /\ \A t \in Counted : \E n \in Nat : \A r \in s.rows[t] : r.key <= n
  /\ \A t \in Tables : \A key :
       /\ IsFiniteSet(AsideOf(s, t, key))
       /\ \A q \in AsideOf(s, t, key) : q.number <= Cardinality(AsideOf(s, t, key))

\* The tables, and which of them is which.
LEMMA TheTables ==
  /\ Tables = {"live", "log", "job", "record", "allocation", "outbox", "intent", "configuration"}
  /\ Counted \subseteq Tables
<1>1. Len(Families) = 8
  BY DEF Families
<1>2. \A i \in 1 .. 8 : i \in {1, 2, 3, 4, 5, 6, 7, 8}
  OBVIOUS
<1>3. /\ Families[1] = "live" /\ Families[2] = "log" /\ Families[3] = "job"
      /\ Families[4] = "record" /\ Families[5] = "allocation" /\ Families[6] = "outbox"
      /\ Families[7] = "intent" /\ Families[8] = "configuration"
  BY DEF Families
<1>4. Tables = {"live", "log", "job", "record", "allocation", "outbox", "intent", "configuration"}
  BY <1>1, <1>2, <1>3 DEF Tables
<1> QED BY <1>4 DEF Counted

\* A row of a table, and of any.
LEMMA RowParts ==
  ASSUME NEW t \in Tables, NEW r \in RowType(t)
  PROVE  /\ r.key \in KeyType(t) /\ r.value \in ValueType(t) /\ r.decodes \in BOOLEAN
         /\ r \in [key : AllKeys, value : AllValues, decodes : BOOLEAN]
BY DEF RowType, AllKeys, AllValues

\* A row that is written.
LEMMA RowWritten ==
  ASSUME NEW t \in Tables, NEW k \in KeyType(t), NEW v \in ValueType(t)
  PROVE  /\ Row(k, v) \in RowType(t)
         /\ Row(k, v).key = k /\ Row(k, v).value = v /\ Row(k, v).decodes = TRUE
BY DEF RowType, Row

\* The rows of a typed store.
LEMMA TypedRows ==
  ASSUME NEW s, Typed(s), NEW t \in Tables
  PROVE  /\ s.rows[t] \subseteq RowType(t)
         /\ \A r \in s.rows[t] : /\ r.key \in KeyType(t) /\ r.value \in ValueType(t)
                                 /\ r.decodes \in BOOLEAN
         /\ \A r, q \in s.rows[t] : r.key = q.key => r = q
<1>1. s.rows[t] \subseteq RowType(t) /\ \A r, q \in s.rows[t] : r.key = q.key => r = q
  BY DEF Typed, OneRowPerKey
<1>2. \A r \in RowType(t) : /\ r.key \in KeyType(t) /\ r.value \in ValueType(t)
                            /\ r.decodes \in BOOLEAN
  BY RowParts
<1> QED BY <1>1, <1>2

\* What the keys and the values of each table are.
LEMMA TableTypes ==
  /\ KeyType("live") = Nat /\ KeyType("log") = Nat /\ KeyType("job") = Nat
  /\ KeyType("record") = Nat /\ KeyType("allocation") = {0} /\ KeyType("configuration") = {0}
  /\ KeyType("outbox") = Transitions /\ KeyType("intent") = Transitions
  /\ ValueType("log") = Transitions
  /\ ValueType("allocation") = [identifier : Nat, position : Nat]
  /\ ValueType("intent") = IntentType
  /\ ValueType("outbox") = [state : {"Pending", "Dispatched", "Acknowledged"}]
  /\ ValueType("configuration") =
       [desired : {"Archived", "BuiltIn", "Ordinary", "Meta"}, meta : BOOLEAN]
  /\ ValueType("record") = {"Open", "Terminal"}
  /\ "Deployed" \in ValueType("live") /\ "Held" \in ValueType("job")
BY DEF KeyType, ValueType

\* The parts of a store.
LEMMA StoreParts ==
  ASSUME NEW s \in StoreType
  PROVE  /\ s.exists \in BOOLEAN /\ s.schema \in {"Current", "Older", "Foreign"}
         /\ s.sidecars \in BOOLEAN
         /\ s.rows \in [Tables -> SUBSET [key : AllKeys, value : AllValues, decodes : BOOLEAN]]
         /\ s.aside \in [Tables -> SUBSET [key : AllKeys, number : Nat, value : AllValues]]
BY DEF StoreType

\* Only rows of one table change.
OnlyRowsOf(t, s, u) ==
  /\ u.exists = s.exists /\ u.schema = s.schema /\ u.sidecars = s.sidecars /\ u.aside = s.aside
  /\ \A w \in Tables \ {t} : u.rows[w] = s.rows[w]

\* Replacing the rows of one table.
LEMMA RowsReplaced ==
  ASSUME NEW s \in StoreType, NEW t \in Tables, NEW R,
         R \subseteq [key : AllKeys, value : AllValues, decodes : BOOLEAN]
  PROVE  LET u == [s EXCEPT !.rows[t] = R]
         IN  u \in StoreType /\ OnlyRowsOf(t, s, u) /\ u.rows[t] = R
<1> DEFINE u == [s EXCEPT !.rows[t] = R]
<1>1. /\ u.exists = s.exists /\ u.schema = s.schema /\ u.sidecars = s.sidecars
      /\ u.aside = s.aside /\ u.rows = [s.rows EXCEPT ![t] = R]
  BY DEF StoreType
<1>2. u.rows \in [Tables -> SUBSET [key : AllKeys, value : AllValues, decodes : BOOLEAN]]
  BY <1>1, StoreParts
<1>3. u \in StoreType
  BY <1>1, <1>2 DEF StoreType
<1>4. u.rows[t] = R /\ \A w \in Tables \ {t} : u.rows[w] = s.rows[w]
  BY <1>1, StoreParts
<1> QED BY <1>1, <1>3, <1>4 DEF OnlyRowsOf

\* A store is typed when the one table that changed is.
LEMMA TypedOfTable ==
  ASSUME NEW s, NEW u \in StoreType, NEW t \in Tables, Typed(s), OnlyRowsOf(t, s, u),
         u.rows[t] \subseteq RowType(t),
         \A r, q \in u.rows[t] : r.key = q.key => r = q,
         t \in Counted => \E n \in Nat : \A r \in u.rows[t] : r.key <= n
  PROVE  Typed(u)
<1>1. \A w \in Tables : w = t \/ u.rows[w] = s.rows[w]
  BY DEF OnlyRowsOf
<1>2. \A w \in Tables : u.rows[w] \subseteq RowType(w)
  BY <1>1 DEF Typed
<1>3. OneRowPerKey(u)
  BY <1>1 DEF Typed, OneRowPerKey
<1>4. \A w \in Counted : \E n \in Nat : \A r \in u.rows[w] : r.key <= n
  BY <1>1, TheTables DEF Typed
<1>5. \A w \in Tables : \A key : AsideOf(u, w, key) = AsideOf(s, w, key)
  BY DEF AsideOf, OnlyRowsOf
<1> QED BY <1>2, <1>3, <1>4, <1>5 DEF Typed

\* Putting a row: its table has it and no other of its key, the rest stays.
LEMMA PutMakes ==
  ASSUME NEW s, Typed(s), NEW t \in Tables, NEW k \in KeyType(t), NEW v \in ValueType(t)
  PROVE  /\ Typed(Put(s, t, k, v))
         /\ OnlyRowsOf(t, s, Put(s, t, k, v))
         /\ Put(s, t, k, v).rows[t] = {r \in s.rows[t] : r.key # k} \union {Row(k, v)}
<1> DEFINE R == {r \in s.rows[t] : r.key # k} \union {Row(k, v)}
           u == [s EXCEPT !.rows[t] = R]
<1>1. /\ Row(k, v) \in RowType(t) /\ Row(k, v).key = k
      /\ R \subseteq RowType(t)
      /\ RowType(t) \subseteq [key : AllKeys, value : AllValues, decodes : BOOLEAN]
  <2>1. Row(k, v) \in RowType(t) /\ Row(k, v).key = k
    BY RowWritten
  <2>3. RowType(t) \subseteq [key : AllKeys, value : AllValues, decodes : BOOLEAN]
    BY RowParts
  <2>2. R \subseteq RowType(t)
    BY <2>1, TypedRows
  <2> QED BY <2>1, <2>2, <2>3
<1>2. s \in StoreType
  BY DEF Typed
<1>3. u \in StoreType /\ OnlyRowsOf(t, s, u) /\ u.rows[t] = R
  <2> HIDE DEF R
  <2> QED BY <1>1, <1>2, RowsReplaced
<1>4. Put(s, t, k, v) = u
  <2>1. s.rows \in [Tables -> SUBSET [key : AllKeys, value : AllValues, decodes : BOOLEAN]]
    BY <1>2, StoreParts
  <2> QED BY <2>1 DEF Put
<1>5. \A r, q \in R : r.key = q.key => r = q
  BY <1>1 DEF Typed, OneRowPerKey
<1>6. t \in Counted => \E n \in Nat : \A r \in R : r.key <= n
  <2>1. SUFFICES ASSUME t \in Counted
                 PROVE  \E n \in Nat : \A r \in R : r.key <= n
    OBVIOUS
  <2>2. KeyType(t) = Nat
    BY <2>1, TableTypes DEF Counted
  <2>3. PICK n \in Nat : \A r \in s.rows[t] : r.key <= n
    BY <2>1 DEF Typed
  <2>4. \A r \in R : r.key \in Nat /\ (r \in s.rows[t] \/ r.key = k)
    BY <1>1, <2>2, RowParts
  <2>5. \A r \in R : r.key <= n + k
    BY <2>2, <2>3, <2>4
  <2> QED BY <2>2, <2>5
<1>7. Typed(u)
  <2> HIDE DEF u
  <2>1. u.rows[t] \subseteq RowType(t)
    BY <1>1, <1>3
  <2>2. \A r, q \in u.rows[t] : r.key = q.key => r = q
    BY <1>3, <1>5
  <2>3. t \in Counted => \E n \in Nat : \A r \in u.rows[t] : r.key <= n
    BY <1>3, <1>6
  <2> QED BY <1>3, <2>1, <2>2, <2>3, TypedOfTable
<1> HIDE DEF u
<1> QED BY <1>3, <1>4, <1>7

\* Retracting a row.
LEMMA RetractMakes ==
  ASSUME NEW s, Typed(s), NEW t \in Tables, NEW k
  PROVE  /\ Typed(Retract(s, t, k))
         /\ OnlyRowsOf(t, s, Retract(s, t, k))
         /\ Retract(s, t, k).rows[t] = {r \in s.rows[t] : r.key # k}
<1> DEFINE R == {r \in s.rows[t] : r.key # k}
           u == [s EXCEPT !.rows[t] = R]
<1>1. /\ R \subseteq RowType(t)
      /\ RowType(t) \subseteq [key : AllKeys, value : AllValues, decodes : BOOLEAN]
  BY RowParts DEF Typed
<1>2. s \in StoreType
  BY DEF Typed
<1>3. u \in StoreType /\ OnlyRowsOf(t, s, u) /\ u.rows[t] = R
  <2> HIDE DEF R
  <2> QED BY <1>1, <1>2, RowsReplaced
<1>4. Retract(s, t, k) = u
  <2>1. s.rows \in [Tables -> SUBSET [key : AllKeys, value : AllValues, decodes : BOOLEAN]]
    BY <1>2, StoreParts
  <2> QED BY <2>1 DEF Retract
<1>5. Typed(u)
  <2> HIDE DEF u
  <2>1. u.rows[t] \subseteq RowType(t)
    BY <1>1, <1>3
  <2>2. \A r, q \in u.rows[t] : r.key = q.key => r = q
    BY <1>3 DEF Typed, OneRowPerKey
  <2>3. t \in Counted => \E n \in Nat : \A r \in u.rows[t] : r.key <= n
    BY <1>3 DEF Typed
  <2> QED BY <1>3, <2>1, <2>2, <2>3, TypedOfTable
<1> HIDE DEF u
<1> QED BY <1>3, <1>4, <1>5

\* What is set aside under a key grows by one, numbered after the others.
LEMMA SetAsideMakes ==
  ASSUME NEW s, Typed(s), NEW t \in Tables, NEW r \in s.rows[t]
  PROVE  LET u == SetAside(s, t, r)
         IN  /\ Typed(u)
             /\ u.exists = s.exists /\ u.schema = s.schema /\ u.sidecars = s.sidecars
             /\ \A w \in Tables \ {t} : u.rows[w] = s.rows[w] /\ u.aside[w] = s.aside[w]
             /\ \A q : q \in u.rows[t] <=> q \in s.rows[t] /\ q.key # r.key
             /\ s.aside[t] \subseteq u.aside[t]
             /\ \E q \in u.aside[t] \ s.aside[t] : q.key = r.key /\ q.value = r.value
<1> DEFINE v   == Retract(s, t, r.key)
           u   == SetAside(s, t, r)
           set == [key |-> r.key, number |-> Cardinality(AsideOf(s, t, r.key)) + 1, value |-> r.value]
<1>1. /\ Typed(v) /\ OnlyRowsOf(t, s, v)
      /\ v.rows[t] = {q \in s.rows[t] : q.key # r.key}
  BY RetractMakes
<1>2. v \in StoreType /\ s \in StoreType
  BY <1>1 DEF Typed
<1>3. /\ r.key \in KeyType(t) /\ r.value \in ValueType(t)
      /\ r.key \in AllKeys /\ r.value \in AllValues
  <2>1. r.key \in KeyType(t) /\ r.value \in ValueType(t)
    BY TypedRows
  <2> QED BY <2>1 DEF AllKeys, AllValues
<1>4. /\ IsFiniteSet(AsideOf(s, t, r.key)) /\ Cardinality(AsideOf(s, t, r.key)) \in Nat
      /\ \A q \in AsideOf(s, t, r.key) : q.number <= Cardinality(AsideOf(s, t, r.key))
  BY FS_CardinalityType DEF Typed
<1>5. /\ set \in [key : AllKeys, number : Nat, value : AllValues]
      /\ set.key = r.key /\ set.value = r.value
      /\ set.number = Cardinality(AsideOf(s, t, r.key)) + 1
  BY <1>3, <1>4
<1>6. u = [v EXCEPT !.aside[t] = @ \union {set}]
  BY DEF SetAside, AsideOf
<1> HIDE DEF v, set
<1>7. /\ u.exists = v.exists /\ u.schema = v.schema /\ u.sidecars = v.sidecars
      /\ u.rows = v.rows /\ u.aside = [v.aside EXCEPT ![t] = @ \union {set}]
  BY <1>2, <1>6 DEF StoreType
<1>8. /\ u.aside[t] = s.aside[t] \union {set}
      /\ \A w \in Tables \ {t} : u.aside[w] = s.aside[w]
  <2>1. v.aside \in [Tables -> SUBSET [key : AllKeys, number : Nat, value : AllValues]]
    BY <1>2, StoreParts
  <2> QED BY <1>1, <1>7, <2>1 DEF OnlyRowsOf
<1>9. u \in StoreType
  <2>1. v.aside \in [Tables -> SUBSET [key : AllKeys, number : Nat, value : AllValues]]
    BY <1>2, StoreParts
  <2>2. u.aside \in [Tables -> SUBSET [key : AllKeys, number : Nat, value : AllValues]]
    BY <1>5, <1>7, <2>1
  <2> QED BY <1>2, <1>6, <1>7, <2>2 DEF StoreType
<1>10. set \notin s.aside[t]
  <2>1. SUFFICES ASSUME set \in s.aside[t] PROVE FALSE
    OBVIOUS
  <2>2. set \in AsideOf(s, t, r.key)
    BY <1>5, <2>1 DEF AsideOf
  <2>3. Cardinality(AsideOf(s, t, r.key)) + 1 <= Cardinality(AsideOf(s, t, r.key))
    BY <1>4, <1>5, <2>2
  <2> QED BY <1>4, <2>3
<1>11. \A w \in Tables : \A key :
         /\ IsFiniteSet(AsideOf(u, w, key))
         /\ \A q \in AsideOf(u, w, key) : q.number <= Cardinality(AsideOf(u, w, key))
  <2>1. ASSUME NEW w \in Tables, NEW key, w # t \/ key # r.key
        PROVE  AsideOf(u, w, key) = AsideOf(s, w, key)
    BY <1>5, <1>8, <2>1 DEF AsideOf
  <2>2. AsideOf(u, t, r.key) = AsideOf(s, t, r.key) \union {set}
    BY <1>5, <1>8 DEF AsideOf
  <2>3. /\ IsFiniteSet(AsideOf(u, t, r.key))
        /\ Cardinality(AsideOf(u, t, r.key)) = Cardinality(AsideOf(s, t, r.key)) + 1
    <3>1. set \notin AsideOf(s, t, r.key)
      BY <1>10 DEF AsideOf
    <3> QED BY <1>4, <2>2, <3>1, FS_AddElement
  <2>4. \A q \in AsideOf(s, t, r.key) : q.number \in Nat
    <3>1. s.aside[t] \subseteq [key : AllKeys, number : Nat, value : AllValues]
      BY <1>2, StoreParts
    <3> QED BY <3>1 DEF AsideOf
  <2>5. \A q \in AsideOf(u, t, r.key) : q.number <= Cardinality(AsideOf(u, t, r.key))
    BY <1>4, <1>5, <2>2, <2>3, <2>4
  <2> QED BY <2>1, <2>3, <2>5 DEF Typed
<1>12. Typed(u)
  <2>1. \A w \in Tables : u.rows[w] = v.rows[w]
    BY <1>7
  <2>2. /\ \A w \in Tables : u.rows[w] \subseteq RowType(w)
        /\ OneRowPerKey(u)
        /\ \A w \in Counted : \E n \in Nat : \A q \in u.rows[w] : q.key <= n
    BY <1>1, <2>1, TheTables DEF Typed, OneRowPerKey
  <2> QED BY <1>9, <1>11, <2>2 DEF Typed
<1> HIDE DEF u
<1>13. /\ u.exists = s.exists /\ u.schema = s.schema /\ u.sidecars = s.sidecars
       /\ \A w \in Tables \ {t} : u.rows[w] = s.rows[w] /\ u.aside[w] = s.aside[w]
       /\ u.rows[t] = {q \in s.rows[t] : q.key # r.key}
  BY <1>1, <1>7, <1>8 DEF OnlyRowsOf
<1>14. set \in u.aside[t] \ s.aside[t]
  BY <1>8, <1>10
<1>15. \A q : q \in u.rows[t] <=> q \in s.rows[t] /\ q.key # r.key
  BY <1>13
<1> QED BY <1>5, <1>8, <1>12, <1>13, <1>14, <1>15 DEF u

-----------------------------------------------------------------------------
(* Reading a store, and what each commit of an opening writes. *)

\* A row is what its key reads.
LEMMA ReadRow ==
  ASSUME NEW s, Typed(s), NEW t \in Tables, NEW r \in s.rows[t]
  PROVE  Has(s, t, r.key) /\ Read(s, t, r.key) = r.value
<1>1. \A q \in s.rows[t] : q.key = r.key => q = r
  BY TypedRows
<1>2. (CHOOSE q \in s.rows[t] : q.key = r.key) = r
  BY <1>1
<1> QED BY <1>2 DEF Has, Read

\* An undecodable table is one of those not read.
LEMMA AllDecode ==
  ASSUME NEW s, Unread(s) = {}
  PROVE  \A t \in Tables : \A r \in s.rows[t] : r.decodes
BY DEF Unread, Undecodable

\* A set of numbers has a least one.
LEMMA LeastExists ==
  ASSUME NEW S \in SUBSET Nat, S # {}
  PROVE  \E m \in S : \A n \in S : m <= n
<1> DEFINE R == OpToRel(<, Nat)
<1>1. IsWellFoundedOn(R, Nat)
  BY NatLessThanWellFounded
<1>2. \E x \in S : \A y \in S : ~(<<y, x>> \in R)
  <2> HIDE DEF R
  <2> QED BY <1>1, WFMin
<1>3. \A x, y \in Nat : <<y, x>> \in R <=> y < x
  BY DEF OpToRel
<1> HIDE DEF R
<1>4. PICK m \in S : \A n \in S : ~(<<n, m>> \in R)
  BY <1>2
<1>5. ASSUME NEW n \in S
      PROVE  m <= n
  <2>1. n \in Nat /\ m \in Nat
    OBVIOUS
  <2>2. ~(n < m)
    BY <1>3, <1>4, <2>1
  <2> QED BY <2>1, <2>2
<1> QED BY <1>5

\* A bounded set of numbers has a greatest one: the least bound is its member.
LEMMA GreatestExists ==
  ASSUME NEW S \in SUBSET Nat, S # {}, NEW b \in Nat, \A n \in S : n <= b
  PROVE  \E m \in S : \A n \in S : n <= m
<1> DEFINE U == {u \in Nat : \A n \in S : n <= u}
<1>1. PICK u \in U : \A w \in U : u <= w
  <2>1. b \in U /\ U \in SUBSET Nat
    OBVIOUS
  <2> HIDE DEF U
  <2> QED BY <2>1, LeastExists
<1>2. u \in S
  <2>1. SUFFICES ASSUME u \notin S PROVE FALSE
    OBVIOUS
  <2>2. \A n \in S : n <= u - 1
    BY <2>1
  <2>3. u - 1 \in Nat
    <3>1. PICK n \in S : TRUE
      OBVIOUS
    <3> QED BY <3>1, <2>2
  <2>4. u - 1 \in U
    BY <2>2, <2>3
  <2> QED BY <2>4, <1>1
<1> QED BY <1>1, <1>2

\* One more than a bounded set of numbers is above all of them.
LEMMA OneMoreIsAbove ==
  ASSUME NEW numbers \in SUBSET Nat, NEW otherwise \in Nat, NEW b \in Nat,
         \A n \in numbers : n <= b
  PROVE  /\ OneMoreThan(numbers, otherwise) \in Nat
         /\ \A n \in numbers : n < OneMoreThan(numbers, otherwise)
<1>1. CASE numbers = {}
  BY <1>1 DEF OneMoreThan
<1>2. CASE numbers # {}
  <2> DEFINE m == CHOOSE m \in numbers : \A n \in numbers : n <= m
  <2>1. \E x \in numbers : \A n \in numbers : n <= x
    BY <1>2, GreatestExists
  <2>2. m \in numbers /\ \A n \in numbers : n <= m
    BY <2>1
  <2>3. OneMoreThan(numbers, otherwise) = 1 + m
    BY <1>2 DEF OneMoreThan
  <2> HIDE DEF m
  <2> QED BY <2>2, <2>3
<1> QED BY <1>1, <1>2

\* A rebuilt allocation is above every live generation, job and logged event.
LEMMA AllocationMakes ==
  ASSUME NEW s, Typed(s), s.rows["allocation"] = {}
  PROVE  \E v \in ValueType("allocation") :
           /\ EnsureAllocation(s) = Put(s, "allocation", 0, v)
           /\ \A r \in s.rows["live"] \union s.rows["job"] : r.key < v.identifier
           /\ \A r \in s.rows["log"] : r.key < v.position
           /\ s.rows["live"] \union s.rows["job"] = {} => v.identifier = 1
<1> DEFINE busy   == Keys(s, "live") \union Keys(s, "job")
           logged == Keys(s, "log")
           v      == [identifier |-> OneMoreThan(busy, 1), position |-> OneMoreThan(logged, 0)]
<1>1. /\ \A r \in s.rows["live"] \union s.rows["job"] : r.key \in Nat /\ r.key \in busy
      /\ \A r \in s.rows["log"] : r.key \in Nat /\ r.key \in logged
  BY TypedRows, TheTables, TableTypes DEF Keys
<1>2. busy \in SUBSET Nat /\ logged \in SUBSET Nat
  BY <1>1 DEF Keys
<1>3. \E b \in Nat : \A n \in busy : n <= b
  <2>1. PICK l \in Nat : \A r \in s.rows["live"] : r.key <= l
    BY DEF Typed, Counted
  <2>2. PICK j \in Nat : \A r \in s.rows["job"] : r.key <= j
    BY DEF Typed, Counted
  <2>3. \A n \in busy : n <= l \/ n <= j
    BY <2>1, <2>2 DEF Keys
  <2>4. \A n \in busy : n <= l + j
    BY <1>2, <2>3
  <2> QED BY <2>4
<1>4. \E b \in Nat : \A n \in logged : n <= b
  <2>1. PICK l \in Nat : \A r \in s.rows["log"] : r.key <= l
    BY DEF Typed, Counted
  <2> QED BY <2>1 DEF Keys
<1>5. EnsureAllocation(s) = Put(s, "allocation", 0, v)
  BY DEF EnsureAllocation
<1>6. busy = {} => OneMoreThan(busy, 1) = 1
  BY DEF OneMoreThan
<1>9. s.rows["live"] \union s.rows["job"] = {} => busy = {}
  BY DEF Keys
<1> HIDE DEF busy, logged
<1>7. /\ OneMoreThan(busy, 1) \in Nat /\ \A n \in busy : n < OneMoreThan(busy, 1)
      /\ OneMoreThan(logged, 0) \in Nat /\ \A n \in logged : n < OneMoreThan(logged, 0)
  BY <1>2, <1>3, <1>4, OneMoreIsAbove
<1>8. /\ v \in ValueType("allocation")
      /\ v.identifier = OneMoreThan(busy, 1) /\ v.position = OneMoreThan(logged, 0)
  BY <1>7, TableTypes
<1> HIDE DEF v
<1> QED BY <1>1, <1>5, <1>6, <1>7, <1>8, <1>9

\* The rows of the intents, and of the deliveries.
LEMMA IntentParts ==
  ASSUME NEW s, Typed(s)
  PROVE  \A i \in s.rows["intent"] :
           /\ i.key \in Transitions /\ i.key[1] \in Nat /\ i.key[2] \in {0, 1}
           /\ i.key = <<i.key[1], i.key[2]>>
           /\ i.value \in IntentType /\ i.value.position \in Nat
           /\ i.value.state \in {"Pending", "Bound", "Appended", "Acknowledged"}
           /\ \A state \in {"Pending", "Bound", "Appended", "Acknowledged"} :
                /\ [i.value EXCEPT !.state = state] \in IntentType
                /\ [i.value EXCEPT !.state = state].state = state
                /\ [i.value EXCEPT !.state = state].position = i.value.position
<1>1. \A i \in s.rows["intent"] : i.key \in Transitions /\ i.value \in IntentType
  BY TypedRows, TheTables, TableTypes
<1>2. \A k \in Transitions : k[1] \in Nat /\ k[2] \in {0, 1} /\ k = <<k[1], k[2]>>
  BY DEF Transitions
<1>3. \A v \in IntentType :
        /\ v.position \in Nat /\ v.state \in {"Pending", "Bound", "Appended", "Acknowledged"}
        /\ \A state \in {"Pending", "Bound", "Appended", "Acknowledged"} :
             /\ [v EXCEPT !.state = state] \in IntentType
             /\ [v EXCEPT !.state = state].state = state
             /\ [v EXCEPT !.state = state].position = v.position
  BY DEF IntentType
<1> QED BY <1>1, <1>2, <1>3

\* The rows of a table with one put.
Replaced(rows, k, v) == {r \in rows : r.key # k} \union {Row(k, v)}

InState(value, state) == [value EXCEPT !.state = state]

\* The same store outside some tables.
OnlyIn(tables, s, u) ==
  /\ u.exists = s.exists /\ u.schema = s.schema /\ u.sidecars = s.sidecars /\ u.aside = s.aside
  /\ \A w \in Tables : w \notin tables => u.rows[w] = s.rows[w]

\* A new state of an intent.
LEMMA IntentPut ==
  ASSUME NEW s, Typed(s), NEW i \in s.rows["intent"],
         NEW state \in {"Pending", "Bound", "Appended", "Acknowledged"}
  PROVE  LET u == WithState(s, "intent", i.key, state)
         IN  /\ Typed(u) /\ OnlyRowsOf("intent", s, u)
             /\ u.rows["intent"] = Replaced(s.rows["intent"], i.key, InState(i.value, state))
<1>1. Read(s, "intent", i.key) = i.value
  BY ReadRow, TheTables
<1>2. WithState(s, "intent", i.key, state) = Put(s, "intent", i.key, InState(i.value, state))
  BY <1>1 DEF WithState, InState
<1>3. /\ i.key \in KeyType("intent") /\ InState(i.value, state) \in ValueType("intent")
      /\ "intent" \in Tables
  BY IntentParts, TableTypes, TheTables DEF InState
<1>4. /\ Typed(Put(s, "intent", i.key, InState(i.value, state)))
      /\ OnlyRowsOf("intent", s, Put(s, "intent", i.key, InState(i.value, state)))
      /\ Put(s, "intent", i.key, InState(i.value, state)).rows["intent"]
           = {r \in s.rows["intent"] : r.key # i.key} \union {Row(i.key, InState(i.value, state))}
  BY <1>3, PutMakes
<1> QED BY <1>2, <1>4 DEF Replaced

\* A new state of a delivery.
LEMMA DeliveryPut ==
  ASSUME NEW s, Typed(s), NEW o \in s.rows["outbox"],
         NEW state \in {"Pending", "Dispatched", "Acknowledged"}
  PROVE  LET u == WithState(s, "outbox", o.key, state)
         IN  /\ Typed(u) /\ OnlyRowsOf("outbox", s, u)
             /\ u.rows["outbox"] = Replaced(s.rows["outbox"], o.key, InState(o.value, state))
<1>1. Read(s, "outbox", o.key) = o.value
  BY ReadRow, TheTables
<1>2. WithState(s, "outbox", o.key, state) = Put(s, "outbox", o.key, InState(o.value, state))
  BY <1>1 DEF WithState, InState
<1>3. o.key \in KeyType("outbox") /\ o.value \in ValueType("outbox") /\ "outbox" \in Tables
  BY TypedRows, TheTables
<1>4. InState(o.value, state) \in ValueType("outbox")
  <2>1. \A v \in [state : {"Pending", "Dispatched", "Acknowledged"}] :
          [v EXCEPT !.state = state] \in [state : {"Pending", "Dispatched", "Acknowledged"}]
    OBVIOUS
  <2> QED BY <1>3, <2>1, TableTypes DEF InState
<1>5. /\ Typed(Put(s, "outbox", o.key, InState(o.value, state)))
      /\ OnlyRowsOf("outbox", s, Put(s, "outbox", o.key, InState(o.value, state)))
      /\ Put(s, "outbox", o.key, InState(o.value, state)).rows["outbox"]
           = {r \in s.rows["outbox"] : r.key # o.key} \union {Row(o.key, InState(o.value, state))}
  BY <1>3, <1>4, PutMakes
<1> QED BY <1>2, <1>4, <1>5 DEF Replaced

\* Binding a transition gives it its delivery row.
LEMMA BindMakes ==
  ASSUME NEW s, Typed(s), NEW i \in s.rows["intent"]
  PROVE  LET u == Bind(s, i.key)
         IN  /\ Typed(u) /\ OnlyIn({"intent", "outbox"}, s, u)
             /\ u.rows["intent"] = Replaced(s.rows["intent"], i.key, InState(i.value, "Bound"))
             /\ u.rows["outbox"] = Replaced(s.rows["outbox"], i.key, [state |-> "Pending"])
<1> DEFINE v == WithState(s, "intent", i.key, "Bound")
           u == Put(v, "outbox", i.key, [state |-> "Pending"])
<1>1. /\ Typed(v) /\ OnlyRowsOf("intent", s, v)
      /\ v.rows["intent"] = Replaced(s.rows["intent"], i.key, InState(i.value, "Bound"))
  BY IntentPut
<1>2. Bind(s, i.key) = u
  BY DEF Bind
<1> HIDE DEF v
<1>3. i.key \in KeyType("outbox") /\ [state |-> "Pending"] \in ValueType("outbox")
      /\ "outbox" \in Tables
  BY IntentParts, TableTypes, TheTables
<1>4. /\ Typed(u) /\ OnlyRowsOf("outbox", v, u)
      /\ u.rows["outbox"] = {r \in v.rows["outbox"] : r.key # i.key} \union {Row(i.key, [state |-> "Pending"])}
  BY <1>1, <1>3, PutMakes
<1> HIDE DEF u
<1>5. /\ OnlyIn({"intent", "outbox"}, s, u)
      /\ u.rows["intent"] = v.rows["intent"] /\ v.rows["outbox"] = s.rows["outbox"]
  BY <1>1, <1>4, TheTables DEF OnlyRowsOf, OnlyIn
<1> QED BY <1>1, <1>2, <1>4, <1>5 DEF Replaced

\* Appending a transition writes its event at its position.
LEMMA AppendMakes ==
  ASSUME NEW s, Typed(s), NEW i \in s.rows["intent"]
  PROVE  LET u == AppendEvent(s, i.key)
         IN  /\ Typed(u) /\ OnlyIn({"intent", "log"}, s, u)
             /\ u.rows["intent"] = Replaced(s.rows["intent"], i.key, InState(i.value, "Appended"))
             /\ u.rows["log"] = Replaced(s.rows["log"], i.value.position, i.key)
<1> DEFINE v == WithState(s, "intent", i.key, "Appended")
           u == Put(v, "log", i.value.position, i.key)
<1>1. /\ Typed(v) /\ OnlyRowsOf("intent", s, v)
      /\ v.rows["intent"] = Replaced(s.rows["intent"], i.key, InState(i.value, "Appended"))
  BY IntentPut
<1>2. AppendEvent(s, i.key) = u
  BY ReadRow, TheTables DEF AppendEvent
<1> HIDE DEF v
<1>3. i.value.position \in KeyType("log") /\ i.key \in ValueType("log") /\ "log" \in Tables
  BY IntentParts, TableTypes, TheTables
<1>4. /\ Typed(u) /\ OnlyRowsOf("log", v, u)
      /\ u.rows["log"] = {r \in v.rows["log"] : r.key # i.value.position} \union {Row(i.value.position, i.key)}
  BY <1>1, <1>3, PutMakes
<1> HIDE DEF u
<1>5. /\ OnlyIn({"intent", "log"}, s, u)
      /\ u.rows["intent"] = v.rows["intent"] /\ v.rows["log"] = s.rows["log"]
  BY <1>1, <1>4, TheTables DEF OnlyRowsOf, OnlyIn
<1> QED BY <1>1, <1>2, <1>4, <1>5 DEF Replaced

\* Acknowledging a transition settles its delivery and, of a terminal, the job.
LEMMA AcknowledgeMakes ==
  ASSUME NEW s, Typed(s), NEW i \in s.rows["intent"], NEW o \in s.rows["outbox"], o.key = i.key
  PROVE  LET u == Acknowledge(s, i.key)
         IN  /\ Typed(u) /\ OnlyIn({"intent", "outbox", "job"}, s, u)
             /\ u.rows["intent"] = Replaced(s.rows["intent"], i.key, InState(i.value, "Acknowledged"))
             /\ u.rows["outbox"] = Replaced(s.rows["outbox"], i.key, InState(o.value, "Acknowledged"))
             /\ u.rows["job"] = {r \in s.rows["job"] : i.key[2] = 1 => r.key # i.key[1]}
<1> DEFINE v == WithState(s, "outbox", i.key, "Acknowledged")
           w == WithState(v, "intent", i.key, "Acknowledged")
           u == Acknowledge(s, i.key)
<1>1. /\ Typed(v) /\ OnlyRowsOf("outbox", s, v)
      /\ v.rows["outbox"] = Replaced(s.rows["outbox"], i.key, InState(o.value, "Acknowledged"))
  BY DeliveryPut
<1>2. u = IF i.key[2] = 1 THEN Retract(w, "job", i.key[1]) ELSE w
  BY DEF Acknowledge
<1> HIDE DEF v, u
<1>3. v.rows["intent"] = s.rows["intent"] /\ v.rows["job"] = s.rows["job"]
  BY <1>1, TheTables DEF OnlyRowsOf
<1>4. /\ Typed(w) /\ OnlyRowsOf("intent", v, w)
      /\ w.rows["intent"] = Replaced(v.rows["intent"], i.key, InState(i.value, "Acknowledged"))
  BY <1>1, <1>3, IntentPut
<1> HIDE DEF w
<1>5. /\ Typed(w) /\ OnlyIn({"intent", "outbox"}, s, w)
      /\ w.rows["intent"] = Replaced(s.rows["intent"], i.key, InState(i.value, "Acknowledged"))
      /\ w.rows["outbox"] = Replaced(s.rows["outbox"], i.key, InState(o.value, "Acknowledged"))
      /\ w.rows["job"] = s.rows["job"]
  BY <1>1, <1>3, <1>4, TheTables DEF OnlyRowsOf, OnlyIn
<1>6. CASE i.key[2] = 1
  <2>1. u = Retract(w, "job", i.key[1])
    BY <1>2, <1>6
  <2>2. /\ Typed(u) /\ OnlyRowsOf("job", w, u)
        /\ u.rows["job"] = {r \in w.rows["job"] : r.key # i.key[1]}
    BY <1>5, <2>1, RetractMakes, TheTables
  <2>3. /\ OnlyIn({"intent", "outbox", "job"}, s, u)
        /\ u.rows["intent"] = w.rows["intent"] /\ u.rows["outbox"] = w.rows["outbox"]
    BY <1>5, <2>2, TheTables DEF OnlyRowsOf, OnlyIn
  <2> QED BY <1>5, <1>6, <2>2, <2>3 DEF u
<1>7. CASE i.key[2] # 1
  <2>1. u = w
    BY <1>2, <1>7
  <2>2. OnlyIn({"intent", "outbox", "job"}, s, u)
    BY <1>5, <2>1 DEF OnlyIn
  <2>3. u.rows["job"] = {r \in s.rows["job"] : i.key[2] = 1 => r.key # i.key[1]}
    BY <1>5, <1>7, <2>1
  <2> QED BY <1>5, <2>1, <2>2, <2>3 DEF u
<1> QED BY <1>6, <1>7

\* Requeuing takes the dispatched deliveries back.
LEMMA RequeueMakes ==
  ASSUME NEW s, Typed(s)
  PROVE  /\ Typed(Requeue(s)) /\ OnlyRowsOf("outbox", s, Requeue(s))
         /\ \A o \in s.rows["outbox"] : \E r \in Requeue(s).rows["outbox"] :
              r.key = o.key /\ r.decodes = o.decodes
         /\ \A r \in Requeue(s).rows["outbox"] : \E o \in s.rows["outbox"] :
              o.key = r.key /\ o.decodes = r.decodes
<1> DEFINE Back(r) == IF r.value.state = "Dispatched" THEN [r EXCEPT !.value.state = "Pending"] ELSE r
           R == {Back(r) : r \in s.rows["outbox"]}
           u == [s EXCEPT !.rows["outbox"] = R]
<1>1. "outbox" \in Tables /\ s \in StoreType
  BY TheTables DEF Typed
<1>2. \A r \in RowType("outbox") :
        /\ Back(r) \in RowType("outbox") /\ Back(r).key = r.key /\ Back(r).decodes = r.decodes
  <2> DEFINE States == [state : {"Pending", "Dispatched", "Acknowledged"}]
  <2>1. RowType("outbox") = [key : Transitions, value : States, decodes : BOOLEAN]
    BY TableTypes DEF RowType
  <2>2. \A v \in States : [v EXCEPT !.state = "Pending"] \in States
    OBVIOUS
  <2>3. ASSUME NEW K, NEW V, NEW r \in [key : K, value : V, decodes : BOOLEAN], NEW v \in V
        PROVE  LET b == [r EXCEPT !.value = v]
               IN  /\ b \in [key : K, value : V, decodes : BOOLEAN]
                   /\ b.key = r.key /\ b.decodes = r.decodes
    OBVIOUS
  <2> HIDE DEF States
  <2>4. ASSUME NEW r \in RowType("outbox")
        PROVE  LET b == [r EXCEPT !.value = [r.value EXCEPT !.state = "Pending"]]
               IN  b \in RowType("outbox") /\ b.key = r.key /\ b.decodes = r.decodes
    <3>1. r \in [key : Transitions, value : States, decodes : BOOLEAN] /\ r.value \in States
      BY <2>1
    <3>2. [r.value EXCEPT !.state = "Pending"] \in States
      BY <2>2, <3>1
    <3> QED BY <2>1, <2>3, <3>1, <3>2
  <2> QED BY <2>4
<1>3. Requeue(s) = u
  <2>1. s.rows \in [Tables -> SUBSET [key : AllKeys, value : AllValues, decodes : BOOLEAN]]
    BY <1>1, StoreParts
  <2> QED BY <1>1, <2>1 DEF Requeue
<1>4. s.rows["outbox"] \subseteq RowType("outbox")
  BY <1>1, TypedRows
<1>5. R \subseteq RowType("outbox")
  BY <1>2, <1>4
<1>6. /\ \A o \in s.rows["outbox"] : \E r \in R : r.key = o.key /\ r.decodes = o.decodes
      /\ \A r \in R : \E o \in s.rows["outbox"] : o.key = r.key /\ o.decodes = r.decodes
  BY <1>2, <1>4
<1>7. \A r, q \in R : r.key = q.key => r = q
  <2>1. ASSUME NEW r \in s.rows["outbox"], NEW q \in s.rows["outbox"],
               Back(r).key = Back(q).key
        PROVE  Back(r) = Back(q)
    <3>1. r.key = q.key
      <4> HIDE DEF Back
      <4> QED BY <1>2, <1>4, <2>1
    <3>2. r = q
      BY <1>1, <3>1, TypedRows
    <3> QED BY <3>2
  <2> HIDE DEF Back
  <2> QED BY <2>1
<1>8. R \subseteq [key : AllKeys, value : AllValues, decodes : BOOLEAN]
  BY <1>1, <1>5, RowParts
<1> HIDE DEF R
<1>9. u \in StoreType /\ OnlyRowsOf("outbox", s, u) /\ u.rows["outbox"] = R
  BY <1>1, <1>8, RowsReplaced
<1> HIDE DEF u
<1>10. Typed(u)
  <2>1. "outbox" \notin Counted
    BY DEF Counted
  <2> QED BY <1>1, <1>5, <1>7, <1>9, <2>1, TypedOfTable
<1> QED BY <1>3, <1>6, <1>9, <1>10

\* Every logged event without a delivery row gets one.
LEMMA ReconcileMakes ==
  ASSUME NEW s, Typed(s)
  PROVE  /\ Typed(ReconcileOutbox(s)) /\ OnlyRowsOf("outbox", s, ReconcileOutbox(s))
         /\ s.rows["outbox"] \subseteq ReconcileOutbox(s).rows["outbox"]
         /\ \A r \in ReconcileOutbox(s).rows["outbox"] : r \in s.rows["outbox"] \/ r.decodes
<1> DEFINE lost == {q \in s.rows["log"] : ~Has(s, "outbox", q.value)}
           made == {Row(r.value, [state |-> "Pending"]) : r \in lost}
           R == s.rows["outbox"] \union made
           u == [s EXCEPT !.rows["outbox"] = R]
<1>1. "outbox" \in Tables /\ "log" \in Tables /\ s \in StoreType
  BY TheTables DEF Typed
<1>2. \A q \in s.rows["log"] : q.value \in KeyType("outbox")
  BY <1>1, TypedRows, TableTypes
<1>3. [state |-> "Pending"] \in ValueType("outbox")
  BY TableTypes
<1>4. \A k \in KeyType("outbox") :
        /\ Row(k, [state |-> "Pending"]) \in RowType("outbox")
        /\ Row(k, [state |-> "Pending"]).key = k /\ Row(k, [state |-> "Pending"]).decodes = TRUE
  BY <1>1, <1>3, RowWritten
<1>5. ReconcileOutbox(s) = u
  <2>1. s.rows \in [Tables -> SUBSET [key : AllKeys, value : AllValues, decodes : BOOLEAN]]
    BY <1>1, StoreParts
  <2> QED BY <1>1, <2>1 DEF ReconcileOutbox
<1>6. \A r \in made : /\ r \in RowType("outbox") /\ r.decodes /\ ~Has(s, "outbox", r.key)
                      /\ r = Row(r.key, [state |-> "Pending"])
  BY <1>2, <1>4
<1>7. R \subseteq RowType("outbox")
  BY <1>1, <1>6, TypedRows
<1>8. \A r, q \in R : r.key = q.key => r = q
  <2> HIDE DEF made
  <2>1. \A r, q \in s.rows["outbox"] : r.key = q.key => r = q
    BY <1>1, TypedRows
  <2>2. \A r \in made, q \in s.rows["outbox"] : r.key # q.key
    BY <1>6 DEF Has
  <2>3. \A r, q \in made : r.key = q.key => r = q
    BY <1>6
  <2> QED BY <2>1, <2>2, <2>3
<1>9. R \subseteq [key : AllKeys, value : AllValues, decodes : BOOLEAN]
  BY <1>1, <1>7, RowParts
<1>10. s.rows["outbox"] \subseteq R /\ \A r \in R : r \in s.rows["outbox"] \/ r.decodes
  BY <1>6
<1> HIDE DEF R
<1>11. u \in StoreType /\ OnlyRowsOf("outbox", s, u) /\ u.rows["outbox"] = R
  BY <1>1, <1>9, RowsReplaced
<1> HIDE DEF u
<1>12. Typed(u)
  <2>1. "outbox" \notin Counted
    BY DEF Counted
  <2> QED BY <1>1, <1>7, <1>8, <1>11, <2>1, TypedOfTable
<1> QED BY <1>5, <1>10, <1>11, <1>12

-----------------------------------------------------------------------------
(* What a store keeps from one opening to the next. *)

\* A pending transition has its record, until records are set aside.
RecordKept(s) ==
  s.aside["record"] = {} =>
    \A i \in s.rows["intent"] : i.value.state = "Pending" =>
      \E r \in s.rows["record"] : r.key = i.key[1]

\* A bound or appended transition has its delivery row.
OutboxKept(s) ==
  s.aside["outbox"] = {} =>
    \A i \in s.rows["intent"] : i.value.state \in {"Bound", "Appended"} =>
      \E r \in s.rows["outbox"] : r.key = i.key

\* The allocation, a rebuilt one too, is above every live generation and job.
IdentifierFree(s) ==
  \A a \in s.rows["allocation"] :
    \A r \in s.rows["live"] \union s.rows["job"] : r.key < a.value.identifier

\* One never set aside is above everything, and missing from empty stores only.
AllocationKept(s) ==
  s.aside["allocation"] = {} =>
    /\ \A a \in s.rows["allocation"] :
         /\ \A r \in s.rows["record"] : r.key < a.value.identifier
         /\ \A i \in s.rows["intent"] : /\ i.key[1] < a.value.identifier
                                        /\ i.value.position < a.value.position
         /\ \A l \in s.rows["log"] : l.key < a.value.position
    /\ s.rows["allocation"] = {} =>
         \A t \in {"live", "log", "job", "record", "intent"} : s.rows[t] = {}

\* No two transitions, and no event of another one, at one position.
PositionsApart(s) ==
  s.aside["allocation"] = {} =>
    \A i \in s.rows["intent"] :
      /\ \A j \in s.rows["intent"] : j.value.position = i.value.position => j.key = i.key
      /\ \A l \in s.rows["log"] : l.key = i.value.position => l.value = i.key

Kept(s) ==
  /\ RecordKept(s)
  /\ OutboxKept(s)
  /\ IdentifierFree(s)
  /\ AllocationKept(s)
  /\ PositionsApart(s)

Sound(s) == Typed(s) /\ Kept(s)

\* The rows of a table with one put, member by member.
LEMMA ReplacedRows ==
  ASSUME NEW rows, NEW k, NEW v
  PROVE  /\ \A r \in Replaced(rows, k, v) :
              \/ r \in rows /\ r.key # k
              \/ r.key = k /\ r.value = v /\ r.decodes
         /\ \E r \in Replaced(rows, k, v) : r.key = k /\ r.value = v /\ r.decodes
         /\ \A r \in rows : r.key # k => r \in Replaced(rows, k, v)
<1> DEFINE new == Row(k, v)
<1>1. new.key = k /\ new.value = v /\ new.decodes
  BY DEF Row
<1> HIDE DEF new
<1>2. Replaced(rows, k, v) = {r \in rows : r.key # k} \union {new}
  BY DEF Replaced, new
<1>3. \A r \in Replaced(rows, k, v) :
        \/ r \in rows /\ r.key # k
        \/ r.key = k /\ r.value = v /\ r.decodes
  BY <1>1, <1>2
<1>4. \E r \in Replaced(rows, k, v) : r.key = k /\ r.value = v /\ r.decodes
  BY <1>1, <1>2
<1>5. \A r \in rows : r.key # k => r \in Replaced(rows, k, v)
  BY <1>2
<1> QED BY <1>3, <1>4, <1>5

\* One intent has moved to another state, the others stayed.
Moved(s, u, i, state) ==
  /\ \A j \in u.rows["intent"] :
       \/ j \in s.rows["intent"] /\ j.key # i.key
       \/ /\ j.key = i.key /\ j.value.position = i.value.position
          /\ j.value.state = state /\ j.decodes
  /\ \E j \in u.rows["intent"] : j.key = i.key /\ j.value.state = state
                                 /\ j.value.position = i.value.position /\ j.decodes
  /\ \A j \in s.rows["intent"] : j.key # i.key => j \in u.rows["intent"]

\* A put intent has moved.
LEMMA PutMoves ==
  ASSUME NEW s, Typed(s), NEW u, NEW i \in s.rows["intent"],
         NEW state \in {"Pending", "Bound", "Appended", "Acknowledged"},
         u.rows["intent"] = Replaced(s.rows["intent"], i.key, InState(i.value, state))
  PROVE  Moved(s, u, i, state)
<1> DEFINE v == InState(i.value, state)
<1>1. v.state = state /\ v.position = i.value.position
  BY IntentParts DEF InState
<1> HIDE DEF v
<1>2. u.rows["intent"] = Replaced(s.rows["intent"], i.key, v)
  BY DEF v
<1> DEFINE after == Replaced(s.rows["intent"], i.key, v)
<1>3. /\ \A r \in after :
           \/ r \in s.rows["intent"] /\ r.key # i.key
           \/ r.key = i.key /\ r.value = v /\ r.decodes
      /\ \E r \in after : r.key = i.key /\ r.value = v /\ r.decodes
      /\ \A r \in s.rows["intent"] : r.key # i.key => r \in after
  BY ReplacedRows
<1>4. u.rows["intent"] = after
  BY <1>2
<1> HIDE DEF after
<1> QED BY <1>1, <1>3, <1>4 DEF Moved

\* Only the configuration changes: what is kept does not speak of it.
LEMMA ConfigurationSound ==
  ASSUME NEW s, Sound(s), NEW u, Typed(u), OnlyRowsOf("configuration", s, u)
  PROVE  Sound(u)
<1>1. /\ u.aside = s.aside /\ u.rows["live"] = s.rows["live"] /\ u.rows["log"] = s.rows["log"]
      /\ u.rows["job"] = s.rows["job"] /\ u.rows["record"] = s.rows["record"]
      /\ u.rows["allocation"] = s.rows["allocation"] /\ u.rows["outbox"] = s.rows["outbox"]
      /\ u.rows["intent"] = s.rows["intent"]
  BY TheTables DEF OnlyRowsOf
<1>2. /\ RecordKept(s) /\ OutboxKept(s) /\ IdentifierFree(s) /\ AllocationKept(s)
      /\ PositionsApart(s)
  BY DEF Sound, Kept
<1>3. RecordKept(u)
  BY <1>1, <1>2 DEF RecordKept
<1>4. OutboxKept(u)
  BY <1>1, <1>2 DEF OutboxKept
<1>5. IdentifierFree(u)
  BY <1>1, <1>2 DEF IdentifierFree
<1>6. AllocationKept(u)
  BY <1>1, <1>2 DEF AllocationKept
<1>7. PositionsApart(u)
  BY <1>1, <1>2 DEF PositionsApart
<1> QED BY <1>3, <1>4, <1>5, <1>6, <1>7 DEF Sound, Kept

\* Only delivery rows change, and no key of theirs goes.
LEMMA OutboxSound ==
  ASSUME NEW s, Sound(s), NEW u, Typed(u), OnlyRowsOf("outbox", s, u),
         \A o \in s.rows["outbox"] : \E r \in u.rows["outbox"] : r.key = o.key
  PROVE  Sound(u)
<1>1. /\ u.aside = s.aside /\ u.rows["live"] = s.rows["live"] /\ u.rows["log"] = s.rows["log"]
      /\ u.rows["job"] = s.rows["job"] /\ u.rows["record"] = s.rows["record"]
      /\ u.rows["allocation"] = s.rows["allocation"]
      /\ u.rows["intent"] = s.rows["intent"]
  BY TheTables DEF OnlyRowsOf
<1>2. /\ RecordKept(s) /\ OutboxKept(s) /\ IdentifierFree(s) /\ AllocationKept(s)
      /\ PositionsApart(s)
  BY DEF Sound, Kept
<1>3. RecordKept(u)
  BY <1>1, <1>2 DEF RecordKept
<1>4. OutboxKept(u)
  BY <1>1, <1>2 DEF OutboxKept
<1>5. IdentifierFree(u)
  BY <1>1, <1>2 DEF IdentifierFree
<1>6. AllocationKept(u)
  BY <1>1, <1>2 DEF AllocationKept
<1>7. PositionsApart(u)
  BY <1>1, <1>2 DEF PositionsApart
<1> QED BY <1>3, <1>4, <1>5, <1>6, <1>7 DEF Sound, Kept

\* Setting a row aside.
LEMMA SetAsideSound ==
  ASSUME NEW s, Sound(s), NEW t \in Tables, NEW r \in s.rows[t]
  PROVE  Sound(SetAside(s, t, r))
<1> DEFINE u == SetAside(s, t, r)
<1>1. /\ Typed(u)
      /\ \A w \in Tables \ {t} : u.rows[w] = s.rows[w] /\ u.aside[w] = s.aside[w]
      /\ \A q : q \in u.rows[t] <=> q \in s.rows[t] /\ q.key # r.key
      /\ u.aside[t] # {}
  BY SetAsideMakes DEF Sound
<1> HIDE DEF u
<1>2. \A w \in Tables : /\ u.rows[w] \subseteq s.rows[w]
                        /\ u.aside[w] = {} => s.aside[w] = {} /\ u.rows[w] = s.rows[w]
  BY <1>1
<1>3. /\ u.rows["live"] \subseteq s.rows["live"] /\ u.rows["log"] \subseteq s.rows["log"]
      /\ u.rows["job"] \subseteq s.rows["job"] /\ u.rows["record"] \subseteq s.rows["record"]
      /\ u.rows["allocation"] \subseteq s.rows["allocation"]
      /\ u.rows["intent"] \subseteq s.rows["intent"]
      /\ u.aside["record"] = {} => s.aside["record"] = {} /\ u.rows["record"] = s.rows["record"]
      /\ u.aside["outbox"] = {} => s.aside["outbox"] = {} /\ u.rows["outbox"] = s.rows["outbox"]
      /\ u.aside["allocation"] = {} =>
           s.aside["allocation"] = {} /\ u.rows["allocation"] = s.rows["allocation"]
  BY <1>2, TheTables
<1>4. /\ RecordKept(s) /\ OutboxKept(s) /\ IdentifierFree(s) /\ AllocationKept(s)
      /\ PositionsApart(s)
  BY DEF Sound, Kept
<1>5. RecordKept(u)
  BY <1>3, <1>4 DEF RecordKept
<1>6. OutboxKept(u)
  BY <1>3, <1>4 DEF OutboxKept
<1>7. IdentifierFree(u)
  BY <1>3, <1>4 DEF IdentifierFree
<1>8. AllocationKept(u)
  <2>1. SUFFICES ASSUME u.aside["allocation"] = {}
                 PROVE  AllocationKept(u)
    BY DEF AllocationKept
  <2>2. \A w \in {"live", "log", "job", "record", "intent"} : u.rows[w] \subseteq s.rows[w]
    BY <1>3
  <2> QED BY <1>3, <1>4, <2>1, <2>2 DEF AllocationKept
<1>9. PositionsApart(u)
  BY <1>3, <1>4 DEF PositionsApart
<1> QED BY <1>1, <1>5, <1>6, <1>7, <1>8, <1>9 DEF Sound, Kept, u

\* Rebuilding the configuration.
LEMMA EnsureConfigurationMakes ==
  ASSUME NEW s, Typed(s)
  PROVE  LET u == EnsureConfiguration(s)
         IN  /\ Typed(u) /\ OnlyRowsOf("configuration", s, u)
             /\ s.rows["configuration"] \subseteq u.rows["configuration"]
             /\ u.rows["configuration"] # {}
             /\ \A r \in u.rows["configuration"] : r \in s.rows["configuration"] \/ r.decodes
<1>1. CASE s.rows["configuration"] # {}
  <2>1. EnsureConfiguration(s) = s
    BY <1>1 DEF EnsureConfiguration
  <2> QED BY <1>1, <2>1 DEF OnlyRowsOf
<1>2. CASE s.rows["configuration"] = {}
  <2>1. EnsureConfiguration(s) = Put(s, "configuration", 0, BuiltIn)
    BY <1>2 DEF EnsureConfiguration
  <2>2. 0 \in KeyType("configuration") /\ BuiltIn \in ValueType("configuration")
        /\ "configuration" \in Tables
    <3>1. BuiltIn \in [desired : {"Archived", "BuiltIn", "Ordinary", "Meta"}, meta : BOOLEAN]
      BY DEF BuiltIn
    <3> QED BY <3>1, TableTypes, TheTables
  <2>3. LET u == EnsureConfiguration(s)
        IN  /\ Typed(u) /\ OnlyRowsOf("configuration", s, u)
            /\ u.rows["configuration"] =
                 {r \in s.rows["configuration"] : r.key # 0} \union {Row(0, BuiltIn)}
    BY <2>1, <2>2, PutMakes
  <2>4. Row(0, BuiltIn).decodes
    BY DEF Row
  <2> QED BY <1>2, <2>3, <2>4
<1> QED BY <1>1, <1>2

\* Rebuilding the allocation.
LEMMA EnsureAllocationMakes ==
  ASSUME NEW s, Sound(s)
  PROVE  LET u == EnsureAllocation(s)
         IN  /\ Sound(u) /\ OnlyRowsOf("allocation", s, u)
             /\ s.rows["allocation"] \subseteq u.rows["allocation"]
             /\ u.rows["allocation"] # {}
             /\ \A r \in u.rows["allocation"] : r \in s.rows["allocation"] \/ r.decodes
<1> DEFINE u == EnsureAllocation(s)
<1>1. CASE s.rows["allocation"] # {}
  <2>1. u = s
    BY <1>1 DEF EnsureAllocation
  <2> QED BY <1>1, <2>1 DEF OnlyRowsOf
<1>2. CASE s.rows["allocation"] = {}
  <2>1. PICK v \in ValueType("allocation") :
           /\ u = Put(s, "allocation", 0, v)
           /\ \A r \in s.rows["live"] \union s.rows["job"] : r.key < v.identifier
           /\ \A r \in s.rows["log"] : r.key < v.position
    BY <1>2, AllocationMakes DEF Sound
  <2>2. 0 \in KeyType("allocation") /\ "allocation" \in Tables
    BY TableTypes, TheTables
  <2>3. /\ Typed(u) /\ OnlyRowsOf("allocation", s, u)
        /\ u.rows["allocation"] = {r \in s.rows["allocation"] : r.key # 0} \union {Row(0, v)}
    BY <2>1, <2>2, PutMakes DEF Sound
  <2>4. Row(0, v).decodes /\ Row(0, v).value = v
    BY DEF Row
  <2> HIDE DEF u
  <2>5. u.rows["allocation"] = {Row(0, v)}
    BY <1>2, <2>3
  <2>6. /\ u.aside = s.aside /\ u.rows["live"] = s.rows["live"] /\ u.rows["log"] = s.rows["log"]
        /\ u.rows["job"] = s.rows["job"] /\ u.rows["record"] = s.rows["record"]
        /\ u.rows["outbox"] = s.rows["outbox"] /\ u.rows["intent"] = s.rows["intent"]
    BY <2>3, TheTables DEF OnlyRowsOf
  <2>7. RecordKept(u)
    BY <2>6 DEF Sound, Kept, RecordKept
  <2>8. OutboxKept(u)
    BY <2>6 DEF Sound, Kept, OutboxKept
  <2>9. IdentifierFree(u)
    BY <2>1, <2>4, <2>5, <2>6 DEF IdentifierFree
  <2>10. AllocationKept(u)
    BY <1>2, <2>5, <2>6 DEF Sound, Kept, AllocationKept
  <2>11. PositionsApart(u)
    BY <2>6 DEF Sound, Kept, PositionsApart
  <2>12. Sound(u)
    BY <2>3, <2>7, <2>8, <2>9, <2>10, <2>11 DEF Sound, Kept
  <2> QED BY <1>2, <2>3, <2>4, <2>5, <2>12 DEF u
<1> QED BY <1>1, <1>2

\* The commits of a delivery: binding, dispatch, the event and the acknowledgement.
Binds(s, i) ==
  /\ Deliver(s, i.key) = Bind(s, i.key)
  /\ i.value.state = "Pending"
  /\ \E r \in s.rows["record"] : r.key = i.key[1]

Dispatches(s, i, o) ==
  /\ Deliver(s, i.key) = Dispatch(s, i.key)
  /\ o.key = i.key

Appends(s, i, o) ==
  /\ Deliver(s, i.key) = AppendEvent(s, i.key)
  /\ i.value.state # "Pending" /\ o.key = i.key
  /\ \A l \in s.rows["log"] : l.key = i.value.position => l.value = i.key

Acknowledges(s, i, o) ==
  /\ Deliver(s, i.key) = Acknowledge(s, i.key)
  /\ i.value.state = "Appended" /\ o.key = i.key
  /\ \E l \in s.rows["log"] : l.key = i.value.position /\ l.value = i.key

\* A delivery that meets no obstacle makes one of them, and why it may.
LEMMA DeliverCases ==
  ASSUME NEW s, Typed(s), NEW i \in s.rows["intent"], i.value.state # "Acknowledged",
         Obstacle(s, i.key) = "none"
  PROVE  \/ Binds(s, i)
         \/ \E o \in s.rows["outbox"] : \/ Dispatches(s, i, o)
                                        \/ Appends(s, i, o)
                                        \/ Acknowledges(s, i, o)
<1>1. Read(s, "intent", i.key) = i.value
  BY ReadRow, TheTables
<1>2. CASE i.value.state = "Pending"
  <2>1. Has(s, "record", i.key[1])
    BY <1>1, <1>2 DEF Obstacle
  <2>2. Deliver(s, i.key) = Bind(s, i.key)
    BY <1>1, <1>2 DEF Deliver
  <2> QED BY <1>2, <2>1, <2>2 DEF Binds, Has
<1>3. CASE i.value.state # "Pending"
  <2>1. Has(s, "outbox", i.key)
    BY <1>1, <1>3 DEF Obstacle
  <2>2. PICK o \in s.rows["outbox"] : o.key = i.key
    BY <2>1 DEF Has
  <2>3. Read(s, "outbox", i.key) = o.value
    BY <2>2, ReadRow, TheTables
  <2>4. i.value.state \in {"Bound", "Appended"}
    BY <1>3, IntentParts
  <2>5. CASE o.value.state = "Pending"
    <3>1. Deliver(s, i.key) = Dispatch(s, i.key)
      BY <1>1, <1>3, <2>3, <2>5 DEF Deliver
    <3> QED BY <2>2, <3>1 DEF Dispatches
  <2>6. CASE o.value.state # "Pending"
    <3>1. Has(s, "log", i.value.position) => Journalled(s, i.key, i.value.position)
      BY <1>1, <1>3, <2>1, <2>3, <2>6 DEF Obstacle
    <3>2. \A l \in s.rows["log"] : /\ Has(s, "log", l.key) /\ Read(s, "log", l.key) = l.value
      BY ReadRow, TheTables
    <3>3. \A l \in s.rows["log"] : l.key = i.value.position => l.value = i.key
      BY <3>1, <3>2 DEF Journalled
    <3>4. CASE i.value.state = "Appended" /\ Journalled(s, i.key, i.value.position)
      <4>1. Deliver(s, i.key) = Acknowledge(s, i.key)
        BY <1>1, <1>3, <2>3, <2>6, <3>4 DEF Deliver
      <4>2. \E l \in s.rows["log"] : l.key = i.value.position
        BY <3>4 DEF Journalled, Has
      <4> QED BY <2>2, <3>3, <3>4, <4>1, <4>2 DEF Acknowledges
    <3>5. CASE ~(i.value.state = "Appended" /\ Journalled(s, i.key, i.value.position))
      <4>1. Deliver(s, i.key) = AppendEvent(s, i.key)
        BY <1>1, <1>3, <2>3, <2>6, <3>5 DEF Deliver
      <4> QED BY <1>3, <2>2, <3>3, <4>1 DEF Appends
    <3> QED BY <3>4, <3>5
  <2> QED BY <2>5, <2>6
<1> QED BY <1>2, <1>3

\* An intent that moved holds its place, and what it says of the allocation.
LEMMA MovedKept ==
  ASSUME NEW s, Sound(s), NEW u, NEW i \in s.rows["intent"], NEW state, Moved(s, u, i, state),
         u.aside = s.aside, u.rows["record"] = s.rows["record"],
         u.rows["allocation"] = s.rows["allocation"], u.rows["live"] = s.rows["live"],
         u.rows["job"] \subseteq s.rows["job"],
         \A l \in u.rows["log"] : \/ l \in s.rows["log"]
                                  \/ l.key = i.value.position /\ l.value = i.key,
         state # "Pending"
  PROVE  RecordKept(u) /\ IdentifierFree(u) /\ AllocationKept(u) /\ PositionsApart(u)
<1>1. /\ RecordKept(s) /\ IdentifierFree(s) /\ AllocationKept(s) /\ PositionsApart(s)
  BY DEF Sound, Kept
<1>2. \A j \in u.rows["intent"] : \E h \in s.rows["intent"] :
        h.key = j.key /\ h.value.position = j.value.position
  BY DEF Moved
<1>3. RecordKept(u)
  <2>1. \A j \in u.rows["intent"] : j.value.state = "Pending" => j \in s.rows["intent"]
    BY DEF Moved
  <2> QED BY <1>1, <2>1 DEF RecordKept
<1>4. IdentifierFree(u)
  BY <1>1 DEF IdentifierFree
<1>5. AllocationKept(u)
  <2>1. SUFFICES ASSUME u.aside["allocation"] = {}
                 PROVE  /\ \A a \in u.rows["allocation"] :
                             /\ \A r \in u.rows["record"] : r.key < a.value.identifier
                             /\ \A j \in u.rows["intent"] : /\ j.key[1] < a.value.identifier
                                                            /\ j.value.position < a.value.position
                             /\ \A l \in u.rows["log"] : l.key < a.value.position
                        /\ u.rows["allocation"] # {}
    BY DEF AllocationKept
  <2>2. /\ \A a \in s.rows["allocation"] :
             /\ \A r \in s.rows["record"] : r.key < a.value.identifier
             /\ \A j \in s.rows["intent"] : /\ j.key[1] < a.value.identifier
                                            /\ j.value.position < a.value.position
             /\ \A l \in s.rows["log"] : l.key < a.value.position
        /\ s.rows["allocation"] # {}
    BY <1>1, <2>1 DEF AllocationKept
  <2>3. ASSUME NEW a \in u.rows["allocation"], NEW j \in u.rows["intent"]
        PROVE  j.key[1] < a.value.identifier /\ j.value.position < a.value.position
    <3>1. PICK h \in s.rows["intent"] : h.key = j.key /\ h.value.position = j.value.position
      BY <1>2
    <3> QED BY <2>2, <3>1
  <2>4. ASSUME NEW a \in u.rows["allocation"], NEW l \in u.rows["log"]
        PROVE  l.key < a.value.position
    BY <2>2
  <2> QED BY <2>2, <2>3, <2>4
<1>6. PositionsApart(u)
  <2>1. SUFFICES ASSUME u.aside["allocation"] = {},
                        NEW j \in u.rows["intent"]
                 PROVE  /\ \A h \in u.rows["intent"] :
                             h.value.position = j.value.position => h.key = j.key
                        /\ \A l \in u.rows["log"] : l.key = j.value.position => l.value = j.key
    BY DEF PositionsApart
  <2>2. \A a, b \in s.rows["intent"] : a.value.position = b.value.position => a.key = b.key
    BY <1>1, <2>1 DEF PositionsApart
  <2>3. \A a \in s.rows["intent"], l \in s.rows["log"] : l.key = a.value.position => l.value = a.key
    BY <1>1, <2>1 DEF PositionsApart
  <2>4. PICK a \in s.rows["intent"] : a.key = j.key /\ a.value.position = j.value.position
    BY <1>2
  <2>5. ASSUME NEW h \in u.rows["intent"], h.value.position = j.value.position
        PROVE  h.key = j.key
    <3>1. PICK b \in s.rows["intent"] : b.key = h.key /\ b.value.position = h.value.position
      BY <1>2
    <3> QED BY <2>2, <2>4, <2>5, <3>1
  <2>6. ASSUME NEW l \in u.rows["log"], l.key = j.value.position
        PROVE  l.value = j.key
    <3>1. CASE l \in s.rows["log"]
      BY <2>3, <2>4, <2>6, <3>1
    <3>2. CASE l.key = i.value.position /\ l.value = i.key
      BY <2>2, <2>4, <2>6, <3>2
    <3> QED BY <3>1, <3>2
  <2> QED BY <2>5, <2>6
<1> QED BY <1>3, <1>4, <1>5, <1>6

\* Binding.
LEMMA BindSound ==
  ASSUME NEW s, Sound(s), NEW i \in s.rows["intent"]
  PROVE  Sound(Bind(s, i.key))
<1> DEFINE u == Bind(s, i.key)
<1>1. Typed(s)
  BY DEF Sound
<1>2. /\ Typed(u) /\ OnlyIn({"intent", "outbox"}, s, u)
      /\ u.rows["intent"] = Replaced(s.rows["intent"], i.key, InState(i.value, "Bound"))
      /\ u.rows["outbox"] = Replaced(s.rows["outbox"], i.key, [state |-> "Pending"])
  BY <1>1, BindMakes
<1> HIDE DEF u
<1>3. /\ u.aside = s.aside /\ u.rows["live"] = s.rows["live"] /\ u.rows["log"] = s.rows["log"]
      /\ u.rows["job"] = s.rows["job"] /\ u.rows["record"] = s.rows["record"]
      /\ u.rows["allocation"] = s.rows["allocation"]
  BY <1>2, TheTables DEF OnlyIn
<1>4. Moved(s, u, i, "Bound")
  BY <1>1, <1>2, PutMoves
<1>5. RecordKept(u) /\ IdentifierFree(u) /\ AllocationKept(u) /\ PositionsApart(u)
  BY <1>3, <1>4, MovedKept
<1>6. OutboxKept(u)
  <2>1. /\ \E r \in u.rows["outbox"] : r.key = i.key
        /\ \A r \in s.rows["outbox"] : r.key # i.key => r \in u.rows["outbox"]
    BY <1>2, ReplacedRows
  <2>2. \A j \in u.rows["intent"] : j.key = i.key \/ j \in s.rows["intent"]
    BY <1>4 DEF Moved
  <2>3. OutboxKept(s)
    BY DEF Sound, Kept
  <2> QED BY <1>3, <2>1, <2>2, <2>3 DEF OutboxKept
<1> QED BY <1>2, <1>5, <1>6 DEF Sound, Kept, u

\* Dispatching.
LEMMA DispatchSound ==
  ASSUME NEW s, Sound(s), NEW o \in s.rows["outbox"]
  PROVE  /\ Sound(Dispatch(s, o.key)) /\ OnlyRowsOf("outbox", s, Dispatch(s, o.key))
         /\ Dispatch(s, o.key).rows["outbox"]
              = Replaced(s.rows["outbox"], o.key, InState(o.value, "Dispatched"))
<1> DEFINE u == Dispatch(s, o.key)
<1>1. Typed(s)
  BY DEF Sound
<1>2. /\ Typed(u) /\ OnlyRowsOf("outbox", s, u)
      /\ u.rows["outbox"] = Replaced(s.rows["outbox"], o.key, InState(o.value, "Dispatched"))
  BY <1>1, DeliveryPut DEF Dispatch
<1> HIDE DEF u
<1>3. /\ \E r \in u.rows["outbox"] : r.key = o.key
      /\ \A r \in s.rows["outbox"] : r.key # o.key => r \in u.rows["outbox"]
  BY <1>2, ReplacedRows
<1>4. Sound(u)
  BY <1>2, <1>3, OutboxSound
<1> QED BY <1>2, <1>4 DEF u

\* Appending the event.
LEMMA AppendSound ==
  ASSUME NEW s, Sound(s), NEW i \in s.rows["intent"], NEW o \in s.rows["outbox"], o.key = i.key
  PROVE  Sound(AppendEvent(s, i.key))
<1> DEFINE u == AppendEvent(s, i.key)
<1>1. Typed(s)
  BY DEF Sound
<1>2. /\ Typed(u) /\ OnlyIn({"intent", "log"}, s, u)
      /\ u.rows["intent"] = Replaced(s.rows["intent"], i.key, InState(i.value, "Appended"))
      /\ u.rows["log"] = Replaced(s.rows["log"], i.value.position, i.key)
  BY <1>1, AppendMakes
<1> HIDE DEF u
<1>3. /\ u.aside = s.aside /\ u.rows["live"] = s.rows["live"] /\ u.rows["outbox"] = s.rows["outbox"]
      /\ u.rows["job"] = s.rows["job"] /\ u.rows["record"] = s.rows["record"]
      /\ u.rows["allocation"] = s.rows["allocation"]
  BY <1>2, TheTables DEF OnlyIn
<1>4. Moved(s, u, i, "Appended")
  BY <1>1, <1>2, PutMoves
<1>5. \A l \in u.rows["log"] : l \in s.rows["log"] \/ (l.key = i.value.position /\ l.value = i.key)
  BY <1>2, ReplacedRows
<1>6. RecordKept(u) /\ IdentifierFree(u) /\ AllocationKept(u) /\ PositionsApart(u)
  BY <1>3, <1>4, <1>5, MovedKept
<1>7. OutboxKept(u)
  <2>1. \A j \in u.rows["intent"] : j.key = i.key \/ j \in s.rows["intent"]
    BY <1>4 DEF Moved
  <2>2. OutboxKept(s)
    BY DEF Sound, Kept
  <2> QED BY <1>3, <2>1, <2>2 DEF OutboxKept
<1> QED BY <1>2, <1>6, <1>7 DEF Sound, Kept, u

\* Acknowledging.
LEMMA AcknowledgeSound ==
  ASSUME NEW s, Sound(s), NEW i \in s.rows["intent"], NEW o \in s.rows["outbox"], o.key = i.key
  PROVE  Sound(Acknowledge(s, i.key))
<1> DEFINE u == Acknowledge(s, i.key)
<1>1. Typed(s)
  BY DEF Sound
<1>2. /\ Typed(u) /\ OnlyIn({"intent", "outbox", "job"}, s, u)
      /\ u.rows["intent"] = Replaced(s.rows["intent"], i.key, InState(i.value, "Acknowledged"))
      /\ u.rows["outbox"] = Replaced(s.rows["outbox"], i.key, InState(o.value, "Acknowledged"))
      /\ u.rows["job"] \subseteq s.rows["job"]
  BY <1>1, AcknowledgeMakes
<1> HIDE DEF u
<1>3. /\ u.aside = s.aside /\ u.rows["live"] = s.rows["live"] /\ u.rows["log"] = s.rows["log"]
      /\ u.rows["record"] = s.rows["record"] /\ u.rows["allocation"] = s.rows["allocation"]
  BY <1>2, TheTables DEF OnlyIn
<1>4. Moved(s, u, i, "Acknowledged")
  BY <1>1, <1>2, PutMoves
<1>5. RecordKept(u) /\ IdentifierFree(u) /\ AllocationKept(u) /\ PositionsApart(u)
  BY <1>2, <1>3, <1>4, MovedKept
<1>6. OutboxKept(u)
  <2>1. \A r \in s.rows["outbox"] : r.key # i.key => r \in u.rows["outbox"]
    BY <1>2, ReplacedRows
  <2>2. \A j \in u.rows["intent"] : j.value.state # "Acknowledged" =>
          j \in s.rows["intent"] /\ j.key # i.key
    BY <1>4 DEF Moved
  <2>3. OutboxKept(s)
    BY DEF Sound, Kept
  <2> QED BY <1>3, <2>1, <2>2, <2>3 DEF OutboxKept
<1> QED BY <1>2, <1>5, <1>6 DEF Sound, Kept, u

\* A delivery keeps the store sound.
LEMMA DeliverSound ==
  ASSUME NEW s, Sound(s), NEW i \in s.rows["intent"], i.value.state # "Acknowledged",
         Obstacle(s, i.key) = "none"
  PROVE  Sound(Deliver(s, i.key))
<1>1. \/ Binds(s, i)
      \/ \E o \in s.rows["outbox"] : \/ Dispatches(s, i, o)
                                     \/ Appends(s, i, o)
                                     \/ Acknowledges(s, i, o)
  BY DeliverCases DEF Sound
<1>2. CASE Binds(s, i)
  BY <1>2, BindSound DEF Binds
<1>3. ASSUME NEW o \in s.rows["outbox"], Dispatches(s, i, o)
      PROVE  Sound(Deliver(s, i.key))
  BY <1>3, DispatchSound DEF Dispatches
<1>4. ASSUME NEW o \in s.rows["outbox"], Appends(s, i, o)
      PROVE  Sound(Deliver(s, i.key))
  BY <1>4, AppendSound DEF Appends
<1>5. ASSUME NEW o \in s.rows["outbox"], Acknowledges(s, i, o)
      PROVE  Sound(Deliver(s, i.key))
  BY <1>5, AcknowledgeSound DEF Acknowledges
<1> QED BY <1>1, <1>2, <1>3, <1>4, <1>5

\* The row of the allocation.
LEMMA AllocationParts ==
  ASSUME NEW s, Typed(s)
  PROVE  \A a \in s.rows["allocation"] :
           /\ a.key = 0 /\ a.value \in [identifier : Nat, position : Nat]
           /\ a.value.identifier \in Nat /\ a.value.position \in Nat
           /\ Only(s, "allocation") = a.value
           /\ \A b \in s.rows["allocation"] : b = a
<1>1. \A a \in s.rows["allocation"] : a.key = 0 /\ a.value \in [identifier : Nat, position : Nat]
  BY TypedRows, TheTables, TableTypes
<1>2. \A a \in s.rows["allocation"] : Only(s, "allocation") = a.value
  BY <1>1, ReadRow, TheTables DEF Only
<1>3. \A a, b \in s.rows["allocation"] : a = b
  BY <1>1, TypedRows, TheTables
<1>4. \A v \in [identifier : Nat, position : Nat] : v.identifier \in Nat /\ v.position \in Nat
  OBVIOUS
<1> QED BY <1>1, <1>2, <1>3, <1>4

\* A transition that is allocated: a new position, and a record of its deployment.
LEMMA AllocatedKept ==
  ASSUME NEW s, Sound(s), NEW a \in s.rows["allocation"], NEW u, NEW k \in Transitions, NEW n \in Nat,
         u.aside = s.aside, u.rows["live"] = s.rows["live"], u.rows["log"] = s.rows["log"],
         u.rows["outbox"] = s.rows["outbox"],
         u.rows["allocation"] # {},
         \A b \in u.rows["allocation"] :
           b.value.identifier = n /\ b.value.position = a.value.position + 1,
         a.value.identifier <= n, k[1] < n,
         \A r \in u.rows["job"] : r \in s.rows["job"] \/ r.key = k[1],
         \A r \in u.rows["record"] : r \in s.rows["record"] \/ r.key = k[1],
         \E r \in u.rows["record"] : r.key = k[1],
         \A r \in s.rows["record"] : r.key # k[1] => r \in u.rows["record"],
         \A i \in u.rows["intent"] :
           \/ i \in s.rows["intent"]
           \/ i.key = k /\ i.value.position = a.value.position /\ i.value.state = "Pending"
  PROVE  Kept(u)
<1>1. /\ RecordKept(s) /\ OutboxKept(s) /\ IdentifierFree(s) /\ AllocationKept(s)
      /\ PositionsApart(s) /\ Typed(s)
  BY DEF Sound, Kept
<1>2. /\ a.value.identifier \in Nat /\ a.value.position \in Nat
      /\ \A i \in s.rows["intent"] : i.key[1] \in Nat /\ i.value.position \in Nat
  BY <1>1, AllocationParts, IntentParts
<1>3. /\ \A r \in s.rows["live"] \union s.rows["job"] : r.key \in Nat
      /\ \A r \in s.rows["record"] : r.key \in Nat
      /\ \A r \in s.rows["log"] : r.key \in Nat
  BY <1>1, TypedRows, TableTypes, TheTables
<1>4. k[1] \in Nat
  BY DEF Transitions
<1>5. RecordKept(u)
  BY <1>1 DEF RecordKept
<1>6. OutboxKept(u)
  <2>1. \A i \in u.rows["intent"] : i.value.state \in {"Bound", "Appended"} => i \in s.rows["intent"]
    OBVIOUS
  <2> QED BY <1>1, <2>1 DEF OutboxKept
<1>7. IdentifierFree(u)
  <2>1. \A r \in s.rows["live"] \union s.rows["job"] : r.key < a.value.identifier
    BY <1>1 DEF IdentifierFree
  <2>2. \A r \in u.rows["live"] \union u.rows["job"] : r.key < n
    BY <1>2, <1>3, <1>4, <2>1
  <2> QED BY <2>2 DEF IdentifierFree
<1>8. AllocationKept(u)
  <2>1. SUFFICES ASSUME u.aside["allocation"] = {},
                        NEW b \in u.rows["allocation"]
                 PROVE  /\ \A r \in u.rows["record"] : r.key < b.value.identifier
                        /\ \A i \in u.rows["intent"] : /\ i.key[1] < b.value.identifier
                                                       /\ i.value.position < b.value.position
                        /\ \A l \in u.rows["log"] : l.key < b.value.position
    BY DEF AllocationKept
  <2>2. /\ \A r \in s.rows["record"] : r.key < a.value.identifier
        /\ \A i \in s.rows["intent"] : /\ i.key[1] < a.value.identifier
                                       /\ i.value.position < a.value.position
        /\ \A l \in s.rows["log"] : l.key < a.value.position
    BY <1>1, <2>1 DEF AllocationKept
  <2>3. b.value.identifier = n /\ b.value.position = a.value.position + 1
    OBVIOUS
  <2>4. \A r \in u.rows["record"] : r.key < n
    BY <1>2, <1>3, <1>4, <2>2
  <2>5. \A i \in u.rows["intent"] : i.key[1] < n /\ i.value.position < a.value.position + 1
    BY <1>2, <1>4, <2>2
  <2>6. \A l \in u.rows["log"] : l.key < a.value.position + 1
    BY <1>2, <1>3, <2>2
  <2> QED BY <2>3, <2>4, <2>5, <2>6
<1>9. PositionsApart(u)
  <2>1. SUFFICES ASSUME u.aside["allocation"] = {},
                        NEW j \in u.rows["intent"]
                 PROVE  /\ \A h \in u.rows["intent"] :
                             h.value.position = j.value.position => h.key = j.key
                        /\ \A l \in u.rows["log"] : l.key = j.value.position => l.value = j.key
    BY DEF PositionsApart
  <2>2. /\ \A i \in s.rows["intent"] : i.value.position # a.value.position
        /\ \A l \in s.rows["log"] : l.key # a.value.position
    <3>1. /\ \A i \in s.rows["intent"] : i.value.position < a.value.position
          /\ \A l \in s.rows["log"] : l.key < a.value.position
      BY <1>1, <2>1 DEF AllocationKept
    <3> QED BY <1>2, <1>3, <3>1
  <2>3. \A i \in s.rows["intent"] :
          /\ \A h \in s.rows["intent"] : h.value.position = i.value.position => h.key = i.key
          /\ \A l \in s.rows["log"] : l.key = i.value.position => l.value = i.key
    BY <1>1, <2>1 DEF PositionsApart
  <2>4. \A h \in u.rows["intent"] :
          \/ h \in s.rows["intent"]
          \/ h.key = k /\ h.value.position = a.value.position
    OBVIOUS
  <2> QED BY <2>2, <2>3, <2>4
<1> QED BY <1>5, <1>6, <1>7, <1>8, <1>9 DEF Kept

\* All that is written decodes, and no configuration or allocation goes.
Serves(s, u) ==
  /\ u.exists = s.exists /\ u.schema = s.schema /\ u.sidecars = s.sidecars /\ u.aside = s.aside
  /\ \A t \in Tables : \A r \in u.rows[t] : r \in s.rows[t] \/ r.decodes
  /\ \A t \in {"allocation", "configuration"} : s.rows[t] # {} => u.rows[t] # {}

\* Putting a row, member by member.
LEMMA PutRows ==
  ASSUME NEW s, Typed(s), NEW t \in Tables, NEW k \in KeyType(t), NEW v \in ValueType(t)
  PROVE  LET u == Put(s, t, k, v)
         IN  /\ Typed(u) /\ OnlyRowsOf(t, s, u) /\ Serves(s, u)
             /\ \A r \in u.rows[t] : \/ r \in s.rows[t] /\ r.key # k
                                     \/ r.key = k /\ r.value = v /\ r.decodes
             /\ \E r \in u.rows[t] : r.key = k /\ r.value = v /\ r.decodes
             /\ \A r \in s.rows[t] : r.key # k => r \in u.rows[t]
<1> DEFINE u == Put(s, t, k, v)
<1>1. /\ Typed(u) /\ OnlyRowsOf(t, s, u)
      /\ u.rows[t] = {r \in s.rows[t] : r.key # k} \union {Row(k, v)}
  BY PutMakes
<1> HIDE DEF u
<1>2. u.rows[t] = Replaced(s.rows[t], k, v)
  BY <1>1 DEF Replaced
<1>3. /\ \A r \in u.rows[t] : \/ r \in s.rows[t] /\ r.key # k
                              \/ r.key = k /\ r.value = v /\ r.decodes
      /\ \E r \in u.rows[t] : r.key = k /\ r.value = v /\ r.decodes
      /\ \A r \in s.rows[t] : r.key # k => r \in u.rows[t]
  BY <1>2, ReplacedRows
<1>4. Serves(s, u)
  <2>1. \A w \in Tables : \A r \in u.rows[w] : r \in s.rows[w] \/ r.decodes
    BY <1>1, <1>3 DEF OnlyRowsOf
  <2>2. \A w \in {"allocation", "configuration"} : s.rows[w] # {} => u.rows[w] # {}
    BY <1>1, <1>3, TheTables DEF OnlyRowsOf
  <2> QED BY <1>1, <2>1, <2>2 DEF Serves, OnlyRowsOf
<1> QED BY <1>1, <1>3, <1>4 DEF u

\* Writes that follow one another.
LEMMA ServesTransitive ==
  ASSUME NEW s, NEW u, NEW v, Serves(s, u), Serves(u, v)
  PROVE  Serves(s, v)
BY DEF Serves

\* The writes of a submission.
Submitted(s, next) ==
  Put(Put(Put(Put(s, "allocation", 0, [identifier |-> next.identifier + 1,
                                       position   |-> next.position + 1]),
              "record", next.identifier, "Open"),
          "job", next.identifier, "Held"),
      "intent", <<next.identifier, 0>>, [position |-> next.position, state |-> "Pending"])

\* The writes of a conclusion.
Concluded(s, next, d) ==
  Put(Put(Put(s, "allocation", 0, [next EXCEPT !.position = @ + 1]),
          "record", d, "Terminal"),
      "intent", <<d, 1>>, [position |-> next.position, state |-> "Pending"])

\* What a submission or a conclusion allocates and creates.
LEMMA NewValues ==
  ASSUME NEW d \in Nat, NEW p \in Nat, NEW q \in {0, 1}
  PROVE  /\ [identifier |-> d, position |-> p] \in ValueType("allocation")
         /\ [identifier |-> d, position |-> p].identifier = d
         /\ [identifier |-> d, position |-> p].position = p
         /\ [position |-> p, state |-> "Pending"] \in ValueType("intent")
         /\ [position |-> p, state |-> "Pending"].position = p
         /\ [position |-> p, state |-> "Pending"].state = "Pending"
         /\ <<d, q>> \in Transitions /\ <<d, q>>[1] = d /\ <<d, q>> \in KeyType("intent")
         /\ d \in KeyType("record") /\ d \in KeyType("job") /\ d \in KeyType("live")
         /\ 0 \in KeyType("allocation")
         /\ "Open" \in ValueType("record") /\ "Terminal" \in ValueType("record")
<1>1. [identifier |-> d, position |-> p] \in [identifier : Nat, position : Nat]
  OBVIOUS
<1>2. [position |-> p, state |-> "Pending"] \in IntentType
  BY DEF IntentType
<1>3. <<d, q>> \in Transitions /\ <<d, q>>[1] = d
  BY DEF Transitions
<1> QED BY <1>1, <1>2, <1>3, TableTypes

\* A transition that is put with its allocation and the record it needs.
LEMMA TransitionPut ==
  ASSUME NEW s, Sound(s), NEW a \in s.rows["allocation"],
         NEW w, Typed(w), NEW d \in Nat, NEW q \in {0, 1}, NEW n \in Nat,
         Serves(s, w), w.rows["live"] = s.rows["live"], w.rows["log"] = s.rows["log"],
         w.rows["outbox"] = s.rows["outbox"], w.rows["intent"] = s.rows["intent"],
         \A b \in w.rows["allocation"] :
           b.value.identifier = n /\ b.value.position = a.value.position + 1,
         a.value.identifier <= n, d < n,
         \A r \in w.rows["job"] : r \in s.rows["job"] \/ r.key = d,
         \A r \in w.rows["record"] : r \in s.rows["record"] \/ r.key = d,
         \E r \in w.rows["record"] : r.key = d,
         \A r \in s.rows["record"] : r.key # d => r \in w.rows["record"]
  PROVE  LET u == Put(w, "intent", <<d, q>>, [position |-> a.value.position, state |-> "Pending"])
         IN  Sound(u) /\ Serves(s, u)
<1> DEFINE pending == [position |-> a.value.position, state |-> "Pending"]
           k == <<d, q>>
           u == Put(w, "intent", k, pending)
<1>1. a.value.identifier \in Nat /\ a.value.position \in Nat
  BY AllocationParts DEF Sound
<1>2. /\ pending \in ValueType("intent") /\ pending.position = a.value.position
      /\ pending.state = "Pending"
      /\ k \in Transitions /\ k[1] = d /\ k \in KeyType("intent")
  BY <1>1, NewValues
<1> HIDE DEF pending, k
<1>3. /\ Typed(u) /\ OnlyRowsOf("intent", w, u) /\ Serves(w, u)
      /\ \A r \in u.rows["intent"] : r \in w.rows["intent"] \/ (r.key = k /\ r.value = pending)
  BY <1>2, TheTables, PutRows
<1> HIDE DEF u
<1>4. /\ u.rows["live"] = w.rows["live"] /\ u.rows["log"] = w.rows["log"]
      /\ u.rows["job"] = w.rows["job"] /\ u.rows["allocation"] = w.rows["allocation"]
      /\ u.rows["outbox"] = w.rows["outbox"] /\ u.rows["record"] = w.rows["record"]
  BY <1>3, TheTables DEF OnlyRowsOf
<1>5. Serves(s, u)
  BY <1>3, ServesTransitive
<1>6. u.rows["allocation"] # {} /\ u.aside = s.aside
  BY <1>5 DEF Serves
<1>7. \A i \in u.rows["intent"] :
        \/ i \in s.rows["intent"]
        \/ i.key = k /\ i.value.position = a.value.position /\ i.value.state = "Pending"
  BY <1>2, <1>3
<1>8. Kept(u)
  BY <1>2, <1>4, <1>6, <1>7, AllocatedKept
<1> QED BY <1>3, <1>5, <1>8 DEF Sound, u, k, pending

\* A submission.
LEMMA SubmitSound ==
  ASSUME NEW s, Sound(s), NEW a \in s.rows["allocation"]
  PROVE  Sound(Submitted(s, a.value)) /\ Serves(s, Submitted(s, a.value))
<1> DEFINE d == a.value.identifier
           next == [identifier |-> d + 1, position |-> a.value.position + 1]
           s1 == Put(s, "allocation", 0, next)
           s2 == Put(s1, "record", d, "Open")
           s3 == Put(s2, "job", d, "Held")
           u  == Put(s3, "intent", <<d, 0>>, [position |-> a.value.position, state |-> "Pending"])
<1>1. /\ Typed(s) /\ d \in Nat /\ a.value.position \in Nat
      /\ d + 1 \in Nat /\ a.value.position + 1 \in Nat /\ d <= d + 1 /\ d < d + 1
  BY AllocationParts DEF Sound
<1>2. Submitted(s, a.value) = u
  BY DEF Submitted
<1>3. /\ next \in ValueType("allocation") /\ 0 \in KeyType("allocation")
      /\ next.identifier = d + 1 /\ next.position = a.value.position + 1
      /\ "Open" \in ValueType("record") /\ d \in KeyType("record") /\ d \in KeyType("job")
      /\ "Held" \in ValueType("job")
  BY <1>1, NewValues, TableTypes
<1> HIDE DEF next, d
<1>4. /\ Typed(s1) /\ OnlyRowsOf("allocation", s, s1) /\ Serves(s, s1)
      /\ \A r \in s1.rows["allocation"] : (r \in s.rows["allocation"] /\ r.key # 0) \/ r.value = next
  BY <1>1, <1>3, TheTables, PutRows
<1> HIDE DEF s1
<1>5. \A r \in s1.rows["allocation"] : r.value = next
  BY <1>1, <1>4, AllocationParts
<1>6. /\ Typed(s2) /\ OnlyRowsOf("record", s1, s2) /\ Serves(s1, s2)
      /\ \A r \in s2.rows["record"] : r \in s1.rows["record"] \/ r.key = d
      /\ \E r \in s2.rows["record"] : r.key = d
      /\ \A r \in s1.rows["record"] : r.key # d => r \in s2.rows["record"]
  BY <1>3, <1>4, TheTables, PutRows
<1> HIDE DEF s2
<1>7. /\ Typed(s3) /\ OnlyRowsOf("job", s2, s3) /\ Serves(s2, s3)
      /\ \A r \in s3.rows["job"] : r \in s2.rows["job"] \/ r.key = d
  BY <1>3, <1>6, TheTables, PutRows
<1> HIDE DEF s3
<1>8. Serves(s, s3)
  BY <1>4, <1>6, <1>7, ServesTransitive
<1>9. /\ s3.rows["live"] = s.rows["live"] /\ s3.rows["log"] = s.rows["log"]
      /\ s3.rows["outbox"] = s.rows["outbox"] /\ s3.rows["intent"] = s.rows["intent"]
      /\ s3.rows["allocation"] = s1.rows["allocation"]
      /\ s3.rows["record"] = s2.rows["record"] /\ s1.rows["record"] = s.rows["record"]
      /\ s2.rows["job"] = s.rows["job"]
  BY <1>4, <1>6, <1>7, TheTables DEF OnlyRowsOf
<1>10. \A b \in s3.rows["allocation"] :
         b.value.identifier = d + 1 /\ b.value.position = a.value.position + 1
  BY <1>3, <1>5, <1>9
<1>11. Sound(u) /\ Serves(s, u)
  <2>1. a.value.identifier <= d + 1
    BY <1>1 DEF d
  <2> QED BY <1>1, <1>6, <1>7, <1>8, <1>9, <1>10, <2>1, TransitionPut
<1> QED BY <1>2, <1>11

\* A conclusion, of a deployment that has its job.
LEMMA ConcludeSound ==
  ASSUME NEW s, Sound(s), NEW a \in s.rows["allocation"], NEW j \in s.rows["job"]
  PROVE  /\ Sound(Concluded(s, a.value, j.key))
         /\ Serves(s, Concluded(s, a.value, j.key))
<1> DEFINE d == j.key
           next == [a.value EXCEPT !.position = @ + 1]
           s1 == Put(s, "allocation", 0, next)
           s2 == Put(s1, "record", d, "Terminal")
           u  == Put(s2, "intent", <<d, 1>>, [position |-> a.value.position, state |-> "Pending"])
<1>1. /\ Typed(s) /\ a.value \in [identifier : Nat, position : Nat]
      /\ a.value.identifier \in Nat /\ a.value.position \in Nat
  BY AllocationParts DEF Sound
<1>2. d \in Nat /\ d < a.value.identifier
  <2>1. d \in Nat
    BY <1>1, TypedRows, TheTables, TableTypes
  <2> QED BY <2>1 DEF Sound, Kept, IdentifierFree
<1>3. Concluded(s, a.value, d) = u
  BY DEF Concluded
<1>4. /\ next \in [identifier : Nat, position : Nat]
      /\ next.identifier = a.value.identifier /\ next.position = a.value.position + 1
  BY <1>1
<1>5. /\ next \in ValueType("allocation") /\ 0 \in KeyType("allocation")
      /\ "Terminal" \in ValueType("record") /\ d \in KeyType("record")
  BY <1>2, <1>4, TableTypes
<1> HIDE DEF next, d
<1>6. /\ Typed(s1) /\ OnlyRowsOf("allocation", s, s1) /\ Serves(s, s1)
      /\ \A r \in s1.rows["allocation"] : (r \in s.rows["allocation"] /\ r.key # 0) \/ r.value = next
  BY <1>1, <1>5, TheTables, PutRows
<1> HIDE DEF s1
<1>7. \A r \in s1.rows["allocation"] : r.value = next
  BY <1>1, <1>6, AllocationParts
<1>8. /\ Typed(s2) /\ OnlyRowsOf("record", s1, s2) /\ Serves(s1, s2)
      /\ \A r \in s2.rows["record"] : r \in s1.rows["record"] \/ r.key = d
      /\ \E r \in s2.rows["record"] : r.key = d
      /\ \A r \in s1.rows["record"] : r.key # d => r \in s2.rows["record"]
  BY <1>5, <1>6, TheTables, PutRows
<1> HIDE DEF s2
<1>9. Serves(s, s2)
  BY <1>6, <1>8, ServesTransitive
<1>10. /\ s2.rows["live"] = s.rows["live"] /\ s2.rows["log"] = s.rows["log"]
       /\ s2.rows["outbox"] = s.rows["outbox"] /\ s2.rows["intent"] = s.rows["intent"]
       /\ s2.rows["allocation"] = s1.rows["allocation"]
       /\ s1.rows["record"] = s.rows["record"] /\ s2.rows["job"] = s.rows["job"]
  BY <1>6, <1>8, TheTables DEF OnlyRowsOf
<1>11. \A b \in s2.rows["allocation"] :
         b.value.identifier = a.value.identifier /\ b.value.position = a.value.position + 1
  BY <1>4, <1>7, <1>10
<1>12. Sound(u) /\ Serves(s, u)
  <2>1. a.value.identifier <= a.value.identifier
    BY <1>1
  <2> QED BY <1>1, <1>2, <1>8, <1>9, <1>10, <1>11, <2>1, TransitionPut
<1> QED BY <1>3, <1>12 DEF d

\* An activation, of a deployment that has its job.
LEMMA ActivateSound ==
  ASSUME NEW s, Sound(s), NEW j \in s.rows["job"]
  PROVE  Sound(Put(s, "live", j.key, "Deployed")) /\ Serves(s, Put(s, "live", j.key, "Deployed"))
<1> DEFINE u == Put(s, "live", j.key, "Deployed")
<1>1. Typed(s) /\ j.key \in KeyType("live") /\ "Deployed" \in ValueType("live")
  BY TypedRows, TheTables, TableTypes DEF Sound
<1>2. /\ Typed(u) /\ OnlyRowsOf("live", s, u) /\ Serves(s, u)
      /\ \A r \in u.rows["live"] : r \in s.rows["live"] \/ r.key = j.key
  BY <1>1, TheTables, PutRows
<1> HIDE DEF u
<1>3. /\ u.aside = s.aside /\ u.rows["log"] = s.rows["log"]
      /\ u.rows["job"] = s.rows["job"] /\ u.rows["record"] = s.rows["record"]
      /\ u.rows["allocation"] = s.rows["allocation"] /\ u.rows["outbox"] = s.rows["outbox"]
      /\ u.rows["intent"] = s.rows["intent"]
  BY <1>2, TheTables DEF OnlyRowsOf
<1>4. /\ RecordKept(s) /\ OutboxKept(s) /\ IdentifierFree(s) /\ AllocationKept(s)
      /\ PositionsApart(s)
  BY DEF Sound, Kept
<1>5. RecordKept(u)
  BY <1>3, <1>4 DEF RecordKept
<1>6. OutboxKept(u)
  BY <1>3, <1>4 DEF OutboxKept
<1>7. IdentifierFree(u)
  BY <1>2, <1>3, <1>4 DEF IdentifierFree
<1>8. AllocationKept(u)
  <2>1. u.aside["allocation"] = {} => u.rows["allocation"] # {}
    BY <1>3, <1>4 DEF AllocationKept
  <2> QED BY <1>3, <1>4, <2>1 DEF AllocationKept
<1>9. PositionsApart(u)
  BY <1>3, <1>4 DEF PositionsApart
<1> QED BY <1>2, <1>5, <1>6, <1>7, <1>8, <1>9 DEF Sound, Kept, u

\* Configuring.
LEMMA ConfigureSound ==
  ASSUME NEW s, Sound(s), NEW v \in ValueType("configuration")
  PROVE  /\ Sound(Put(s, "configuration", 0, v)) /\ Serves(s, Put(s, "configuration", 0, v))
         /\ Put(s, "configuration", 0, v).rows["configuration"] # {}
<1> DEFINE u == Put(s, "configuration", 0, v)
<1>1. Typed(s) /\ 0 \in KeyType("configuration")
  BY TableTypes DEF Sound
<1>2. /\ Typed(u) /\ OnlyRowsOf("configuration", s, u) /\ Serves(s, u)
      /\ u.rows["configuration"] # {}
  BY <1>1, TheTables, PutRows
<1> HIDE DEF u
<1>3. Sound(u)
  BY <1>2, ConfigurationSound
<1> QED BY <1>2, <1>3 DEF u

\* What is written to some tables other than the two that stay.
LEMMA ServesOfTables ==
  ASSUME NEW s, NEW u, NEW tables, OnlyIn(tables, s, u),
         "allocation" \notin tables, "configuration" \notin tables,
         \A t \in tables : \A r \in u.rows[t] : r \in s.rows[t] \/ r.decodes
  PROVE  Serves(s, u)
<1>1. \A t \in Tables : \A r \in u.rows[t] : r \in s.rows[t] \/ r.decodes
  BY DEF OnlyIn
<1>2. /\ u.rows["allocation"] = s.rows["allocation"]
      /\ u.rows["configuration"] = s.rows["configuration"]
  BY TheTables DEF OnlyIn
<1> QED BY <1>1, <1>2 DEF Serves, OnlyIn

\* A delivery while serving.
LEMMA DeliverServes ==
  ASSUME NEW s, Sound(s), NEW i \in s.rows["intent"], i.value.state # "Acknowledged",
         Obstacle(s, i.key) = "none"
  PROVE  Serves(s, Deliver(s, i.key))
<1> DEFINE u == Deliver(s, i.key)
<1>1. Typed(s)
  BY DEF Sound
<1>2. \/ Binds(s, i)
      \/ \E o \in s.rows["outbox"] : \/ Dispatches(s, i, o)
                                     \/ Appends(s, i, o)
                                     \/ Acknowledges(s, i, o)
  BY <1>1, DeliverCases
<1> DEFINE Written(t) == \A r \in u.rows[t] : r \in s.rows[t] \/ r.decodes
<1>4. CASE Binds(s, i)
  <2>1. /\ OnlyIn({"intent", "outbox"}, s, u)
        /\ u.rows["intent"] = Replaced(s.rows["intent"], i.key, InState(i.value, "Bound"))
        /\ u.rows["outbox"] = Replaced(s.rows["outbox"], i.key, [state |-> "Pending"])
    BY <1>1, <1>4, BindMakes DEF Binds
  <2>2. Written("intent") /\ Written("outbox")
    BY <2>1, ReplacedRows
  <2>3. \A t \in {"intent", "outbox"} : Written(t)
    BY <2>2
  <2> HIDE DEF u
  <2>4. Serves(s, u)
    BY <2>1, <2>3, ServesOfTables
  <2> QED BY <2>4 DEF u
<1>5. ASSUME NEW o \in s.rows["outbox"], Dispatches(s, i, o)
      PROVE  Serves(s, u)
  <2>1. /\ OnlyRowsOf("outbox", s, u)
        /\ u.rows["outbox"] = Replaced(s.rows["outbox"], o.key, InState(o.value, "Dispatched"))
    BY <1>5, DispatchSound DEF Dispatches
  <2>2. Written("outbox")
    BY <2>1, ReplacedRows
  <2>3. \A t \in {"outbox"} : Written(t)
    BY <2>2
  <2> HIDE DEF u
  <2>4. OnlyIn({"outbox"}, s, u)
    BY <2>1 DEF OnlyIn, OnlyRowsOf
  <2> QED BY <2>3, <2>4, ServesOfTables
<1>6. ASSUME NEW o \in s.rows["outbox"], Appends(s, i, o)
      PROVE  Serves(s, u)
  <2>1. /\ OnlyIn({"intent", "log"}, s, u)
        /\ u.rows["intent"] = Replaced(s.rows["intent"], i.key, InState(i.value, "Appended"))
        /\ u.rows["log"] = Replaced(s.rows["log"], i.value.position, i.key)
    BY <1>1, <1>6, AppendMakes DEF Appends
  <2>2. Written("intent") /\ Written("log")
    BY <2>1, ReplacedRows
  <2>3. \A t \in {"intent", "log"} : Written(t)
    BY <2>2
  <2> HIDE DEF u
  <2> QED BY <2>1, <2>3, ServesOfTables
<1>7. ASSUME NEW o \in s.rows["outbox"], Acknowledges(s, i, o)
      PROVE  Serves(s, u)
  <2>1. /\ OnlyIn({"intent", "outbox", "job"}, s, u)
        /\ u.rows["intent"] = Replaced(s.rows["intent"], i.key, InState(i.value, "Acknowledged"))
        /\ u.rows["outbox"] = Replaced(s.rows["outbox"], i.key, InState(o.value, "Acknowledged"))
        /\ u.rows["job"] \subseteq s.rows["job"]
    BY <1>1, <1>7, AcknowledgeMakes DEF Acknowledges
  <2>2. Written("intent") /\ Written("outbox") /\ Written("job")
    BY <2>1, ReplacedRows
  <2>3. \A t \in {"intent", "outbox", "job"} : Written(t)
    BY <2>2
  <2> HIDE DEF u
  <2> QED BY <2>1, <2>3, ServesOfTables
<1> QED BY <1>2, <1>4, <1>5, <1>6, <1>7

\* What a schema change leaves of a store.
Upgraded(s, schema) ==
  [s EXCEPT !.rows = [t \in Tables |-> IF t \in schema
                                       THEN {[r EXCEPT !.decodes = FALSE] : r \in s.rows[t]}
                                       ELSE s.rows[t]]]

\* The same keys and values, of which fewer decode.
SameContent(s, u) ==
  \A t \in Tables :
    /\ \A r \in u.rows[t] : \E q \in s.rows[t] :
         q.key = r.key /\ q.value = r.value /\ (~q.decodes => ~r.decodes)
    /\ \A q \in s.rows[t] : \E r \in u.rows[t] :
         r.key = q.key /\ r.value = q.value /\ (~q.decodes => ~r.decodes)

\* The same rows, some of which do not decode any more.
LEMMA UpgradeMakes ==
  ASSUME NEW s, Typed(s), NEW schema
  PROVE  LET u == Upgraded(s, schema)
         IN  /\ Typed(u) /\ SameContent(s, u)
             /\ u.exists = s.exists /\ u.schema = s.schema /\ u.sidecars = s.sidecars
             /\ u.aside = s.aside
<1> DEFINE Off(r) == [r EXCEPT !.decodes = FALSE]
           R == [t \in Tables |-> IF t \in schema THEN {Off(r) : r \in s.rows[t]} ELSE s.rows[t]]
           u == Upgraded(s, schema)
<1>1. s \in StoreType
  BY DEF Typed
<1>2. u = [s EXCEPT !.rows = R]
  BY DEF Upgraded
<1>3. ASSUME NEW t \in Tables, NEW r \in RowType(t)
      PROVE  Off(r) \in RowType(t) /\ Off(r).key = r.key /\ Off(r).value = r.value /\ ~Off(r).decodes
  BY <1>3 DEF RowType
<1> HIDE DEF Off
<1>4. ASSUME NEW t \in Tables
      PROVE  /\ R[t] \subseteq RowType(t)
             /\ \A r, q \in R[t] : r.key = q.key => r = q
             /\ \A r \in R[t] : \E q \in s.rows[t] :
                  q.key = r.key /\ q.value = r.value /\ (~q.decodes => ~r.decodes)
             /\ \A q \in s.rows[t] : \E r \in R[t] :
                  r.key = q.key /\ r.value = q.value /\ (~q.decodes => ~r.decodes)
  <2>1. /\ s.rows[t] \subseteq RowType(t)
        /\ \A r, q \in s.rows[t] : r.key = q.key => r = q
    BY TypedRows
  <2>2. CASE t \notin schema
    BY <2>1, <2>2
  <2>3. CASE t \in schema
    <3>1. R[t] = {Off(r) : r \in s.rows[t]}
      BY <2>3
    <3> HIDE DEF R
    <3>2. \A r \in s.rows[t] : /\ Off(r) \in RowType(t) /\ Off(r).key = r.key
                               /\ Off(r).value = r.value /\ ~Off(r).decodes
      BY <1>3, <2>1
    <3> QED BY <2>1, <3>1, <3>2
  <2> QED BY <2>2, <2>3
<1>5. R = [t \in Tables |-> R[t]]
  OBVIOUS
<1> HIDE DEF R
<1>6. R \in [Tables -> SUBSET [key : AllKeys, value : AllValues, decodes : BOOLEAN]]
  <2>1. \A t \in Tables : R[t] \subseteq [key : AllKeys, value : AllValues, decodes : BOOLEAN]
    BY <1>4, RowParts
  <2> QED BY <1>5, <2>1
<1>7. /\ u \in StoreType /\ u.rows = R
      /\ u.exists = s.exists /\ u.schema = s.schema /\ u.sidecars = s.sidecars
      /\ u.aside = s.aside
  BY <1>1, <1>2, <1>6 DEF StoreType
<1> HIDE DEF u
<1>8. Typed(u)
  <2>1. \A t \in Tables : u.rows[t] \subseteq RowType(t)
    BY <1>4, <1>7
  <2>2. OneRowPerKey(u)
    BY <1>4, <1>7 DEF OneRowPerKey
  <2>3. ASSUME NEW t \in Counted
        PROVE  \E n \in Nat : \A r \in u.rows[t] : r.key <= n
    <3>1. PICK n \in Nat : \A r \in s.rows[t] : r.key <= n
      BY DEF Typed
    <3>2. t \in Tables
      BY TheTables
    <3> QED BY <1>4, <1>7, <3>1, <3>2
  <2>4. \A t \in Tables : \A key : AsideOf(u, t, key) = AsideOf(s, t, key)
    BY <1>7 DEF AsideOf
  <2> QED BY <1>7, <2>1, <2>2, <2>3, <2>4 DEF Typed
<1>9. SameContent(s, u)
  BY <1>4, <1>7 DEF SameContent
<1> QED BY <1>7, <1>8, <1>9 DEF u

\* What is kept does not depend on what decodes.
LEMMA UpgradeSound ==
  ASSUME NEW s, Sound(s), NEW schema
  PROVE  Sound(Upgraded(s, schema))
<1> DEFINE u == Upgraded(s, schema)
<1>1. Typed(u) /\ SameContent(s, u) /\ u.aside = s.aside
  BY UpgradeMakes DEF Sound
<1> HIDE DEF u
<1>2. \A t \in {"live", "log", "job", "record", "allocation", "outbox", "intent"} :
        /\ \A r \in u.rows[t] : \E q \in s.rows[t] : q.key = r.key /\ q.value = r.value
        /\ \A q \in s.rows[t] : \E r \in u.rows[t] : r.key = q.key /\ r.value = q.value
  BY <1>1, TheTables DEF SameContent
<1>3. /\ RecordKept(s) /\ OutboxKept(s) /\ IdentifierFree(s) /\ AllocationKept(s)
      /\ PositionsApart(s)
  BY DEF Sound, Kept
<1>4. RecordKept(u)
  BY <1>1, <1>2, <1>3 DEF RecordKept
<1>5. OutboxKept(u)
  BY <1>1, <1>2, <1>3 DEF OutboxKept
<1>6. IdentifierFree(u)
  <2>1. ASSUME NEW a \in u.rows["allocation"], NEW r \in u.rows["live"] \union u.rows["job"]
        PROVE  r.key < a.value.identifier
    <3>1. PICK b \in s.rows["allocation"] : b.value = a.value
      BY <1>2
    <3>2. PICK q \in s.rows["live"] \union s.rows["job"] : q.key = r.key
      BY <1>2
    <3> QED BY <1>3, <3>1, <3>2 DEF IdentifierFree
  <2> QED BY <2>1 DEF IdentifierFree
<1>7. AllocationKept(u)
  <2>1. SUFFICES ASSUME u.aside["allocation"] = {}
                 PROVE  /\ \A a \in u.rows["allocation"] :
                             /\ \A r \in u.rows["record"] : r.key < a.value.identifier
                             /\ \A i \in u.rows["intent"] : /\ i.key[1] < a.value.identifier
                                                            /\ i.value.position < a.value.position
                             /\ \A l \in u.rows["log"] : l.key < a.value.position
                        /\ u.rows["allocation"] = {} =>
                             \A t \in {"live", "log", "job", "record", "intent"} : u.rows[t] = {}
    BY DEF AllocationKept
  <2>2. /\ \A a \in s.rows["allocation"] :
             /\ \A r \in s.rows["record"] : r.key < a.value.identifier
             /\ \A i \in s.rows["intent"] : /\ i.key[1] < a.value.identifier
                                            /\ i.value.position < a.value.position
             /\ \A l \in s.rows["log"] : l.key < a.value.position
        /\ s.rows["allocation"] = {} =>
             \A t \in {"live", "log", "job", "record", "intent"} : s.rows[t] = {}
    BY <1>1, <1>3, <2>1 DEF AllocationKept
  <2>3. ASSUME NEW a \in u.rows["allocation"]
        PROVE  /\ \A r \in u.rows["record"] : r.key < a.value.identifier
               /\ \A i \in u.rows["intent"] : /\ i.key[1] < a.value.identifier
                                              /\ i.value.position < a.value.position
               /\ \A l \in u.rows["log"] : l.key < a.value.position
    <3>1. PICK b \in s.rows["allocation"] : b.value = a.value
      BY <1>2
    <3>2. \A r \in u.rows["record"] : r.key < a.value.identifier
      BY <1>2, <2>2, <3>1
    <3>3. \A i \in u.rows["intent"] : /\ i.key[1] < a.value.identifier
                                      /\ i.value.position < a.value.position
      <4>1. ASSUME NEW i \in u.rows["intent"]
            PROVE  i.key[1] < a.value.identifier /\ i.value.position < a.value.position
        <5>1. PICK h \in s.rows["intent"] : h.key = i.key /\ h.value = i.value
          BY <1>2
        <5> QED BY <2>2, <3>1, <5>1
      <4> QED BY <4>1
    <3>4. \A l \in u.rows["log"] : l.key < a.value.position
      BY <1>2, <2>2, <3>1
    <3> QED BY <3>2, <3>3, <3>4
  <2>4. u.rows["allocation"] = {} =>
          \A t \in {"live", "log", "job", "record", "intent"} : u.rows[t] = {}
    BY <1>2, <2>2
  <2> QED BY <2>3, <2>4
<1>8. PositionsApart(u)
  <2>1. SUFFICES ASSUME u.aside["allocation"] = {}, NEW i \in u.rows["intent"]
                 PROVE  /\ \A j \in u.rows["intent"] :
                             j.value.position = i.value.position => j.key = i.key
                        /\ \A l \in u.rows["log"] : l.key = i.value.position => l.value = i.key
    BY DEF PositionsApart
  <2>2. PICK h \in s.rows["intent"] : h.key = i.key /\ h.value = i.value
    BY <1>2
  <2>3. /\ \A j \in s.rows["intent"] : j.value.position = h.value.position => j.key = h.key
        /\ \A l \in s.rows["log"] : l.key = h.value.position => l.value = h.key
    BY <1>1, <1>3, <2>1 DEF PositionsApart
  <2> QED BY <1>2, <2>2, <2>3
<1> QED BY <1>1, <1>4, <1>5, <1>6, <1>7, <1>8 DEF Sound, Kept, u

-----------------------------------------------------------------------------
(* Whether a store opens is settled before anything is written to it. *)

Waiting(i) == i.decodes /\ i.value.state # "Acknowledged"

\* The row the next step of a delivery reads.
Fed(s, i) ==
  /\ i.value.state = "Pending" => \E r \in s.rows["record"] : r.decodes /\ r.key = i.key[1]
  /\ i.value.state # "Pending" => \E r \in s.rows["outbox"] : r.decodes /\ r.key = i.key

\* No event of another transition is at its position,
Logged(s, i) ==
  \A l \in s.rows["log"] : l.decodes /\ l.key = i.value.position => l.value = i.key

\* and no other transition will append one.
Alone(s, i) ==
  \A j \in s.rows["intent"] : Waiting(j) /\ j.value.position = i.value.position => j.key = i.key

Deliverable(s, i) == Fed(s, i) /\ Logged(s, i) /\ Alone(s, i)

\* A configuration is there, was there, or nothing it served is.
Configurable(s) ==
  \/ s.rows["configuration"] # {}
  \/ s.aside["configuration"] # {}
  \/ \A t \in Tables : \A r \in s.rows[t] : ~r.decodes

AllDeliverable(s) == \A i \in s.rows["intent"] : Waiting(i) => Deliverable(s, i)

Opens(s) == s.schema = "Current" /\ Configurable(s) /\ AllDeliverable(s)

\* Whether all is deliverable depends on four tables, and on what decodes there.
LEMMA DeliverableOfDecoded ==
  ASSUME NEW s, NEW u,
         \A t \in {"record", "outbox"} :
           /\ \A r \in s.rows[t] : r.decodes => \E q \in u.rows[t] : q.decodes /\ q.key = r.key
           /\ \A q \in u.rows[t] : q.decodes => \E r \in s.rows[t] : r.decodes /\ r.key = q.key,
         \A t \in {"log", "intent"} : \A r : r.decodes => (r \in s.rows[t] <=> r \in u.rows[t])
  PROVE  AllDeliverable(s) <=> AllDeliverable(u)
<1>1. \A i : Waiting(i) => (i \in s.rows["intent"] <=> i \in u.rows["intent"])
  BY DEF Waiting
<1>2. \A i : Fed(s, i) <=> Fed(u, i)
  BY DEF Fed
<1>3. \A i : Logged(s, i) <=> Logged(u, i)
  BY DEF Logged
<1>4. \A i : Alone(s, i) <=> Alone(u, i)
  BY <1>1 DEF Alone
<1> QED BY <1>1, <1>2, <1>3, <1>4 DEF AllDeliverable, Deliverable

\* Setting aside a row that does not decode does not decide it,
LEMMA SetAsideOpens ==
  ASSUME NEW s, Typed(s), NEW t \in Tables, NEW r \in s.rows[t], ~r.decodes
  PROVE  Opens(SetAside(s, t, r)) <=> Opens(s)
<1> DEFINE u == SetAside(s, t, r)
<1>1. /\ u.schema = s.schema
      /\ \A w \in Tables \ {t} : u.rows[w] = s.rows[w] /\ u.aside[w] = s.aside[w]
      /\ \A q : q \in u.rows[t] <=> q \in s.rows[t] /\ q.key # r.key
      /\ u.aside[t] # {}
  BY SetAsideMakes
<1> HIDE DEF u
<1>2. \A q \in s.rows[t] : q.decodes => q.key # r.key
  BY TypedRows
<1>3. \A w \in Tables : \A q : q.decodes => (q \in s.rows[w] <=> q \in u.rows[w])
  BY <1>1, <1>2
<1>4. AllDeliverable(s) <=> AllDeliverable(u)
  <2>1. \A w \in {"record", "outbox"} :
          /\ \A q \in s.rows[w] : q.decodes => q \in u.rows[w]
          /\ \A q \in u.rows[w] : q.decodes => q \in s.rows[w]
    BY <1>3, TheTables
  <2>2. \A w \in {"log", "intent"} : \A q : q.decodes => (q \in s.rows[w] <=> q \in u.rows[w])
    BY <1>3, TheTables
  <2>3. \A w \in {"record", "outbox"} :
          /\ \A q \in s.rows[w] : q.decodes => \E p \in u.rows[w] : p.decodes /\ p.key = q.key
          /\ \A q \in u.rows[w] : q.decodes => \E p \in s.rows[w] : p.decodes /\ p.key = q.key
    BY <2>1
  <2> QED BY <2>2, <2>3, DeliverableOfDecoded
<1>5. Configurable(s) <=> Configurable(u)
  <2>1. (\A w \in Tables : \A q \in s.rows[w] : ~q.decodes)
          <=> (\A w \in Tables : \A q \in u.rows[w] : ~q.decodes)
    BY <1>3
  <2>2. CASE t = "configuration"
    BY <1>1, <2>2 DEF Configurable
  <2>3. CASE t # "configuration"
    BY <1>1, <2>1, <2>3, TheTables DEF Configurable
  <2> QED BY <2>2, <2>3
<1>6. Opens(u) <=> Opens(s)
  BY <1>1, <1>4, <1>5 DEF Opens
<1> QED BY <1>6 DEF u

\* nor does a change that leaves the four tables alone and has a configuration,
LEMMA ElsewhereOpens ==
  ASSUME NEW s, NEW u, u.schema = s.schema,
         \A t \in {"record", "outbox", "log", "intent"} : u.rows[t] = s.rows[t],
         Configurable(s), Configurable(u)
  PROVE  Opens(u) <=> Opens(s)
<1>1. AllDeliverable(s) <=> AllDeliverable(u)
  BY DeliverableOfDecoded
<1> QED BY <1>1 DEF Opens

\* nor does requeuing.
LEMMA RequeueOpens ==
  ASSUME NEW s, Typed(s)
  PROVE  Opens(Requeue(s)) <=> Opens(s)
<1> DEFINE u == Requeue(s)
<1>1. /\ OnlyRowsOf("outbox", s, u)
      /\ \A o \in s.rows["outbox"] : \E r \in u.rows["outbox"] :
           r.key = o.key /\ r.decodes = o.decodes
      /\ \A r \in u.rows["outbox"] : \E o \in s.rows["outbox"] :
           o.key = r.key /\ o.decodes = r.decodes
  BY RequeueMakes
<1> HIDE DEF u
<1>2. /\ u.rows["record"] = s.rows["record"] /\ u.rows["log"] = s.rows["log"]
      /\ u.rows["intent"] = s.rows["intent"] /\ u.rows["configuration"] = s.rows["configuration"]
      /\ u.aside = s.aside /\ u.schema = s.schema
  BY <1>1, TheTables DEF OnlyRowsOf
<1>3. AllDeliverable(s) <=> AllDeliverable(u)
  <2>1. \A w \in {"record", "outbox"} :
          /\ \A q \in s.rows[w] : q.decodes => \E p \in u.rows[w] : p.decodes /\ p.key = q.key
          /\ \A q \in u.rows[w] : q.decodes => \E p \in s.rows[w] : p.decodes /\ p.key = q.key
    BY <1>1, <1>2
  <2>2. \A w \in {"log", "intent"} : \A q : q.decodes => (q \in s.rows[w] <=> q \in u.rows[w])
    BY <1>2
  <2> QED BY <2>1, <2>2, DeliverableOfDecoded
<1>4. Configurable(s) <=> Configurable(u)
  <2>1. (\A w \in Tables : \A q \in s.rows[w] : ~q.decodes)
          <=> (\A w \in Tables : \A q \in u.rows[w] : ~q.decodes)
    <3>1. \A w \in Tables : w # "outbox" => u.rows[w] = s.rows[w]
      BY <1>1 DEF OnlyRowsOf
    <3>2. (\A q \in s.rows["outbox"] : ~q.decodes) <=> (\A q \in u.rows["outbox"] : ~q.decodes)
      BY <1>1
    <3> QED BY <3>1, <3>2
  <2> QED BY <1>2, <2>1 DEF Configurable
<1>5. Opens(u) <=> Opens(s)
  BY <1>2, <1>3, <1>4 DEF Opens
<1> QED BY <1>5 DEF u

\* A moved intent that still waits leaves the others as alone as they were.
LEMMA MovedAlone ==
  ASSUME NEW s, Typed(s), NEW u, NEW i \in s.rows["intent"], Waiting(i), NEW state,
         state # "Acknowledged",
         Moved(s, u, i, state),
         NEW x, NEW y, x.key = y.key, x.value.position = y.value.position
  PROVE  Alone(s, x) <=> Alone(u, y)
<1>1. ASSUME NEW j \in u.rows["intent"], Waiting(j)
      PROVE  \E h \in s.rows["intent"] :
               Waiting(h) /\ h.key = j.key /\ h.value.position = j.value.position
  BY <1>1 DEF Moved
<1>2. ASSUME NEW h \in s.rows["intent"], Waiting(h), h.key # i.key
      PROVE  h \in u.rows["intent"]
  BY <1>2 DEF Moved
<1>3. \E j \in u.rows["intent"] :
        Waiting(j) /\ j.key = i.key /\ j.value.position = i.value.position
  BY DEF Moved, Waiting
<1>4. Alone(s, x) => Alone(u, y)
  BY <1>1 DEF Alone
<1>5. ASSUME Alone(u, y), OneRowPerKey(s)
      PROVE  Alone(s, x)
  <2>1. SUFFICES ASSUME NEW h \in s.rows["intent"], Waiting(h),
                        h.value.position = x.value.position
                 PROVE  h.key = x.key
    BY DEF Alone
  <2>2. CASE h.key # i.key
    BY <1>2, <1>5, <2>1, <2>2 DEF Alone
  <2>3. CASE h.key = i.key
    <3>1. h = i
      BY <1>5, <2>3, TheTables DEF OneRowPerKey
    <3> QED BY <1>3, <1>5, <2>1, <2>3, <3>1 DEF Alone
  <2> QED BY <2>2, <2>3
<1> QED BY <1>4, <1>5 DEF Typed

\* Binding: the transition has its record before and its delivery row after.
LEMMA BindDelivers ==
  ASSUME NEW s, Typed(s), Unread(s) = {}, NEW i \in s.rows["intent"], Binds(s, i)
  PROVE  AllDeliverable(Bind(s, i.key)) <=> AllDeliverable(s)
<1> DEFINE u == Bind(s, i.key)
<1>1. /\ OnlyIn({"intent", "outbox"}, s, u)
      /\ u.rows["intent"] = Replaced(s.rows["intent"], i.key, InState(i.value, "Bound"))
      /\ u.rows["outbox"] = Replaced(s.rows["outbox"], i.key, [state |-> "Pending"])
  BY BindMakes
<1> HIDE DEF u
<1>2. u.rows["log"] = s.rows["log"] /\ u.rows["record"] = s.rows["record"]
  BY <1>1, TheTables DEF OnlyIn
<1>3. Moved(s, u, i, "Bound")
  BY <1>1, PutMoves
<1>4. \A t \in Tables : \A r \in s.rows[t] : r.decodes
  BY AllDecode
<1>5. Waiting(i) /\ i.value.state = "Pending" /\ \E r \in s.rows["record"] : r.key = i.key[1]
  BY <1>4, TheTables DEF Binds, Waiting
<1>6. Fed(s, i)
  BY <1>4, <1>5, TheTables DEF Fed
<1>7. /\ \E o \in u.rows["outbox"] : o.decodes /\ o.key = i.key
      /\ \A o \in u.rows["outbox"] : o \in s.rows["outbox"] \/ o.key = i.key
      /\ \A o \in s.rows["outbox"] : o.key # i.key => o \in u.rows["outbox"]
  BY <1>1, ReplacedRows
<1>8. \A x, y : x.key = y.key /\ x.value.position = y.value.position =>
        /\ Alone(s, x) <=> Alone(u, y)
        /\ Logged(s, x) <=> Logged(u, y)
  <2>1. \A x, y : x.key = y.key /\ x.value.position = y.value.position =>
          (Logged(s, x) <=> Logged(u, y))
    BY <1>2 DEF Logged
  <2>2. \A x, y : x.key = y.key /\ x.value.position = y.value.position =>
          (Alone(s, x) <=> Alone(u, y))
    BY <1>3, <1>5, MovedAlone
  <2> QED BY <2>1, <2>2
<1>9. \A j : j.key # i.key => (Fed(s, j) <=> Fed(u, j))
  BY <1>2, <1>7 DEF Fed
<1>10. ASSUME AllDeliverable(s), NEW j \in u.rows["intent"], Waiting(j)
       PROVE  Deliverable(u, j)
  <2>1. CASE j \in s.rows["intent"] /\ j.key # i.key
    <3>1. Deliverable(s, j)
      BY <1>10, <2>1 DEF AllDeliverable
    <3> QED BY <1>8, <1>9, <2>1, <3>1 DEF Deliverable
  <2>2. CASE j.key = i.key /\ j.value.position = i.value.position /\ j.value.state = "Bound"
    <3>1. Deliverable(s, i)
      BY <1>5, <1>10 DEF AllDeliverable
    <3>2. Fed(u, j)
      BY <1>7, <2>2 DEF Fed
    <3> QED BY <1>8, <2>2, <3>1, <3>2 DEF Deliverable
  <2> QED BY <1>3, <2>1, <2>2 DEF Moved
<1>11. ASSUME AllDeliverable(u), NEW j \in s.rows["intent"], Waiting(j)
       PROVE  Deliverable(s, j)
  <2>1. CASE j.key # i.key
    <3>1. j \in u.rows["intent"]
      BY <1>3, <2>1 DEF Moved
    <3>2. Deliverable(u, j)
      BY <1>11, <3>1 DEF AllDeliverable
    <3> QED BY <1>8, <1>9, <2>1, <3>2 DEF Deliverable
  <2>2. CASE j.key = i.key
    <3>1. j = i
      BY <2>2, TypedRows, TheTables
    <3>2. PICK h \in u.rows["intent"] : /\ h.key = i.key /\ h.value.state = "Bound"
                                        /\ h.value.position = i.value.position /\ h.decodes
      BY <1>3 DEF Moved
    <3>3. Deliverable(u, h)
      BY <1>11, <3>2 DEF AllDeliverable, Waiting
    <3> QED BY <1>6, <1>8, <3>1, <3>2, <3>3 DEF Deliverable
  <2> QED BY <2>1, <2>2
<1> QED BY <1>10, <1>11 DEF AllDeliverable, u

\* Appending: another transition at the position is refused before as after.
LEMMA AppendDelivers ==
  ASSUME NEW s, Typed(s), Unread(s) = {}, NEW i \in s.rows["intent"], i.value.state # "Acknowledged",
         NEW o \in s.rows["outbox"], Appends(s, i, o)
  PROVE  AllDeliverable(AppendEvent(s, i.key)) <=> AllDeliverable(s)
<1> DEFINE u == AppendEvent(s, i.key)
<1>1. /\ OnlyIn({"intent", "log"}, s, u)
      /\ u.rows["intent"] = Replaced(s.rows["intent"], i.key, InState(i.value, "Appended"))
      /\ u.rows["log"] = Replaced(s.rows["log"], i.value.position, i.key)
  BY AppendMakes
<1> HIDE DEF u
<1>2. u.rows["outbox"] = s.rows["outbox"] /\ u.rows["record"] = s.rows["record"]
  BY <1>1, TheTables DEF OnlyIn
<1>3. Moved(s, u, i, "Appended")
  BY <1>1, PutMoves
<1>4. \A t \in Tables : \A r \in s.rows[t] : r.decodes
  BY AllDecode
<1>5. /\ Waiting(i) /\ i.value.state # "Pending" /\ o.key = i.key
      /\ \A l \in s.rows["log"] : l.key = i.value.position => l.value = i.key
  BY <1>4, TheTables DEF Appends, Waiting
<1>6. /\ \E l \in u.rows["log"] : l.decodes /\ l.key = i.value.position /\ l.value = i.key
      /\ \A l \in u.rows["log"] : \/ l \in s.rows["log"] /\ l.key # i.value.position
                                  \/ l.key = i.value.position /\ l.value = i.key
      /\ \A l \in s.rows["log"] : l.key # i.value.position => l \in u.rows["log"]
  BY <1>1, ReplacedRows
<1>7. \A x, y : x.key = y.key /\ x.value.position = y.value.position =>
        (Alone(s, x) <=> Alone(u, y))
  BY <1>3, <1>5, MovedAlone
<1>8. Fed(s, i) /\ Logged(s, i) /\ \A j : j.key = i.key /\ j.value.position = i.value.position =>
        Logged(u, j)
  BY <1>4, <1>5, <1>6, TheTables DEF Fed, Logged
<1>9. \A j : j.value.position # i.value.position => (Logged(s, j) <=> Logged(u, j))
  BY <1>6 DEF Logged
<1>10. \A j : Fed(s, j) <=> Fed(u, j)
  BY <1>2 DEF Fed
<1>11. ASSUME AllDeliverable(s), NEW j \in u.rows["intent"], Waiting(j)
       PROVE  Deliverable(u, j)
  <2>1. CASE j \in s.rows["intent"] /\ j.key # i.key
    <3>1. Deliverable(s, j)
      BY <1>11, <2>1 DEF AllDeliverable
    <3>2. j.value.position # i.value.position
      BY <1>5, <2>1, <3>1 DEF Deliverable, Alone
    <3> QED BY <1>7, <1>9, <1>10, <3>1, <3>2 DEF Deliverable
  <2>2. CASE j.key = i.key /\ j.value.position = i.value.position /\ j.value.state = "Appended"
    <3>1. Deliverable(s, i)
      BY <1>5, <1>11 DEF AllDeliverable
    <3>2. Fed(u, j)
      BY <1>2, <1>4, <1>5, <2>2, TheTables DEF Fed
    <3> QED BY <1>7, <1>8, <2>2, <3>1, <3>2 DEF Deliverable
  <2> QED BY <1>3, <2>1, <2>2 DEF Moved
<1>12. ASSUME AllDeliverable(u), NEW j \in s.rows["intent"], Waiting(j)
       PROVE  Deliverable(s, j)
  <2>1. CASE j.key # i.key
    <3>1. j \in u.rows["intent"]
      BY <1>3, <2>1 DEF Moved
    <3>2. Deliverable(u, j)
      BY <1>12, <3>1 DEF AllDeliverable
    <3>3. j.value.position # i.value.position
      BY <1>6, <2>1, <3>2 DEF Deliverable, Logged
    <3> QED BY <1>7, <1>9, <1>10, <3>2, <3>3 DEF Deliverable
  <2>2. CASE j.key = i.key
    <3>1. j = i
      BY <2>2, TypedRows, TheTables
    <3>2. PICK h \in u.rows["intent"] : /\ h.key = i.key /\ h.value.state = "Appended"
                                        /\ h.value.position = i.value.position /\ h.decodes
      BY <1>3 DEF Moved
    <3>3. Deliverable(u, h)
      BY <1>12, <3>2 DEF AllDeliverable, Waiting
    <3> QED BY <1>7, <1>8, <3>1, <3>2, <3>3 DEF Deliverable
  <2> QED BY <2>1, <2>2
<1> QED BY <1>11, <1>12 DEF AllDeliverable, u

\* Acknowledging: its event is at its position, so that no other one goes there.
LEMMA AcknowledgeDelivers ==
  ASSUME NEW s, Typed(s), Unread(s) = {}, NEW i \in s.rows["intent"],
         NEW o \in s.rows["outbox"], Acknowledges(s, i, o)
  PROVE  AllDeliverable(Acknowledge(s, i.key)) <=> AllDeliverable(s)
<1> DEFINE u == Acknowledge(s, i.key)
<1>0. o.key = i.key
  BY DEF Acknowledges
<1>1. /\ OnlyIn({"intent", "outbox", "job"}, s, u)
      /\ u.rows["intent"] = Replaced(s.rows["intent"], i.key, InState(i.value, "Acknowledged"))
      /\ u.rows["outbox"] = Replaced(s.rows["outbox"], i.key, InState(o.value, "Acknowledged"))
  BY <1>0, AcknowledgeMakes
<1> HIDE DEF u
<1>2. u.rows["log"] = s.rows["log"] /\ u.rows["record"] = s.rows["record"]
  BY <1>1, TheTables DEF OnlyIn
<1>3. Moved(s, u, i, "Acknowledged")
  BY <1>1, PutMoves
<1>4. \A t \in Tables : \A r \in s.rows[t] : r.decodes
  BY AllDecode
<1>5. /\ i.value.state # "Pending"
      /\ \E l \in s.rows["log"] : l.key = i.value.position /\ l.value = i.key
  BY DEF Acknowledges
<1>6. /\ \A q \in u.rows["outbox"] : q \in s.rows["outbox"] \/ q.key = i.key
      /\ \A q \in s.rows["outbox"] : q.key # i.key => q \in u.rows["outbox"]
  BY <1>1, ReplacedRows
<1>7. \A j : j.key # i.key => (Fed(s, j) <=> Fed(u, j))
  BY <1>2, <1>6 DEF Fed
<1>8. \A j : Logged(s, j) <=> Logged(u, j)
  BY <1>2 DEF Logged
<1>9. \A j \in u.rows["intent"] : Waiting(j) => j \in s.rows["intent"] /\ j.key # i.key
  BY <1>3 DEF Moved, Waiting
<1>10. \A j \in s.rows["intent"] : j.key # i.key => j \in u.rows["intent"]
  BY <1>3 DEF Moved
<1>11. ASSUME AllDeliverable(s), NEW j \in u.rows["intent"], Waiting(j)
       PROVE  Deliverable(u, j)
  <2>1. j \in s.rows["intent"] /\ j.key # i.key /\ Deliverable(s, j)
    BY <1>9, <1>11 DEF AllDeliverable
  <2>2. Alone(u, j)
    BY <1>9, <2>1 DEF Deliverable, Alone
  <2> QED BY <1>7, <1>8, <2>1, <2>2 DEF Deliverable
<1>12. \A l \in s.rows["log"] : l.key = i.value.position => l.value = i.key
  BY <1>5, TypedRows, TheTables
<1>13. ASSUME AllDeliverable(u), NEW j \in s.rows["intent"], Waiting(j), j.key # i.key
       PROVE  Deliverable(u, j) /\ j.value.position # i.value.position
  <2>1. Deliverable(u, j)
    BY <1>10, <1>13 DEF AllDeliverable
  <2>2. PICK l \in s.rows["log"] : l.key = i.value.position /\ l.value = i.key
    BY <1>5
  <2>3. l.decodes
    BY <1>4, TheTables
  <2> QED BY <1>2, <1>13, <2>1, <2>2, <2>3 DEF Deliverable, Logged
<1>14. ASSUME AllDeliverable(u), NEW j \in s.rows["intent"], Waiting(j)
       PROVE  Deliverable(s, j)
  <2>1. CASE j.key # i.key
    <3>1. Deliverable(u, j) /\ j.value.position # i.value.position
      BY <1>13, <1>14, <2>1
    <3>2. Alone(s, j)
      <4>1. SUFFICES ASSUME NEW h \in s.rows["intent"], Waiting(h),
                            h.value.position = j.value.position
                     PROVE  h.key = j.key
        BY DEF Alone
      <4>2. CASE h.key # i.key
        BY <1>10, <3>1, <4>1, <4>2 DEF Deliverable, Alone
      <4>3. CASE h.key = i.key
        <5>1. h = i
          BY <4>3, TypedRows, TheTables
        <5> QED BY <3>1, <4>1, <5>1
      <4> QED BY <4>2, <4>3
    <3> QED BY <1>7, <1>8, <2>1, <3>1, <3>2 DEF Deliverable
  <2>2. CASE j.key = i.key
    <3>1. j = i
      BY <2>2, TypedRows, TheTables
    <3>2. Fed(s, i)
      BY <1>0, <1>4, <1>5, TheTables DEF Fed
    <3>3. Logged(s, i)
      BY <1>12 DEF Logged
    <3>4. Alone(s, i)
      BY <1>13, <1>14 DEF Alone
    <3> QED BY <3>1, <3>2, <3>3, <3>4 DEF Deliverable
  <2> QED BY <2>1, <2>2
<1> QED BY <1>11, <1>14 DEF AllDeliverable, u

\* A delivery changes nothing about whether the store opens.
LEMMA DeliverOpens ==
  ASSUME NEW s, Sound(s), Unread(s) = {}, s.rows["configuration"] # {},
         NEW i \in s.rows["intent"], i.value.state # "Acknowledged",
         Obstacle(s, i.key) = "none"
  PROVE  Opens(Deliver(s, i.key)) <=> Opens(s)
<1> DEFINE u == Deliver(s, i.key)
<1>1. Typed(s)
  BY DEF Sound
<1>2. \/ Binds(s, i)
      \/ \E o \in s.rows["outbox"] : \/ Dispatches(s, i, o)
                                     \/ Appends(s, i, o)
                                     \/ Acknowledges(s, i, o)
  BY <1>1, DeliverCases
<1>3. u.schema = s.schema /\ Configurable(s) /\ Configurable(u)
  <2>1. Serves(s, u)
    BY DeliverServes
  <2> HIDE DEF u
  <2> QED BY <2>1 DEF Serves, Configurable
<1>4. AllDeliverable(u) <=> AllDeliverable(s)
  <2>1. CASE Binds(s, i)
    BY <1>1, <2>1, BindDelivers DEF Binds
  <2>2. ASSUME NEW o \in s.rows["outbox"], Dispatches(s, i, o)
        PROVE  AllDeliverable(u) <=> AllDeliverable(s)
    <3>1. /\ OnlyRowsOf("outbox", s, u)
          /\ u.rows["outbox"] = Replaced(s.rows["outbox"], o.key, InState(o.value, "Dispatched"))
      BY <2>2, DispatchSound DEF Dispatches
    <3> HIDE DEF u
    <3>2. /\ \E q \in u.rows["outbox"] : q.decodes /\ q.key = o.key
          /\ \A q \in u.rows["outbox"] : q \in s.rows["outbox"] \/ q.key = o.key
          /\ \A q \in s.rows["outbox"] : q.key # o.key => q \in u.rows["outbox"]
      BY <3>1, ReplacedRows
    <3>3. \A q \in s.rows["outbox"] : q.decodes
      BY AllDecode, TheTables
    <3>4. /\ u.rows["record"] = s.rows["record"] /\ u.rows["log"] = s.rows["log"]
          /\ u.rows["intent"] = s.rows["intent"]
      BY <3>1, TheTables DEF OnlyRowsOf
    <3>5. \A w \in {"record", "outbox"} :
            /\ \A q \in s.rows[w] : q.decodes => \E p \in u.rows[w] : p.decodes /\ p.key = q.key
            /\ \A q \in u.rows[w] : q.decodes => \E p \in s.rows[w] : p.decodes /\ p.key = q.key
      BY <3>2, <3>3, <3>4
    <3>6. \A w \in {"log", "intent"} : \A q : q.decodes => (q \in s.rows[w] <=> q \in u.rows[w])
      BY <3>4
    <3> QED BY <3>5, <3>6, DeliverableOfDecoded
  <2>3. ASSUME NEW o \in s.rows["outbox"], Appends(s, i, o)
        PROVE  AllDeliverable(u) <=> AllDeliverable(s)
    BY <1>1, <2>3, AppendDelivers DEF Appends
  <2>4. ASSUME NEW o \in s.rows["outbox"], Acknowledges(s, i, o)
        PROVE  AllDeliverable(u) <=> AllDeliverable(s)
    BY <1>1, <2>4, AcknowledgeDelivers DEF Acknowledges
  <2> QED BY <1>2, <2>1, <2>2, <2>3, <2>4
<1> QED BY <1>3, <1>4 DEF Opens

\* A store that opens meets no obstacle,
LEMMA OpensWithoutObstacle ==
  ASSUME NEW s, Typed(s), Unread(s) = {}, Opens(s),
         NEW i \in s.rows["intent"], i.value.state # "Acknowledged"
  PROVE  Obstacle(s, i.key) = "none"
<1>1. \A t \in Tables : \A r \in s.rows[t] : r.decodes
  BY AllDecode
<1>2. Fed(s, i) /\ Logged(s, i)
  BY <1>1, TheTables DEF Opens, AllDeliverable, Deliverable, Waiting
<1>3. Read(s, "intent", i.key) = i.value
  BY ReadRow, TheTables
<1>4. i.value.state = "Pending" => Has(s, "record", i.key[1])
  BY <1>2 DEF Fed, Has
<1>5. i.value.state # "Pending" => Has(s, "outbox", i.key)
  BY <1>2 DEF Fed, Has
<1>6. Has(s, "log", i.value.position) => Journalled(s, i.key, i.value.position)
  <2>1. SUFFICES ASSUME Has(s, "log", i.value.position)
                 PROVE  Journalled(s, i.key, i.value.position)
    OBVIOUS
  <2>2. PICK l \in s.rows["log"] : l.key = i.value.position
    BY <2>1 DEF Has
  <2>3. l.value = i.key
    BY <1>1, <1>2, <2>2, TheTables DEF Logged
  <2>4. Read(s, "log", l.key) = l.value
    BY ReadRow, TheTables
  <2> QED BY <2>1, <2>2, <2>3, <2>4 DEF Journalled
<1> QED BY <1>3, <1>4, <1>5, <1>6 DEF Obstacle

\* and is not asked for a configuration it never had.
LEMMA OpensConfigured ==
  ASSUME NEW s, Unread(s) = {}, Opens(s), NEW moved
  PROVE  ~ConfigurationMissing(s, moved)
<1>1. \A t \in Tables : \A r \in s.rows[t] : r.decodes
  BY AllDecode
<1> QED BY <1>1, TheTables DEF Opens, Configurable, ConfigurationMissing, ConfigurationSetAside, LegacyState


-----------------------------------------------------------------------------
(* The stores the program starts from. *)

\* The same rows in a file of another version.
LEMMA SameRowsSound ==
  ASSUME NEW s, Sound(s), NEW u \in StoreType, u.rows = s.rows, u.aside = s.aside
  PROVE  Sound(u)
<1>1. Typed(u)
  BY DEF Sound, Typed, OneRowPerKey, AsideOf
<1>2. Kept(u)
  BY DEF Sound, Kept, RecordKept, OutboxKept, IdentifierFree, AllocationKept, PositionsApart
<1> QED BY <1>1, <1>2 DEF Sound

\* A store without rows.
LEMMA EmptySound ==
  ASSUME NEW s \in StoreType, s.rows = NoRows, s.aside = NoRows
  PROVE  Sound(s) /\ Unread(s) = {}
<1>1. \A t \in Tables : s.rows[t] = {} /\ s.aside[t] = {}
  BY DEF NoRows
<1>2. /\ s.rows["live"] = {} /\ s.rows["log"] = {} /\ s.rows["job"] = {} /\ s.rows["record"] = {}
      /\ s.rows["allocation"] = {} /\ s.rows["intent"] = {}
  BY <1>1, TheTables
<1>3. Typed(s)
  <2>1. \A t \in Tables : \A key : AsideOf(s, t, key) = {}
    BY <1>1 DEF AsideOf
  <2>2. \A t \in Counted : \A r \in s.rows[t] : r.key <= 0
    BY <1>1, TheTables
  <2>3. IsFiniteSet({})
    BY FS_EmptySet
  <2> QED BY <1>1, <2>1, <2>2, <2>3 DEF Typed, OneRowPerKey
<1>4. Kept(s)
  BY <1>2 DEF Kept, RecordKept, OutboxKept, IdentifierFree, AllocationKept, PositionsApart
<1>5. Unread(s) = {}
  BY <1>1 DEF Unread, Undecodable
<1> QED BY <1>3, <1>4, <1>5 DEF Sound

\* A fresh file, and one that took the place of another.
LEMMA FreshSound ==
  /\ Sound(Fresh) /\ Fresh.schema = "Current"
  /\ \A exists, sidecars \in BOOLEAN :
       LET s == [Fresh EXCEPT !.exists = exists, !.sidecars = sidecars]
       IN  /\ Sound(s) /\ Unread(s) = {} /\ s.schema = "Current"
           /\ s.rows = NoRows /\ s.aside = NoRows
           /\ s.exists = exists /\ s.sidecars = sidecars
<1>1. /\ NoRows \in [Tables -> SUBSET [key : AllKeys, value : AllValues, decodes : BOOLEAN]]
      /\ NoRows \in [Tables -> SUBSET [key : AllKeys, number : Nat, value : AllValues]]
  BY DEF NoRows
<1>2. Fresh \in StoreType /\ Fresh.rows = NoRows /\ Fresh.aside = NoRows /\ Fresh.schema = "Current"
  BY <1>1 DEF Fresh, StoreType
<1>3. ASSUME NEW exists \in BOOLEAN, NEW sidecars \in BOOLEAN
      PROVE  LET s == [Fresh EXCEPT !.exists = exists, !.sidecars = sidecars]
             IN  /\ s \in StoreType /\ s.schema = "Current"
                 /\ s.rows = NoRows /\ s.aside = NoRows
                 /\ s.exists = exists /\ s.sidecars = sidecars
  BY <1>2 DEF StoreType
<1> QED BY <1>2, <1>3, EmptySound

\* The stores of the earlier release.
LEMMA UnmigratedSound ==
  \A s \in {Unmigrated, Older, Foreign} :
    /\ Sound(s) /\ s.rows = Unmigrated.rows /\ s.aside = NoRows
<1> DEFINE live  == Row(1, "Deployed")
           next  == [identifier |-> 2, position |-> 1]
           alloc == Row(0, next)
           rows  == [NoRows EXCEPT !.live = {live}, !.allocation = {alloc}]
<1>1. /\ live \in RowType("live") /\ live.key = 1
      /\ alloc \in RowType("allocation") /\ alloc.key = 0 /\ alloc.value = next
  <2>1. next \in ValueType("allocation")
    BY TableTypes
  <2>2. "live" \in Tables /\ 1 \in KeyType("live") /\ "Deployed" \in ValueType("live")
    BY TheTables, TableTypes
  <2>3. "allocation" \in Tables /\ 0 \in KeyType("allocation")
    BY TheTables, TableTypes
  <2>4. live \in RowType("live") /\ live.key = 1
    BY <2>2, RowWritten
  <2>5. alloc \in RowType("allocation") /\ alloc.key = 0 /\ alloc.value = next
    <3> HIDE DEF next
    <3> QED BY <2>1, <2>3, RowWritten
  <2> QED BY <2>4, <2>5
<1>2. next.identifier = 2
  OBVIOUS
<1> HIDE DEF live, alloc, next
<1>3. /\ rows["live"] = {live} /\ rows["allocation"] = {alloc}
      /\ \A t \in Tables \ {"live", "allocation"} : rows[t] = {}
  BY TheTables DEF NoRows
<1>4. \A t \in Tables : rows[t] \subseteq RowType(t)
  BY <1>1, <1>3
<1>5. rows \in [Tables -> SUBSET [key : AllKeys, value : AllValues, decodes : BOOLEAN]]
  <2>1. \A t \in Tables : rows[t] \subseteq [key : AllKeys, value : AllValues, decodes : BOOLEAN]
    BY <1>4, RowParts
  <2>2. rows = [t \in Tables |-> rows[t]]
    BY DEF NoRows
  <2> HIDE DEF rows
  <2> QED BY <2>1, <2>2
<1>6. NoRows \in [Tables -> SUBSET [key : AllKeys, number : Nat, value : AllValues]]
      /\ \A t \in Tables : NoRows[t] = {}
  BY DEF NoRows
<1>7. Unmigrated = [Fresh EXCEPT !.exists = TRUE, !.rows = rows]
  BY DEF Unmigrated, Fresh, rows, live, alloc, next
<1> HIDE DEF rows
<1>8. Unmigrated \in StoreType /\ Unmigrated.rows = rows /\ Unmigrated.aside = NoRows
  <2>1. Fresh \in StoreType /\ Fresh.aside = NoRows
    BY FreshSound DEF Sound, Typed, Fresh
  <2> QED BY <1>5, <1>7, <2>1 DEF StoreType
<1>9. Typed(Unmigrated)
  <2>1. OneRowPerKey(Unmigrated)
    BY <1>3, <1>8 DEF OneRowPerKey
  <2>2. \A t \in Counted : \A r \in Unmigrated.rows[t] : r.key <= 1
    BY <1>1, <1>3, <1>8, TheTables DEF Counted
  <2>3. \A t \in Tables : \A key : AsideOf(Unmigrated, t, key) = {}
    BY <1>6, <1>8 DEF AsideOf
  <2> QED BY <1>4, <1>8, <2>1, <2>2, <2>3, FS_EmptySet DEF Typed
<1>10. Kept(Unmigrated)
  <2>1. /\ Unmigrated.rows["live"] = {live} /\ Unmigrated.rows["allocation"] = {alloc}
        /\ Unmigrated.rows["log"] = {} /\ Unmigrated.rows["job"] = {}
        /\ Unmigrated.rows["record"] = {} /\ Unmigrated.rows["intent"] = {}
    BY <1>3, <1>8, TheTables
  <2>2. IdentifierFree(Unmigrated)
    BY <1>1, <1>2, <2>1 DEF IdentifierFree
  <2> QED BY <2>1, <2>2 DEF Kept, RecordKept, OutboxKept, AllocationKept, PositionsApart
<1>11. /\ Older \in StoreType /\ Older.rows = rows /\ Older.aside = NoRows
       /\ Foreign \in StoreType /\ Foreign.rows = rows /\ Foreign.aside = NoRows
  BY <1>8 DEF StoreType, Older, Foreign
<1> QED BY <1>8, <1>9, <1>10, <1>11, SameRowsSound DEF Sound

-----------------------------------------------------------------------------
(* The invariant.                                                          *)
(*                                                                         *)
(* An opening in place is one of a store that opens, and keeps it so; and  *)
(* the probe, changed as it is by its own opening, opens only if the store *)
(* it was copied from does.                                                *)

Places == Opening \union {"stopped", "sidecars", "open", "serving", "refused"}

Errors == {"none", "ProbeNotCopied", "ProbeNotRemoved", "ProbeNameTaken", "Unmigrated", "SchemaVersion",
           "NotResettable", "RecordMissing", "OutboxMissing", "PositionTaken"}

ProcessType ==
  [at : Places, pid : Pids \union {"none"}, counter : Nat, opened : {0, 1},
   file : {"none", "probe", "real"}, moved : SUBSET Tables, error : Errors, resets : BOOLEAN]

\* What an opening has established by the time it is at a step.
Reached(at, s) ==
  /\ at \in Opening \ {"quarantine"} => s.schema = "Current" /\ Unread(s) = {}
  /\ at \in Opening \ {"quarantine", "configuration"} => s.rows["configuration"] # {}
  /\ at \in {"requeue", "intents", "outbox"} => s.rows["allocation"] # {}
  /\ at = "outbox" => Unacknowledged(s) = {}

PlaceInv ==
  /\ process \in ProcessType
  /\ process.at \in Opening => process.file \in {"probe", "real"} /\ Reached(process.at, Opened)
  /\ process.at \in {"stopped", "sidecars", "open", "serving"} => process.file = "none"
  /\ process.at = "refused" => process.file # "real"
  /\ process.at = "serving" => /\ Unread(real) = {}
                               /\ real.rows["configuration"] # {} /\ real.rows["allocation"] # {}

NothingDecodes(s) == \A t \in Tables : \A r \in s.rows[t] : ~r.decodes

AsFound(s) == s.aside = NoRows /\ \A t \in Tables : Keys(s, t) = Keys(Unmigrated, t)

\* No configuration, now or ever: nothing was served by this release.
NeverServed(s) ==
  s.rows["configuration"] = {} /\ s.aside["configuration"] = {} => AsFound(s) \/ NothingDecodes(s)

\* A row of the table was set aside, or is about to be.
LostOf(s, t) == s.aside[t] # {} \/ Undecodable(s, t) # {}

\* The rows of one store are left of the other's.
LeftOf(p, s) ==
  /\ \A t \in Tables : p.rows[t] \subseteq s.rows[t] /\ s.aside[t] \subseteq p.aside[t]
  /\ s.rows["configuration"] # {} => p.rows["configuration"] # {} \/ p.aside["configuration"] # {}

\* How the probe stands to the store it was copied from.
ProbeOf(at, p, s) ==
  /\ p.schema = s.schema
  /\ Opens(p) => Opens(s)
  /\ \A t \in Tables : LostOf(p, t) => LostOf(s, t)
  /\ at \in {"quarantine", "configuration"} => LeftOf(p, s)

OpeningInv ==
  process.at \in Opening =>
    /\ process.file = "probe" => ProbeOf(process.at, probe, real)
    /\ process.file = "real"  => Opens(real)

\* The causes one by one, each lost row with the error it leads to.
RefusalInv ==
  process.at = "refused" =>
    \/ process.error \in {"ProbeNotCopied", "ProbeNotRemoved"}
    \/ process.error = "ProbeNameTaken" /\ ProbeName \in leftovers
    \/ process.error = "Unmigrated" /\ AsMigrationFindsIt
    \/ process.error \in {"SchemaVersion", "NotResettable"} /\ real.schema # "Current"
    \/ process.error = "NotResettable" /\ ~real.exists
    \/ process.error = "RecordMissing" /\ Lost("record")
    \/ process.error = "OutboxMissing" /\ Lost("outbox")
    \/ process.error = "PositionTaken" /\ Lost("allocation")

IInv ==
  /\ Sound(real) /\ Sound(probe)
  /\ NeverServed(real)
  /\ PlaceInv
  /\ OpeningInv
  /\ RefusalInv

\* Where it starts from.
LEMMA StoppedType ==
  /\ Stopped \in ProcessType /\ Stopped.at = "stopped" /\ Stopped.file = "none"
  /\ \A pid \in Pids :
       /\ LET q == [Stopped EXCEPT !.at = "open", !.pid = pid]
          IN  q \in ProcessType /\ q.at = "open" /\ q.file = "none"
       /\ LET q == [Stopped EXCEPT !.at = "sidecars", !.pid = pid, !.resets = TRUE]
          IN  q \in ProcessType /\ q.at = "sidecars" /\ q.file = "none"
  /\ LET q == [Stopped EXCEPT !.at = "refused", !.error = "NotResettable"]
     IN  q \in ProcessType /\ q.at = "refused" /\ q.file = "none" /\ q.error = "NotResettable"
<1>1. Stopped \in ProcessType /\ Stopped.at = "stopped" /\ Stopped.file = "none"
  BY DEF Stopped, ProcessType, Places, Errors
<1> QED BY <1>1 DEF ProcessType, Places, Errors

\* Every set of transitions has an earliest one.
LEMMA EarliestIsOne ==
  ASSUME NEW S \in SUBSET Transitions, S # {}
  PROVE  Earliest(S) \in S
<1>1. \A k \in S : k[1] \in Nat /\ k[2] \in Nat
  BY DEF Transitions
<1> DEFINE Firsts == {k[1] : k \in S}
<1>2. PICK m \in Firsts : \A n \in Firsts : m <= n
  <2>1. Firsts \in SUBSET Nat /\ Firsts # {}
    BY <1>1
  <2> HIDE DEF Firsts
  <2> QED BY <2>1, LeastExists
<1> DEFINE Seconds == {k[2] : k \in {j \in S : j[1] = m}}
<1>3. PICK l \in Seconds : \A n \in Seconds : l <= n
  <2>1. Seconds \in SUBSET Nat /\ Seconds # {}
    BY <1>1, <1>2
  <2> HIDE DEF Seconds
  <2> QED BY <2>1, LeastExists
<1>4. PICK k \in S : k[1] = m /\ k[2] = l
  BY <1>3
<1>5. \A j \in S : k[1] < j[1] \/ (k[1] = j[1] /\ k[2] <= j[2])
  <2>1. SUFFICES ASSUME NEW j \in S
                 PROVE  k[1] < j[1] \/ (k[1] = j[1] /\ k[2] <= j[2])
    OBVIOUS
  <2>2. m <= j[1]
    BY <1>2
  <2>3. j[1] = m => l <= j[2]
    BY <1>3
  <2> QED BY <1>1, <1>4, <2>2, <2>3
<1> QED BY <1>5 DEF Earliest

\* The transition that is delivered next is one of an intent that waits.
LEMMA NextDelivered ==
  ASSUME NEW s, Typed(s), Unacknowledged(s) # {}
  PROVE  \E i \in s.rows["intent"] : i.key = Earliest(Unacknowledged(s)) /\ i.value.state # "Acknowledged"
<1>1. Unacknowledged(s) \in SUBSET Transitions
  BY IntentParts DEF Unacknowledged
<1>2. Earliest(Unacknowledged(s)) \in Unacknowledged(s)
  BY <1>1, EarliestIsOne
<1> DEFINE k == Earliest(Unacknowledged(s))
<1> HIDE DEF k
<1>3. k \in Unacknowledged(s) => \E i \in s.rows["intent"] : i.key = k /\ i.value.state # "Acknowledged"
  BY DEF Unacknowledged
<1> QED BY <1>2, <1>3 DEF k

\* A step of an opening that settles nothing of it.
Keeps(s, u) ==
  /\ u.schema = s.schema
  /\ Opens(u) <=> Opens(s)
  /\ \A t \in Tables : LostOf(u, t) => LostOf(s, t)

\* A step outside an opening, or out of it.
LEMMA OutsideKeeps ==
  ASSUME IInv, process' \in ProcessType,
         process'.at \in {"stopped", "sidecars", "open", "refused"},
         process'.at # "refused" => process'.file = "none",
         process'.at = "refused" => process'.file # "real",
         Sound(real'), Sound(probe'), NeverServed(real'), RefusalInv'
  PROVE  IInv'
<1>1. process'.at \notin Opening /\ process'.at # "serving"
  BY DEF Opening
<1>2. PlaceInv'
  BY <1>1 DEF PlaceInv
<1>3. OpeningInv'
  BY <1>1 DEF OpeningInv
<1> QED BY <1>2, <1>3 DEF IInv

\* A write of the serving Nexus.
LEMMA ServingKeeps ==
  ASSUME IInv, process.at = "serving", Sound(real'), Serves(real, real'),
         UNCHANGED <<probe, process>>
  PROVE  IInv'
<1>1. /\ PlaceInv /\ process \in ProcessType /\ process.file = "none" /\ Unread(real) = {}
      /\ real.rows["configuration"] # {} /\ real.rows["allocation"] # {} /\ Sound(probe)
  BY DEF IInv, PlaceInv
<1>2. real'.rows["configuration"] # {} /\ real'.rows["allocation"] # {}
  BY <1>1 DEF Serves
<1>3. Unread(real') = {}
  <2>1. \A t \in Tables : \A r \in real.rows[t] : r.decodes
    BY <1>1, AllDecode
  <2> QED BY <2>1 DEF Serves, Unread, Undecodable
<1>4. process.at \notin Opening
  BY DEF Opening
<1>5. PlaceInv'
  BY <1>1, <1>2, <1>3, <1>4 DEF PlaceInv
<1>6. OpeningInv'
  BY <1>4 DEF OpeningInv
<1>7. NeverServed(real')
  BY <1>2 DEF NeverServed
<1>8. RefusalInv'
  BY DEF RefusalInv
<1> QED BY <1>1, <1>5, <1>6, <1>7, <1>8 DEF IInv

\* A step of an opening.
LEMMA OpeningKeeps ==
  ASSUME IInv, process.at \in Opening, NEW u, NEW at \in Opening, Change(u),
         process' \in ProcessType, process'.at = at, process'.file = process.file,
         Sound(u), Keeps(Opened, u), Reached(at, u),
         process.file = "real" => NeverServed(u),
         at \in {"quarantine", "configuration"} =>
           process.at \in {"quarantine", "configuration"} /\ LeftOf(u, Opened)
  PROVE  IInv'
<1>1. process.file \in {"probe", "real"}
  BY DEF IInv, PlaceInv
<1>2. at # "refused" /\ at \notin {"stopped", "sidecars", "open", "serving"}
  BY DEF Opening
<1>3. RefusalInv'
  BY <1>2 DEF RefusalInv
<1>4. CASE process.file = "probe"
  <2>1. Opened = probe /\ probe' = u /\ real' = real
    BY <1>4 DEF Opened, Change
  <2>2. Opened' = u
    BY <1>4, <2>1 DEF Opened
  <2>3. PlaceInv'
    BY <1>1, <1>2, <2>2 DEF PlaceInv
  <2>4. ProbeOf(process.at, probe, real)
    BY <1>4 DEF IInv, OpeningInv
  <2>5. ProbeOf(at, u, real)
    <3>1. /\ u.schema = real.schema
          /\ Opens(u) => Opens(real)
          /\ \A t \in Tables : LostOf(u, t) => LostOf(real, t)
      BY <2>1, <2>4 DEF ProbeOf, Keeps
    <3>2. ASSUME at \in {"quarantine", "configuration"}
          PROVE  LeftOf(u, real)
      <4>1. LeftOf(probe, real) /\ LeftOf(u, probe)
        BY <2>1, <2>4, <3>2 DEF ProbeOf
      <4>2. \A t \in Tables : /\ u.rows[t] \subseteq probe.rows[t]
                              /\ probe.rows[t] \subseteq real.rows[t]
                              /\ real.aside[t] \subseteq probe.aside[t]
                              /\ probe.aside[t] \subseteq u.aside[t]
        BY <4>1 DEF LeftOf
      <4>3. real.rows["configuration"] # {} =>
              u.rows["configuration"] # {} \/ u.aside["configuration"] # {}
        BY <4>1, <4>2, TheTables DEF LeftOf
      <4>4. \A t \in Tables : u.rows[t] \subseteq real.rows[t] /\ real.aside[t] \subseteq u.aside[t]
        BY <4>2
      <4> QED BY <4>3, <4>4 DEF LeftOf
    <3> QED BY <3>1, <3>2 DEF ProbeOf
  <2>6. OpeningInv'
    BY <1>4, <2>1, <2>5 DEF OpeningInv
  <2> QED BY <1>3, <2>1, <2>3, <2>6 DEF IInv
<1>5. CASE process.file = "real"
  <2>1. Opened = real /\ real' = u /\ probe' = probe
    BY <1>5 DEF Opened, Change
  <2>2. Opened' = u
    BY <1>5, <2>1 DEF Opened
  <2>3. PlaceInv'
    BY <1>1, <1>2, <2>2 DEF PlaceInv
  <2>4. Opens(u)
    BY <1>5, <2>1 DEF IInv, OpeningInv, Keeps
  <2>5. OpeningInv'
    BY <1>5, <2>1, <2>4 DEF OpeningInv
  <2> QED BY <1>3, <1>5, <2>1, <2>3, <2>5 DEF IInv
<1> QED BY <1>1, <1>4, <1>5

\* What an opening works on.
LEMMA OpenedParts ==
  ASSUME IInv, process.at \in Opening
  PROVE  /\ process \in ProcessType /\ process.file \in {"probe", "real"}
         /\ Sound(Opened) /\ Typed(Opened) /\ Reached(process.at, Opened)
         /\ process.file = "real" => Opens(Opened) /\ NeverServed(Opened) /\ Opened = real
         /\ process.file = "probe" => ProbeOf(process.at, Opened, real) /\ Opened = probe
<1>1. /\ PlaceInv /\ OpeningInv /\ Sound(real) /\ Sound(probe) /\ NeverServed(real)
  BY DEF IInv
<1>2. /\ process \in ProcessType /\ process.file \in {"probe", "real"}
      /\ Reached(process.at, Opened)
  BY <1>1 DEF PlaceInv
<1>3. CASE process.file = "real"
  BY <1>1, <1>2, <1>3 DEF OpeningInv, Opened, Sound
<1>4. CASE process.file = "probe"
  BY <1>1, <1>2, <1>4 DEF OpeningInv, Opened, Sound
<1> QED BY <1>2, <1>3, <1>4

-----------------------------------------------------------------------------
(* The initial states, and each step. *)

\* The initial states.
LEMMA InitKeeps == Init => IInv
<1>1. SUFFICES ASSUME Init PROVE IInv
  OBVIOUS
<1>2. Sound(probe) /\ process = Stopped
  BY <1>1, FreshSound DEF Init
<1>3. Sound(real) /\ NeverServed(real)
  <2>1. CASE real = Fresh
    <3>1. NothingDecodes(Fresh)
      BY DEF Fresh, NoRows, NothingDecodes
    <3> QED BY <2>1, <3>1, FreshSound DEF NeverServed
  <2>2. CASE real \in {Unmigrated, Older, Foreign}
    <3>1. Sound(real) /\ real.rows = Unmigrated.rows /\ real.aside = NoRows
      BY <2>2, UnmigratedSound
    <3> QED BY <3>1 DEF NeverServed, AsFound, Keys
  <2> QED BY <1>1, <2>1, <2>2 DEF Init
<1>4. process \in ProcessType /\ process.at = "stopped" /\ process.file = "none"
  BY <1>2, StoppedType
<1>5. process.at \notin Opening
  BY <1>4 DEF Opening
<1>6. PlaceInv /\ OpeningInv /\ RefusalInv
  BY <1>4, <1>5 DEF PlaceInv, OpeningInv, RefusalInv
<1> QED BY <1>2, <1>3, <1>6 DEF IInv

\* A start.
LEMMA StartKeeps ==
  ASSUME IInv, NEW pid \in Pids, Start(pid)
  PROVE  IInv'
<1>1. /\ process' \in ProcessType /\ process'.at = "open" /\ process'.file = "none"
  BY StoppedType DEF Start
<1>2. RefusalInv'
  BY <1>1 DEF RefusalInv
<1> QED BY <1>1, <1>2, OutsideKeeps DEF Start, IInv

\* A stop.
LEMMA StopKeeps ==
  ASSUME IInv, Stop
  PROVE  IInv'
<1>1. /\ process' \in ProcessType /\ process'.at = "stopped" /\ process'.file = "none"
  BY StoppedType DEF Stop
<1>2. RefusalInv'
  BY <1>1 DEF RefusalInv
<1> QED BY <1>1, <1>2, OutsideKeeps DEF Stop, IInv

\* A crash.
LEMMA CrashKeeps ==
  ASSUME IInv, Crash
  PROVE  IInv'
<1>1. /\ process' \in ProcessType /\ process'.at = "stopped" /\ process'.file = "none"
  BY StoppedType DEF Crash
<1>2. RefusalInv'
  BY <1>1 DEF RefusalInv
<1> QED BY <1>1, <1>2, OutsideKeeps, FreshSound DEF Crash, IInv

\* A file that is created in place.
LEMMA CreateKeeps ==
  ASSUME IInv, Create
  PROVE  IInv'
<1>1. process \in ProcessType /\ real.sidecars \in BOOLEAN
  BY StoreParts DEF IInv, PlaceInv, Sound, Typed
<1>2. /\ process' \in ProcessType /\ process'.at = "quarantine" /\ process'.file = "real"
  BY <1>1 DEF Create, Begin, ProcessType, Places, Opening
<1>3. /\ Sound(real') /\ Unread(real') = {} /\ real'.schema = "Current"
      /\ real'.rows = NoRows
  <2>1. real' = [Fresh EXCEPT !.exists = TRUE, !.sidecars = real.sidecars]
    BY DEF Create
  <2> QED BY <1>1, <2>1, FreshSound
<1>4. \A t \in Tables : real'.rows[t] = {}
  BY <1>3 DEF NoRows
<1>5. Opens(real') /\ NeverServed(real')
  <2>1. NothingDecodes(real')
    BY <1>4 DEF NothingDecodes
  <2>2. Configurable(real')
    BY <2>1 DEF Configurable, NothingDecodes
  <2>3. AllDeliverable(real')
    BY <1>4, TheTables DEF AllDeliverable
  <2> QED BY <1>3, <2>1, <2>2, <2>3 DEF Opens, NeverServed
<1>6. PlaceInv'
  BY <1>2 DEF PlaceInv, Reached, Opening
<1>7. OpeningInv'
  BY <1>2, <1>5 DEF OpeningInv
<1>8. RefusalInv'
  BY <1>2 DEF RefusalInv
<1>9. Sound(probe')
  BY DEF Create, IInv
<1> QED BY <1>3, <1>5, <1>6, <1>7, <1>8, <1>9 DEF IInv

\* A copy: the probe is the store.
LEMMA CopyKeeps ==
  ASSUME IInv, Copy
  PROVE  IInv'
<1>1. process \in ProcessType
  BY DEF IInv, PlaceInv
<1>2. /\ process' \in ProcessType /\ process'.at = "quarantine" /\ process'.file = "probe"
  BY <1>1 DEF Copy, Begin, ProcessType, Places, Opening
<1>3. probe' = real /\ real' = real
  BY DEF Copy
<1>4. PlaceInv'
  BY <1>2 DEF PlaceInv, Reached, Opening
<1>5. ProbeOf("quarantine", real, real)
  BY DEF ProbeOf, LeftOf
<1>6. OpeningInv'
  BY <1>2, <1>3, <1>5 DEF OpeningInv
<1>7. RefusalInv'
  BY <1>2 DEF RefusalInv
<1> QED BY <1>3, <1>4, <1>6, <1>7 DEF IInv

\* A copy that failed.
LEMMA CopyFailsKeeps ==
  ASSUME IInv, CopyFails
  PROVE  IInv'
<1>1. process \in ProcessType /\ process.file = "none"
  BY DEF IInv, PlaceInv, CopyFails
<1>2. /\ process' \in ProcessType /\ process'.at = "refused" /\ process'.file = "none"
      /\ process'.error = "ProbeNotCopied"
  BY <1>1 DEF CopyFails, ProcessType, Places, Errors
<1>3. RefusalInv'
  BY <1>2 DEF RefusalInv
<1> QED BY <1>2, <1>3, OutsideKeeps DEF CopyFails, IInv

\* A refusal.
LEMMA Refusal ==
  ASSUME IInv, process.file # "real", NEW error \in Errors, Refuse(error)
  PROVE  /\ process'.error = error /\ real' = real
         /\ process'.pid = process.pid /\ process'.counter = process.counter
         /\ RefusalInv' => IInv'
<1>1. process \in ProcessType /\ process' = [process EXCEPT !.at = "refused", !.error = error]
  BY DEF IInv, PlaceInv, Refuse
<1>2. /\ process' \in ProcessType /\ process'.at = "refused" /\ process'.file = process.file
      /\ process'.error = error
      /\ process'.pid = process.pid /\ process'.counter = process.counter
  BY <1>1 DEF ProcessType, Places
<1>3. Sound(real') /\ Sound(probe') /\ NeverServed(real') /\ real' = real
  BY FreshSound DEF Refuse, IInv
<1> QED BY <1>2, <1>3, OutsideKeeps

\* A probe name that is taken.
LEMMA NameTakenKeeps ==
  ASSUME IInv, NameTaken
  PROVE  IInv'
<1>1. process.file = "none" /\ Refuse("ProbeNameTaken") /\ "ProbeNameTaken" \in Errors
  BY DEF IInv, PlaceInv, NameTaken, Errors
<1>2. /\ process'.error = "ProbeNameTaken"
      /\ process'.pid = process.pid /\ process'.counter = process.counter
      /\ RefusalInv' => IInv'
  BY <1>1, Refusal
<1>3. RefusalInv'
  BY <1>2 DEF RefusalInv, ProbeName, NameTaken
<1> QED BY <1>2, <1>3

\* A database of another schema version.
LEMMA OtherSchemaKeeps ==
  ASSUME IInv, OtherSchema
  PROVE  IInv'
<1>1. process.at \in Opening /\ Opened.schema # "Current" /\ Refuse("SchemaVersion")
  BY DEF OtherSchema, Opening
<1>2. process.file = "probe" /\ real.schema # "Current"
  BY <1>1, OpenedParts DEF Opens, ProbeOf
<1>3. /\ process'.error = "SchemaVersion" /\ real' = real
      /\ RefusalInv' => IInv'
  BY <1>1, <1>2, Refusal DEF Errors
<1>4. RefusalInv'
  BY <1>2, <1>3 DEF RefusalInv
<1> QED BY <1>3, <1>4

\* The first of the tables with rows to set aside is one of them.
LEMMA FirstIsOne ==
  ASSUME NEW tables \in SUBSET Tables, tables # {}
  PROVE  First(tables) \in tables
<1> DEFINE S == {i \in 1 .. Len(Families) : Families[i] \in tables}
<1>1. Len(Families) \in Nat
  BY DEF Families
<1>2. S \in SUBSET Nat /\ S # {}
  BY <1>1 DEF Tables
<1>3. PICK i \in S : \A j \in S : i <= j
  <2> HIDE DEF S
  <2> QED BY <1>2, LeastExists
<1>4. /\ i \in 1 .. Len(Families) /\ Families[i] \in tables
      /\ \A j \in 1 .. i - 1 : Families[j] \notin tables
  BY <1>1, <1>3
<1> DEFINE c == CHOOSE h \in 1 .. Len(Families) :
                  /\ Families[h] \in tables
                  /\ \A j \in 1 .. h - 1 : Families[j] \notin tables
<1>5. Families[c] \in tables
  BY <1>4
<1> QED BY <1>5 DEF First

\* Setting a row aside.
LEMMA SetOneAsideKeeps ==
  ASSUME IInv, SetOneAside
  PROVE  IInv'
<1> DEFINE s == Opened
           t == First(Unread(Opened))
<1>1. /\ process.at = "quarantine" /\ process.at \in Opening
      /\ s.schema = "Current" /\ Unread(s) # {}
  BY DEF SetOneAside, Opening
<1>2. PICK r \in Undecodable(s, t) :
        /\ Change(SetAside(s, t, r))
        /\ process' = [process EXCEPT !.moved = @ \union {t}]
  BY DEF SetOneAside
<1>3. /\ process \in ProcessType /\ Sound(s) /\ Typed(s)
      /\ process.file = "real" => Opens(s) /\ NeverServed(s)
  BY <1>1, OpenedParts
<1>4. t \in Unread(s) /\ t \in Tables
  <2>1. Unread(s) \in SUBSET Tables
    BY DEF Unread
  <2> QED BY <1>1, <2>1, FirstIsOne
<1> HIDE DEF s, t
<1>5. r \in s.rows[t] /\ ~r.decodes /\ Undecodable(s, t) # {}
  BY <1>2 DEF Undecodable
<1> DEFINE u == SetAside(s, t, r)
<1>6. /\ u.schema = s.schema
      /\ \A w \in Tables \ {t} : u.rows[w] = s.rows[w] /\ u.aside[w] = s.aside[w]
      /\ \A q : q \in u.rows[t] <=> q \in s.rows[t] /\ q.key # r.key
      /\ s.aside[t] \subseteq u.aside[t] /\ u.aside[t] # {}
  BY <1>3, <1>4, <1>5, SetAsideMakes
<1>7. Sound(u) /\ (Opens(u) <=> Opens(s))
  BY <1>3, <1>4, <1>5, SetAsideSound, SetAsideOpens
<1> HIDE DEF u
<1>8. \A w \in Tables : LostOf(u, w) => LostOf(s, w)
  BY <1>5, <1>6 DEF LostOf, Undecodable
<1>9. \A w \in Tables : u.rows[w] \subseteq s.rows[w] /\ s.aside[w] \subseteq u.aside[w]
  BY <1>6
<1>10. LeftOf(u, s)
  BY <1>6, <1>9, TheTables DEF LeftOf
<1>11. Opens(s) /\ NeverServed(s) => NeverServed(u)
  <2>1. SUFFICES ASSUME Opens(s), u.rows["configuration"] = {}, u.aside["configuration"] = {}
                 PROVE  NothingDecodes(u)
    BY DEF NeverServed
  <2>2. s.rows["configuration"] = {} /\ s.aside["configuration"] = {}
    BY <1>6, <2>1, TheTables
  <2>3. NothingDecodes(s)
    BY <2>1, <2>2 DEF Opens, Configurable, NothingDecodes
  <2> QED BY <1>9, <2>3 DEF NothingDecodes
<1>12. /\ process' \in ProcessType /\ process'.at = process.at /\ process'.file = process.file
  BY <1>2, <1>3, <1>4 DEF ProcessType
<1>13. Reached("quarantine", u)
  BY DEF Reached
<1> QED BY <1>1, <1>2, <1>3, <1>6, <1>7, <1>8, <1>10, <1>11, <1>12, <1>13, OpeningKeeps DEF Keeps, s, u

\* All rows read.
LEMMA AllReadKeeps ==
  ASSUME IInv, AllRead
  PROVE  IInv'
<1> DEFINE s == Opened
<1>1. /\ process.at = "quarantine" /\ process.at \in Opening
      /\ s.schema = "Current" /\ Unread(s) = {}
      /\ process' = [process EXCEPT !.at = "configuration"]
      /\ real' = real /\ probe' = probe
  BY DEF AllRead, Opening, GoTo
<1>2. /\ process \in ProcessType /\ Sound(s)
      /\ process.file = "real" => NeverServed(s)
  BY <1>1, OpenedParts
<1>3. /\ process' \in ProcessType /\ process'.at = "configuration" /\ process'.file = process.file
  BY <1>1, <1>2 DEF ProcessType, Places, Opening
<1>4. Change(s)
  BY <1>1 DEF Change, Opened
<1> HIDE DEF s
<1>5. Reached("configuration", s) /\ LeftOf(s, s) /\ Keeps(s, s)
  BY <1>1 DEF Reached, LeftOf, Keeps
<1>6. "configuration" \in Opening
  BY DEF Opening
<1> QED BY <1>1, <1>2, <1>3, <1>4, <1>5, <1>6, OpeningKeeps DEF s

\* Nothing is lost by writing rows that decode.
LEMMA ReadStays ==
  ASSUME NEW s, NEW u, u.aside = s.aside, \A t \in Tables : \A r \in u.rows[t] : r.decodes
  PROVE  /\ Unread(u) = {}
         /\ \A t \in Tables : LostOf(u, t) => LostOf(s, t)
BY DEF Unread, Undecodable, LostOf

\* The configuration.
LEMMA ConfiguredKeeps ==
  ASSUME IInv, Configured
  PROVE  IInv'
<1> DEFINE s == Opened
<1>1. process.at = "configuration" /\ process.at \in Opening
  BY DEF Configured, Opening
<1>2. /\ process \in ProcessType /\ process.file \in {"probe", "real"}
      /\ Sound(s) /\ Typed(s) /\ Reached(process.at, s)
      /\ process.file = "real" => Opens(s)
      /\ process.file = "probe" => ProbeOf(process.at, s, real)
  BY <1>1, OpenedParts
<1>3. s.schema = "Current" /\ Unread(s) = {}
  BY <1>1, <1>2 DEF Reached
<1>4. CASE ConfigurationMissing(s, process.moved)
  <2>1. process.file = "probe" /\ Refuse("Unmigrated")
    BY <1>2, <1>3, <1>4, OpensConfigured DEF Configured
  <2>2. /\ process'.error = "Unmigrated" /\ real' = real
        /\ RefusalInv' => IInv'
    BY <2>1, Refusal DEF Errors
  <2>3. /\ s.rows["configuration"] = {} /\ s.aside["configuration"] = {}
        /\ \E t \in Tables : s.rows[t] # {}
    BY <1>4 DEF ConfigurationMissing, ConfigurationSetAside, LegacyState
  <2> HIDE DEF s
  <2>4. LeftOf(s, real)
    BY <1>1, <1>2, <2>1 DEF ProbeOf
  <2>5. real.rows["configuration"] = {} /\ real.aside["configuration"] = {}
    BY <2>3, <2>4, TheTables DEF LeftOf
  <2>6. ~NothingDecodes(real)
    <3>1. PICK t \in Tables : s.rows[t] # {}
      BY <2>3
    <3>2. \A r \in s.rows[t] : r.decodes /\ r \in real.rows[t]
      BY <1>3, <2>4, AllDecode DEF LeftOf
    <3> QED BY <3>1, <3>2 DEF NothingDecodes
  <2>7. AsFound(real)
    BY <2>5, <2>6 DEF IInv, NeverServed
  <2>8. AsMigrationFindsIt
    BY <2>7 DEF AsFound, AsMigrationFindsIt
  <2>9. RefusalInv'
    BY <2>2, <2>8 DEF RefusalInv, AsMigrationFindsIt
  <2> QED BY <2>2, <2>9
<1>5. CASE ~ConfigurationMissing(s, process.moved)
  <2> DEFINE u == EnsureConfiguration(s)
  <2>1. Change(u) /\ process' = [process EXCEPT !.at = "allocation"]
    BY <1>5 DEF Configured, GoTo
  <2>2. /\ process' \in ProcessType /\ process'.at = "allocation" /\ process'.file = process.file
        /\ "allocation" \in Opening
    BY <1>2, <2>1 DEF ProcessType, Places, Opening
  <2>3. Configurable(s)
    BY <1>5 DEF ConfigurationMissing, ConfigurationSetAside, LegacyState, Configurable
  <2>4. /\ Typed(u) /\ OnlyRowsOf("configuration", s, u)
        /\ u.rows["configuration"] # {}
        /\ \A r \in u.rows["configuration"] : r \in s.rows["configuration"] \/ r.decodes
    BY <1>2, EnsureConfigurationMakes
  <2> HIDE DEF s, u
  <2>5. Sound(u)
    BY <1>2, <2>4, ConfigurationSound
  <2>6. /\ u.schema = s.schema /\ u.aside = s.aside
        /\ \A t \in Tables : t # "configuration" => u.rows[t] = s.rows[t]
    BY <2>4 DEF OnlyRowsOf
  <2>7. \A t \in Tables : \A r \in u.rows[t] : r.decodes
    BY <1>3, <2>4, <2>6, AllDecode
  <2>8. Unread(u) = {} /\ \A t \in Tables : LostOf(u, t) => LostOf(s, t)
    BY <2>6, <2>7, ReadStays
  <2>9. Opens(u) <=> Opens(s)
    <3>1. Configurable(u)
      BY <2>4 DEF Configurable
    <3>2. \A t \in {"record", "outbox", "log", "intent"} : u.rows[t] = s.rows[t]
      BY <2>6, TheTables
    <3> QED BY <2>3, <2>6, <3>1, <3>2, ElsewhereOpens
  <2>10. Reached("allocation", u) /\ Keeps(s, u) /\ NeverServed(u)
    BY <1>3, <2>4, <2>6, <2>8, <2>9 DEF Reached, Keeps, NeverServed
  <2> QED BY <1>1, <2>1, <2>2, <2>5, <2>10, OpeningKeeps DEF s
<1> QED BY <1>4, <1>5

\* The allocation.
LEMMA AllocatedKeeps ==
  ASSUME IInv, Allocated
  PROVE  IInv'
<1> DEFINE s == Opened
           u == EnsureAllocation(s)
<1>1. /\ process.at = "allocation" /\ process.at \in Opening
      /\ Change(u) /\ process' = [process EXCEPT !.at = "requeue"]
  BY DEF Allocated, Opening, GoTo
<1>2. process \in ProcessType /\ Sound(s) /\ Reached(process.at, s)
  BY <1>1, OpenedParts
<1>3. /\ process' \in ProcessType /\ process'.at = "requeue" /\ process'.file = process.file
      /\ "requeue" \in Opening
  BY <1>1, <1>2 DEF ProcessType, Places, Opening
<1>4. s.schema = "Current" /\ Unread(s) = {} /\ s.rows["configuration"] # {}
  BY <1>1, <1>2 DEF Reached, Opening
<1>5. /\ Sound(u) /\ OnlyRowsOf("allocation", s, u) /\ u.rows["allocation"] # {}
      /\ \A r \in u.rows["allocation"] : r \in s.rows["allocation"] \/ r.decodes
  BY <1>2, EnsureAllocationMakes
<1> HIDE DEF s, u
<1>6. /\ u.schema = s.schema /\ u.aside = s.aside
      /\ \A t \in Tables : t # "allocation" => u.rows[t] = s.rows[t]
  BY <1>5 DEF OnlyRowsOf
<1>7. u.rows["configuration"] # {}
  BY <1>4, <1>6, TheTables
<1>8. \A t \in Tables : \A r \in u.rows[t] : r.decodes
  BY <1>4, <1>5, <1>6, AllDecode
<1>9. Unread(u) = {} /\ \A t \in Tables : LostOf(u, t) => LostOf(s, t)
  BY <1>6, <1>8, ReadStays
<1>10. Opens(u) <=> Opens(s)
  <2>1. Configurable(s) /\ Configurable(u)
    BY <1>4, <1>7 DEF Configurable
  <2>2. \A t \in {"record", "outbox", "log", "intent"} : u.rows[t] = s.rows[t]
    BY <1>6, TheTables
  <2> QED BY <1>6, <2>1, <2>2, ElsewhereOpens
<1>11. Reached("requeue", u) /\ Keeps(s, u) /\ NeverServed(u)
  BY <1>4, <1>5, <1>6, <1>7, <1>9, <1>10 DEF Reached, Keeps, NeverServed
<1> QED BY <1>1, <1>3, <1>5, <1>11, OpeningKeeps DEF s

\* The deliveries that were dispatched.
LEMMA RequeuedKeeps ==
  ASSUME IInv, Requeued
  PROVE  IInv'
<1> DEFINE s == Opened
           u == Requeue(s)
<1>1. /\ process.at = "requeue" /\ process.at \in Opening
      /\ Change(u) /\ process' = [process EXCEPT !.at = "intents"]
  BY DEF Requeued, Opening, GoTo
<1>2. process \in ProcessType /\ Sound(s) /\ Typed(s) /\ Reached(process.at, s)
  BY <1>1, OpenedParts
<1>3. /\ process' \in ProcessType /\ process'.at = "intents" /\ process'.file = process.file
      /\ "intents" \in Opening
  BY <1>1, <1>2 DEF ProcessType, Places, Opening
<1>4. /\ s.schema = "Current" /\ Unread(s) = {}
      /\ s.rows["configuration"] # {} /\ s.rows["allocation"] # {}
  BY <1>1, <1>2 DEF Reached, Opening
<1>5. /\ Typed(u) /\ OnlyRowsOf("outbox", s, u)
      /\ \A o \in s.rows["outbox"] : \E r \in u.rows["outbox"] : r.key = o.key
      /\ \A r \in u.rows["outbox"] : \E o \in s.rows["outbox"] : o.decodes = r.decodes
  BY <1>2, RequeueMakes
<1>6. Opens(u) <=> Opens(s)
  BY <1>2, RequeueOpens
<1> HIDE DEF s, u
<1>7. Sound(u)
  BY <1>2, <1>5, OutboxSound
<1>8. /\ u.schema = s.schema /\ u.aside = s.aside
      /\ \A t \in Tables : t # "outbox" => u.rows[t] = s.rows[t]
  BY <1>5 DEF OnlyRowsOf
<1>9. u.rows["configuration"] # {} /\ u.rows["allocation"] # {}
  BY <1>4, <1>8, TheTables
<1>10. \A t \in Tables : \A r \in u.rows[t] : r.decodes
  BY <1>4, <1>5, <1>8, AllDecode
<1>11. Unread(u) = {} /\ \A t \in Tables : LostOf(u, t) => LostOf(s, t)
  BY <1>8, <1>10, ReadStays
<1>12. Reached("intents", u) /\ Keeps(s, u) /\ NeverServed(u)
  BY <1>4, <1>6, <1>8, <1>9, <1>11 DEF Reached, Keeps, NeverServed
<1> QED BY <1>1, <1>3, <1>7, <1>12, OpeningKeeps DEF s

\* The obstacles a delivery meets, in a store that was never rebuilt.
LEMMA ObstacleCauses ==
  ASSUME NEW s, Sound(s), NEW i \in s.rows["intent"], i.value.state # "Acknowledged",
         Obstacle(s, i.key) # "none"
  PROVE  \/ Obstacle(s, i.key) = "RecordMissing" /\ s.aside["record"] # {}
         \/ Obstacle(s, i.key) = "OutboxMissing" /\ s.aside["outbox"] # {}
         \/ Obstacle(s, i.key) = "PositionTaken" /\ s.aside["allocation"] # {}
<1>1. /\ Typed(s) /\ RecordKept(s) /\ OutboxKept(s) /\ PositionsApart(s)
  BY DEF Sound, Kept
<1>2. Read(s, "intent", i.key) = i.value
  BY <1>1, ReadRow, TheTables
<1>3. i.value.state \in {"Pending", "Bound", "Appended"}
  BY <1>1, IntentParts
<1>4. CASE i.value.state = "Pending" /\ ~Has(s, "record", i.key[1])
  <2>1. Obstacle(s, i.key) = "RecordMissing"
    BY <1>2, <1>4 DEF Obstacle
  <2> QED BY <1>1, <1>4, <2>1 DEF Has, RecordKept
<1>5. CASE i.value.state # "Pending" /\ ~Has(s, "outbox", i.key)
  <2>1. Obstacle(s, i.key) = "OutboxMissing"
    BY <1>2, <1>5 DEF Obstacle
  <2> QED BY <1>1, <1>3, <1>5, <2>1 DEF Has, OutboxKept
<1>6. CASE /\ ~(i.value.state = "Pending" /\ ~Has(s, "record", i.key[1]))
           /\ ~(i.value.state # "Pending" /\ ~Has(s, "outbox", i.key))
  <2>1. /\ Obstacle(s, i.key) = "PositionTaken"
        /\ Has(s, "log", i.value.position) /\ ~Journalled(s, i.key, i.value.position)
    BY <1>2, <1>6 DEF Obstacle
  <2>2. PICK l \in s.rows["log"] : l.key = i.value.position
    BY <2>1 DEF Has
  <2>3. l.value # i.key
    <3>1. Read(s, "log", l.key) = l.value
      BY <1>1, ReadRow, TheTables
    <3> QED BY <2>1, <2>2, <3>1 DEF Journalled
  <2> QED BY <1>1, <2>1, <2>2, <2>3 DEF PositionsApart
<1> QED BY <1>4, <1>5, <1>6

\* The next commit of a delivery.
LEMMA RedeliveredKeeps ==
  ASSUME IInv, Redelivered
  PROVE  IInv'
<1> DEFINE s == Opened
           k == Earliest(Unacknowledged(s))
<1>1. process.at = "intents" /\ process.at \in Opening /\ Unacknowledged(s) # {}
  BY DEF Redelivered, Opening
<1>2. /\ process \in ProcessType /\ process.file \in {"probe", "real"}
      /\ Sound(s) /\ Typed(s) /\ Reached(process.at, s)
      /\ process.file = "real" => Opens(s)
      /\ process.file = "probe" => ProbeOf(process.at, s, real)
  BY <1>1, OpenedParts
<1>3. /\ s.schema = "Current" /\ Unread(s) = {}
      /\ s.rows["configuration"] # {} /\ s.rows["allocation"] # {}
  BY <1>1, <1>2 DEF Reached, Opening
<1>4. PICK i \in s.rows["intent"] : i.key = k /\ i.value.state # "Acknowledged"
  BY <1>1, <1>2, NextDelivered
<1>5. CASE Obstacle(s, k) # "none"
  <2>1. Refuse(Obstacle(s, k))
    BY <1>5 DEF Redelivered
  <2> HIDE DEF s, k
  <2>2. process.file = "probe"
    BY <1>2, <1>3, <1>4, <1>5, OpensWithoutObstacle
  <2>3. \/ Obstacle(s, k) = "RecordMissing" /\ s.aside["record"] # {}
        \/ Obstacle(s, k) = "OutboxMissing" /\ s.aside["outbox"] # {}
        \/ Obstacle(s, k) = "PositionTaken" /\ s.aside["allocation"] # {}
    BY <1>2, <1>4, <1>5, ObstacleCauses
  <2>4. Obstacle(s, k) \in Errors
    BY <2>3 DEF Errors
  <2>5. /\ process'.error = Obstacle(s, k) /\ real' = real
        /\ RefusalInv' => IInv'
    BY <2>1, <2>2, <2>4, Refusal
  <2>6. \A t \in {"record", "outbox", "allocation"} : s.aside[t] # {} => Lost(t)
    BY <1>2, <2>2, TheTables DEF ProbeOf, LostOf, Lost
  <2>7. \A t \in {"record", "outbox", "allocation"} : Lost(t) => Lost(t)'
    BY <2>5 DEF Lost
  <2>8. \/ process'.error = "RecordMissing" /\ Lost("record")'
        \/ process'.error = "OutboxMissing" /\ Lost("outbox")'
        \/ process'.error = "PositionTaken" /\ Lost("allocation")'
    BY <2>3, <2>5, <2>6, <2>7
  <2>9. RefusalInv'
    BY <2>8 DEF RefusalInv
  <2> QED BY <2>5, <2>9
<1>6. CASE Obstacle(s, k) = "none"
  <2> DEFINE u == Deliver(s, k)
  <2>1. Change(u) /\ process' = process
    BY <1>6 DEF Redelivered
  <2> HIDE DEF s, k
  <2>2. Sound(u) /\ Serves(s, u) /\ (Opens(u) <=> Opens(s))
    BY <1>2, <1>3, <1>4, <1>6, DeliverSound, DeliverServes, DeliverOpens
  <2> HIDE DEF u
  <2>3. /\ u.schema = s.schema /\ u.aside = s.aside
        /\ u.rows["configuration"] # {} /\ u.rows["allocation"] # {}
    BY <1>3, <2>2 DEF Serves
  <2>4. \A t \in Tables : \A r \in u.rows[t] : r.decodes
    BY <1>3, <2>2, AllDecode DEF Serves
  <2>5. Unread(u) = {} /\ \A t \in Tables : LostOf(u, t) => LostOf(s, t)
    BY <2>3, <2>4, ReadStays
  <2>6. Reached("intents", u) /\ Keeps(s, u) /\ NeverServed(u)
    BY <1>3, <2>2, <2>3, <2>5 DEF Reached, Keeps, NeverServed
  <2> QED BY <1>1, <1>2, <2>1, <2>2, <2>6, OpeningKeeps DEF s
<1> QED BY <1>5, <1>6

\* All transitions acknowledged.
LEMMA AllDeliveredKeeps ==
  ASSUME IInv, AllDelivered
  PROVE  IInv'
<1> DEFINE s == Opened
<1>1. /\ process.at = "intents" /\ process.at \in Opening /\ Unacknowledged(s) = {}
      /\ process' = [process EXCEPT !.at = "outbox"]
      /\ real' = real /\ probe' = probe
  BY DEF AllDelivered, Opening, GoTo
<1>2. /\ process \in ProcessType /\ Sound(s) /\ Reached(process.at, s)
      /\ process.file = "real" => NeverServed(s)
  BY <1>1, OpenedParts
<1>3. /\ process' \in ProcessType /\ process'.at = "outbox" /\ process'.file = process.file
      /\ "outbox" \in Opening
  BY <1>1, <1>2 DEF ProcessType, Places, Opening
<1>4. Change(s)
  BY <1>1 DEF Change, Opened
<1> HIDE DEF s
<1>5. Reached("outbox", s) /\ Keeps(s, s)
  BY <1>1, <1>2 DEF Reached, Keeps, Opening
<1> QED BY <1>1, <1>2, <1>3, <1>4, <1>5, OpeningKeeps DEF s

\* The probe opened: nothing is left in it that could refuse, so the store opens.
LEMMA ProbeOpenedKeeps ==
  ASSUME IInv, ProbeOpened
  PROVE  IInv'
<1>1. process.at = "outbox" /\ process.at \in Opening /\ process.file = "probe"
  BY DEF ProbeOpened, Opening
<1>2. /\ process \in ProcessType /\ Typed(probe) /\ Reached("outbox", probe)
      /\ ProbeOf("outbox", probe, real)
  BY <1>1, OpenedParts
<1>3. Opens(probe)
  <2>1. /\ probe.schema = "Current" /\ probe.rows["configuration"] # {}
        /\ Unacknowledged(probe) = {}
    BY <1>2 DEF Reached, Opening
  <2>2. AllDeliverable(probe)
    BY <2>1 DEF Unacknowledged, AllDeliverable, Waiting
  <2> QED BY <2>1, <2>2 DEF Opens, Configurable
<1>4. Opens(real)
  BY <1>2, <1>3 DEF ProbeOf
<1>5. /\ process' \in ProcessType /\ process'.at = "quarantine" /\ process'.file = "real"
      /\ real' = real /\ probe' = Fresh
  <2> DEFINE n == process.counter + 1
  <2>1. /\ process' = [process EXCEPT !.at = "quarantine", !.file = "real", !.moved = {},
                                     !.counter = n]
        /\ real' = real /\ probe' = Fresh
    BY DEF ProbeOpened
  <2>2. n \in Nat
    BY <1>2 DEF ProcessType
  <2> HIDE DEF n
  <2> QED BY <1>2, <2>1, <2>2 DEF ProcessType, Places, Opening
<1>6. PlaceInv'
  BY <1>5 DEF PlaceInv, Reached, Opening
<1>7. OpeningInv'
  BY <1>4, <1>5 DEF OpeningInv
<1>8. RefusalInv'
  BY <1>5 DEF RefusalInv
<1> QED BY <1>5, <1>6, <1>7, <1>8, FreshSound DEF IInv

\* A probe that cannot be removed.
LEMMA ProbeNotRemovedKeeps ==
  ASSUME IInv, ProbeNotRemoved
  PROVE  IInv'
<1>1. process.file # "real" /\ Refuse("ProbeNotRemoved") /\ "ProbeNotRemoved" \in Errors
  BY DEF ProbeNotRemoved, Errors
<1>2. process'.error = "ProbeNotRemoved" /\ (RefusalInv' => IInv')
  BY <1>1, Refusal
<1>3. RefusalInv'
  BY <1>2 DEF RefusalInv
<1> QED BY <1>2, <1>3

\* The store opened.
LEMMA StoreOpenedKeeps ==
  ASSUME IInv, StoreOpened
  PROVE  IInv'
<1>1. /\ process.at = "outbox" /\ process.at \in Opening /\ process.file = "real"
      /\ real' = ReconcileOutbox(real) /\ probe' = probe
  BY DEF StoreOpened, Opening
<1>2. /\ process \in ProcessType /\ Sound(real) /\ Typed(real) /\ Reached("outbox", real)
  BY <1>1, OpenedParts
<1>3. /\ Unread(real) = {} /\ real.rows["configuration"] # {} /\ real.rows["allocation"] # {}
  BY <1>2 DEF Reached, Opening
<1>4. /\ Typed(real') /\ OnlyRowsOf("outbox", real, real')
      /\ real.rows["outbox"] \subseteq real'.rows["outbox"]
      /\ \A r \in real'.rows["outbox"] : r \in real.rows["outbox"] \/ r.decodes
  BY <1>1, <1>2, ReconcileMakes
<1>5. Sound(real')
  BY <1>2, <1>4, OutboxSound
<1>6. \A t \in Tables : t # "outbox" => real'.rows[t] = real.rows[t]
  BY <1>4 DEF OnlyRowsOf
<1>7. real'.rows["configuration"] # {} /\ real'.rows["allocation"] # {}
  BY <1>3, <1>6, TheTables
<1>8. Unread(real') = {}
  <2>1. \A t \in Tables : \A r \in real'.rows[t] : r.decodes
    BY <1>3, <1>4, <1>6, AllDecode
  <2> QED BY <2>1, ReadStays DEF Unread, Undecodable
<1>9. /\ process' \in ProcessType /\ process'.file = "none"
      /\ process'.at \in {"stopped", "open", "serving"}
  <2>1. CASE process.resets
    BY <2>1, StoppedType DEF StoreOpened
  <2>2. CASE ~process.resets
    BY <1>2, <2>2 DEF StoreOpened, ProcessType, Places
  <2> QED BY <2>1, <2>2
<1>10. process'.at \notin Opening
  BY <1>9 DEF Opening
<1>11. PlaceInv'
  BY <1>7, <1>8, <1>9, <1>10 DEF PlaceInv
<1>12. OpeningInv'
  BY <1>10 DEF OpeningInv
<1>13. RefusalInv' /\ NeverServed(real')
  BY <1>7, <1>9 DEF RefusalInv, NeverServed
<1> QED BY <1>1, <1>5, <1>11, <1>12, <1>13 DEF IInv

\* A reset, refused or not.
LEMMA ResetStoreKeeps ==
  ASSUME IInv, NEW pid \in Pids, ResetStore(pid)
  PROVE  IInv'
<1>1. Sound(real) /\ Sound(probe') /\ NeverServed(real)
  BY DEF IInv, ResetStore
<1>2. CASE /\ ~Recognised(real)
           /\ process' = [Stopped EXCEPT !.at = "refused", !.error = "NotResettable"]
           /\ real' = real
  <2>1. /\ process' \in ProcessType /\ process'.at = "refused" /\ process'.file = "none"
        /\ process'.error = "NotResettable"
    BY <1>2, StoppedType
  <2>2. RefusalInv'
    BY <1>2, <2>1 DEF RefusalInv, Recognised
  <2> QED BY <1>1, <1>2, <2>1, <2>2, OutsideKeeps
<1>3. CASE /\ process' = [Stopped EXCEPT !.at = "sidecars", !.pid = pid, !.resets = TRUE]
           /\ real' = [Fresh EXCEPT !.sidecars = real.sidecars]
  <2>1. /\ process' \in ProcessType /\ process'.at = "sidecars" /\ process'.file = "none"
    BY <1>3, StoppedType
  <2>2. RefusalInv'
    BY <2>1 DEF RefusalInv
  <2>3. real.sidecars \in BOOLEAN
    BY <1>1, StoreParts DEF Sound, Typed
  <2>4. Sound(real') /\ NeverServed(real')
    <3>1. Fresh \in StoreType /\ Fresh.rows = NoRows /\ Fresh.aside = NoRows
      BY FreshSound DEF Sound, Typed, Fresh
    <3>2. real' \in StoreType /\ real'.rows = NoRows /\ real'.aside = NoRows
      BY <1>3, <2>3, <3>1 DEF StoreType
    <3>3. NothingDecodes(real')
      BY <3>2 DEF NothingDecodes, NoRows
    <3> QED BY <3>2, <3>3, EmptySound DEF NeverServed
  <2> QED BY <1>1, <2>1, <2>2, <2>4, OutsideKeeps
<1> QED BY <1>2, <1>3 DEF ResetStore

\* The files left next to it.
LEMMA RemoveSidecarsKeeps ==
  ASSUME IInv, RemoveSidecars
  PROVE  IInv'
<1>1. /\ process \in ProcessType /\ process.file = "none" /\ Sound(real) /\ NeverServed(real)
      /\ Sound(probe')
  BY DEF IInv, PlaceInv, RemoveSidecars
<1>2. /\ process' \in ProcessType /\ process'.at = "open" /\ process'.file = "none"
  BY <1>1 DEF RemoveSidecars, GoTo, ProcessType, Places
<1>3. real' \in StoreType /\ real'.rows = real.rows /\ real'.aside = real.aside
  BY <1>1 DEF RemoveSidecars, Sound, Typed, StoreType
<1>4. Sound(real')
  BY <1>1, <1>3, SameRowsSound
<1>5. NeverServed(real')
  BY <1>1, <1>3 DEF NeverServed, AsFound, NothingDecodes, Keys
<1>6. RefusalInv'
  BY <1>2 DEF RefusalInv
<1> QED BY <1>1, <1>2, <1>4, <1>5, <1>6, OutsideKeeps

\* The migration.
LEMMA MigrateKeeps ==
  ASSUME IInv, Migrate
  PROVE  IInv'
<1> DEFINE v  == [desired |-> "Archived", meta |-> FALSE]
           s1 == Put(real, "configuration", 0, v)
<1>1. /\ Sound(real) /\ Sound(probe) /\ process \in ProcessType /\ process.file = "none"
      /\ process' = process /\ process.at = "stopped" /\ probe' = probe
      /\ real' = EnsureAllocation(s1)
  BY DEF IInv, PlaceInv, Migrate
<1>2. v \in ValueType("configuration")
  BY TableTypes
<1> HIDE DEF v
<1>3. Sound(s1) /\ s1.rows["configuration"] # {}
  BY <1>1, <1>2, ConfigureSound
<1> HIDE DEF s1
<1>4. Sound(real') /\ OnlyRowsOf("allocation", s1, real')
  BY <1>1, <1>3, EnsureAllocationMakes
<1>5. NeverServed(real')
  BY <1>3, <1>4, TheTables DEF OnlyRowsOf, NeverServed
<1>6. RefusalInv'
  BY <1>1 DEF RefusalInv
<1> QED BY <1>1, <1>4, <1>5, <1>6, OutsideKeeps

\* A schema change.
LEMMA UpgradeKeeps ==
  ASSUME IInv, NEW schema \in Schemas, Upgrade(schema)
  PROVE  IInv'
<1>1. /\ Sound(real) /\ Typed(real) /\ Sound(probe) /\ NeverServed(real)
      /\ process \in ProcessType /\ process.file = "none"
      /\ process' = process /\ process.at = "stopped" /\ probe' = probe
      /\ real' = Upgraded(real, schema)
  BY DEF IInv, PlaceInv, Upgrade, Upgraded, Sound
<1>2. Sound(real')
  BY <1>1, UpgradeSound
<1>3. SameContent(real, real') /\ real'.aside = real.aside
  BY <1>1, UpgradeMakes
<1>4. NeverServed(real')
  <2>1. SUFFICES ASSUME real'.rows["configuration"] = {}, real'.aside["configuration"] = {}
                 PROVE  AsFound(real') \/ NothingDecodes(real')
    BY DEF NeverServed
  <2>2. real.rows["configuration"] = {} /\ real.aside["configuration"] = {}
    BY <1>3, <2>1, TheTables DEF SameContent
  <2>3. CASE AsFound(real)
    <3>1. ASSUME NEW t \in Tables
          PROVE  Keys(real', t) = Keys(real, t)
      <4>1. /\ \A r \in real'.rows[t] : \E q \in real.rows[t] : q.key = r.key
            /\ \A q \in real.rows[t] : \E r \in real'.rows[t] : r.key = q.key
        BY <1>3 DEF SameContent
      <4> QED BY <4>1 DEF Keys
    <3> QED BY <1>3, <2>3, <3>1 DEF AsFound
  <2>4. CASE NothingDecodes(real)
    BY <1>3, <2>4 DEF NothingDecodes, SameContent
  <2> QED BY <1>1, <2>2, <2>3, <2>4 DEF NeverServed
<1>5. RefusalInv'
  BY <1>1 DEF RefusalInv
<1> QED BY <1>1, <1>2, <1>4, <1>5, OutsideKeeps

\* A submission, with the next identifier.
LEMMA SubmitKeeps ==
  ASSUME IInv, Submit
  PROVE  IInv'
<1>1. /\ process.at = "serving" /\ Sound(real) /\ Typed(real) /\ real.rows["allocation"] # {}
  BY DEF IInv, PlaceInv, Submit, Sound
<1>2. PICK a \in real.rows["allocation"] : Only(real, "allocation") = a.value
  BY <1>1, AllocationParts
<1>3. real' = Submitted(real, a.value) /\ UNCHANGED <<probe, process>>
  BY <1>2 DEF Submit, Serve, Submitted
<1>4. Sound(real') /\ Serves(real, real')
  BY <1>1, <1>3, SubmitSound
<1> QED BY <1>1, <1>3, <1>4, ServingKeeps

\* The next step of a transition.
LEMMA AdvanceKeeps ==
  ASSUME IInv, NEW k \in Keys(real, "intent"), Advance(k)
  PROVE  IInv'
<1>1. /\ process.at = "serving" /\ Sound(real)
      /\ real' = Deliver(real, k) /\ UNCHANGED <<probe, process>>
      /\ k \in Unacknowledged(real) /\ Obstacle(real, k) = "none"
  BY DEF IInv, Advance, Serve
<1>2. PICK i \in real.rows["intent"] : i.key = k /\ i.value.state # "Acknowledged"
  BY <1>1 DEF Unacknowledged
<1>3. Sound(Deliver(real, k)) /\ Serves(real, Deliver(real, k))
  BY <1>1, <1>2, DeliverSound, DeliverServes
<1>4. Sound(real') /\ Serves(real, real')
  BY <1>1, <1>3
<1> QED BY <1>1, <1>4, ServingKeeps

\* An activation.
LEMMA ActivateKeeps ==
  ASSUME IInv, NEW d \in 1 .. MaxIdentifier, Activate(d)
  PROVE  IInv'
<1>1. /\ process.at = "serving" /\ Sound(real)
      /\ real' = Put(real, "live", d, "Deployed") /\ UNCHANGED <<probe, process>>
      /\ Has(real, "job", d)
  BY DEF IInv, Activate, Serve, UnderWay
<1>2. PICK j \in real.rows["job"] : j.key = d
  BY <1>1 DEF Has
<1>3. Sound(real') /\ Serves(real, real')
  BY <1>1, <1>2, ActivateSound
<1> QED BY <1>1, <1>3, ServingKeeps

\* A terminal outcome.
LEMMA ConcludeKeeps ==
  ASSUME IInv, NEW d \in 1 .. MaxIdentifier, Conclude(d)
  PROVE  IInv'
<1>1. /\ process.at = "serving" /\ Sound(real) /\ Typed(real) /\ real.rows["allocation"] # {}
      /\ Has(real, "job", d)
  BY DEF IInv, PlaceInv, Conclude, Serve, UnderWay, Sound
<1>2. PICK a \in real.rows["allocation"] : Only(real, "allocation") = a.value
  BY <1>1, AllocationParts
<1>3. PICK j \in real.rows["job"] : j.key = d
  BY <1>1 DEF Has
<1>4. real' = Concluded(real, a.value, d) /\ UNCHANGED <<probe, process>>
  BY <1>2 DEF Conclude, Serve, Concluded
<1>5. Sound(real') /\ Serves(real, real')
  BY <1>1, <1>3, <1>4, ConcludeSound
<1> QED BY <1>1, <1>4, <1>5, ServingKeeps

\* A configuration.
LEMMA ConfigureKeeps ==
  ASSUME IInv, OrdinaryConfigure \/ MetaConfigure \/ MetaReverse
  PROVE  IInv'
<1>1. /\ process.at = "serving" /\ Sound(real) /\ Typed(real) /\ real.rows["configuration"] # {}
      /\ UNCHANGED <<probe, process>>
  BY DEF IInv, PlaceInv, OrdinaryConfigure, MetaConfigure, MetaReverse, Serve, Sound
<1>2. \E v \in ValueType("configuration") : real' = Put(real, "configuration", 0, v)
  <2> DEFINE Values == [desired : {"Archived", "BuiltIn", "Ordinary", "Meta"}, meta : BOOLEAN]
  <2>1. ValueType("configuration") = Values
    BY TableTypes
  <2>2. CASE OrdinaryConfigure
    <3>1. [desired |-> "Ordinary", meta |-> FALSE] \in Values
      OBVIOUS
    <3> QED BY <2>1, <2>2, <3>1 DEF OrdinaryConfigure, Serve
  <2>3. CASE MetaConfigure
    <3>1. [desired |-> "Meta", meta |-> TRUE] \in Values
      OBVIOUS
    <3> QED BY <2>1, <2>3, <3>1 DEF MetaConfigure, Serve
  <2>4. CASE MetaReverse
    <3>1. PICK c \in real.rows["configuration"] : c.value \in Values
      BY <1>1, <2>1, TypedRows, TheTables
    <3>2. Only(real, "configuration") = c.value
      <4>1. c.key = 0
        BY <1>1, TypedRows, TheTables, TableTypes
      <4>2. Read(real, "configuration", c.key) = c.value
        BY <1>1, ReadRow, TheTables
      <4> QED BY <4>1, <4>2 DEF Only
    <3>3. [c.value EXCEPT !.meta = FALSE] \in Values
      BY <3>1
    <3> QED BY <2>1, <2>4, <3>2, <3>3 DEF MetaReverse, Serve
  <2> QED BY <2>2, <2>3, <2>4
<1>3. Sound(real') /\ Serves(real, real')
  BY <1>1, <1>2, ConfigureSound
<1> QED BY <1>1, <1>3, ServingKeeps

-----------------------------------------------------------------------------
(* The theorems. *)

\* A stutter.
LEMMA StutterKeeps ==
  ASSUME IInv, UNCHANGED vars
  PROVE  IInv'
<1>1. /\ real' = real /\ probe' = probe /\ leftovers' = leftovers /\ process' = process
      /\ Sound(real) /\ Sound(probe) /\ NeverServed(real)
      /\ PlaceInv /\ OpeningInv /\ RefusalInv
  BY DEF vars, IInv
<1>2. PlaceInv'
  BY <1>1 DEF PlaceInv, Opened
<1>3. OpeningInv'
  BY <1>1 DEF OpeningInv
<1>4. RefusalInv'
  BY <1>1 DEF RefusalInv, ProbeName, AsMigrationFindsIt, Lost
<1> QED BY <1>1, <1>2, <1>3, <1>4 DEF IInv

\* The inductive invariant: whether a store opens is settled on its probe,
\* whatever is written between the two openings, and what a store keeps from
\* one opening to the next is never lost (open_with_default_configuration).
THEOREM Invariant == Spec => []IInv
<1>1. IInv /\ [Next]_vars => IInv'
  <2>1. SUFFICES ASSUME IInv, [Next]_vars PROVE IInv'
    OBVIOUS
  <2>2. ASSUME NEW pid \in Pids, Start(pid) \/ ResetStore(pid)
        PROVE  IInv'
    BY <2>1, <2>2, StartKeeps, ResetStoreKeeps
  <2>3. CASE Create \/ Copy \/ CopyFails \/ NameTaken
    BY <2>1, <2>3, CreateKeeps, CopyKeeps, CopyFailsKeeps, NameTakenKeeps
  <2>4. CASE RemoveSidecars \/ Migrate
    BY <2>1, <2>4, RemoveSidecarsKeeps, MigrateKeeps
  <2>5. CASE OtherSchema \/ SetOneAside \/ AllRead \/ Configured \/ Allocated \/ Requeued
    BY <2>1, <2>5, OtherSchemaKeeps, SetOneAsideKeeps, AllReadKeeps, ConfiguredKeeps,
       AllocatedKeeps, RequeuedKeeps
  <2>6. CASE Redelivered \/ AllDelivered \/ ProbeOpened \/ ProbeNotRemoved \/ StoreOpened
    BY <2>1, <2>6, RedeliveredKeeps, AllDeliveredKeeps, ProbeOpenedKeeps, ProbeNotRemovedKeeps,
       StoreOpenedKeeps
  <2>7. CASE Submit
    BY <2>1, <2>7, SubmitKeeps
  <2>8. ASSUME NEW k \in Keys(real, "intent"), Advance(k)
        PROVE  IInv'
    BY <2>1, <2>8, AdvanceKeeps
  <2>9. ASSUME NEW d \in 1 .. MaxIdentifier, Activate(d) \/ Conclude(d)
        PROVE  IInv'
    BY <2>1, <2>9, ActivateKeeps, ConcludeKeeps
  <2>10. CASE OrdinaryConfigure \/ MetaConfigure \/ MetaReverse
    BY <2>1, <2>10, ConfigureKeeps
  <2>11. CASE Crash \/ Stop
    BY <2>1, <2>11, CrashKeeps, StopKeeps
  <2>12. ASSUME NEW schema \in Schemas, Upgrade(schema)
         PROVE  IInv'
    BY <2>1, <2>12, UpgradeKeeps
  <2>13. CASE UNCHANGED vars
    BY <2>1, <2>13, StutterKeeps
  <2> QED BY <2>1, <2>2, <2>3, <2>4, <2>5, <2>6, <2>7, <2>8, <2>9, <2>10, <2>11, <2>12, <2>13
          DEF Next
<1> QED BY InitKeeps, <1>1, PTL DEF Spec

\* Every table of a store, and of its probe, holds one row per key.
THEOREM TypeCorrect == Spec => []TypeOK
<1>1. IInv => TypeOK
  <2>1. SUFFICES ASSUME IInv PROVE TypeOK
    OBVIOUS
  <2>2. Typed(real) /\ Typed(probe) /\ process \in ProcessType
    BY <2>1 DEF IInv, Sound, PlaceInv
  <2>3. real.exists \in BOOLEAN /\ probe.exists \in BOOLEAN
    BY <2>2, StoreParts DEF Typed
  <2>4. process.at \in Opening \union {"stopped", "sidecars", "open", "serving", "refused"}
    BY <2>2 DEF ProcessType, Places
  <2> QED BY <2>2, <2>3, <2>4 DEF TypeOK, Typed, OneRowPerKey
<1> QED BY Invariant, <1>1, PTL

\* But for a row lost to a schema change, a store is refused for a documented
\* cause only: another schema, no migration, a failed copy or a probe that stays
\* - never for where earlier openings were cut short (open_unchecked,
\* ensure_nexus_configuration).
THEOREM CauseOfRefusal == Spec => []RefusedForCause
<1>1. IInv => RefusedForCause
  BY DEF IInv, RefusalInv, RefusedForCause, RefusedForARow, RowErrors
<1> QED BY Invariant, <1>1, PTL

\* A store that is refused is refused on its probe, and the file is what it was
\* (open_with_default_configuration).
THEOREM RefusalOnProbe == Spec => []RefusedOnTheProbe
<1>1. IInv => RefusedOnTheProbe
  BY DEF IInv, PlaceInv, RefusedOnTheProbe
<1> QED BY Invariant, <1>1, PTL

\* What a served store allocates next is free: above every live generation and
\* job, and above all there is unless the allocation was once rebuilt
\* (ensure_identifier_allocation).
THEOREM AllocationFree == Spec => []NextIsFree
<1>1. IInv => NextIsFree
  <2>1. SUFFICES ASSUME IInv, process.at = "serving"
                 PROVE  LET next == Only(real, "allocation") IN
                          /\ \A d \in Keys(real, "live") \union Keys(real, "job") :
                               d < next.identifier
                          /\ real.aside["allocation"] = {} =>
                               /\ \A d \in Keys(real, "record") : d < next.identifier
                               /\ \A r \in real.rows["intent"] :
                                    r.key[1] < next.identifier /\ r.value.position < next.position
                               /\ \A p \in Keys(real, "log") : p < next.position
    BY DEF NextIsFree
  <2>2. /\ Typed(real) /\ IdentifierFree(real) /\ AllocationKept(real)
        /\ real.rows["allocation"] # {}
    BY <2>1 DEF IInv, Sound, Kept, PlaceInv
  <2>3. PICK a \in real.rows["allocation"] : Only(real, "allocation") = a.value
    BY <2>2, AllocationParts
  <2>4. \A d \in Keys(real, "live") \union Keys(real, "job") : d < a.value.identifier
    BY <2>2 DEF IdentifierFree, Keys
  <2>5. real.aside["allocation"] = {} =>
          /\ \A d \in Keys(real, "record") : d < a.value.identifier
          /\ \A r \in real.rows["intent"] : /\ r.key[1] < a.value.identifier
                                            /\ r.value.position < a.value.position
          /\ \A p \in Keys(real, "log") : p < a.value.position
    BY <2>2 DEF AllocationKept, Keys
  <2> QED BY <2>3, <2>4, <2>5
<1> QED BY Invariant, <1>1, PTL

-----------------------------------------------------------------------------
(* What an opening loses. *)

\* The rows of one store are in the other, set aside in it, or settled there.
Preserves(s, u) ==
  \A t \in Tables :
    /\ s.aside[t] \subseteq u.aside[t]
    /\ \A r \in s.rows[t] :
         \/ Has(u, t, r.key)
         \/ \E q \in u.aside[t] \ s.aside[t] : q.key = r.key /\ q.value = r.value
         \/ t = "job" /\ Read(u, "intent", <<r.key, 1>>).state = "Acknowledged"

\* A store whose keys all stay preserves it.
LEMMA KeysPreserve ==
  ASSUME NEW s, NEW u, u.aside = s.aside,
         \A t \in Tables : \A r \in s.rows[t] : \E q \in u.rows[t] : q.key = r.key
  PROVE  Preserves(s, u)
BY DEF Preserves, Has

\* Rows of which one is put keep their keys.
LEMMA ReplacedKeys ==
  ASSUME NEW rows, NEW k, NEW v
  PROVE  \A r \in rows : \E q \in Replaced(rows, k, v) : q.key = r.key
<1>1. ASSUME NEW r \in rows
      PROVE  \E q \in Replaced(rows, k, v) : q.key = r.key
  <2>1. CASE r.key = k
    BY <2>1, ReplacedRows
  <2>2. CASE r.key # k
    BY <2>2, ReplacedRows
  <2> QED BY <2>1, <2>2
<1> QED BY <1>1

\* Setting a row aside.
LEMMA SetAsidePreserves ==
  ASSUME NEW s, Typed(s), NEW t \in Tables, NEW r \in s.rows[t]
  PROVE  Preserves(s, SetAside(s, t, r))
<1> DEFINE u == SetAside(s, t, r)
<1>1. /\ \A w \in Tables \ {t} : u.rows[w] = s.rows[w] /\ u.aside[w] = s.aside[w]
      /\ \A q : q \in u.rows[t] <=> q \in s.rows[t] /\ q.key # r.key
      /\ s.aside[t] \subseteq u.aside[t]
      /\ \E q \in u.aside[t] \ s.aside[t] : q.key = r.key /\ q.value = r.value
  BY SetAsideMakes
<1> HIDE DEF u
<1>2. \A p \in s.rows[t] : p.key = r.key => p = r
  BY TypedRows
<1>3. \A p \in s.rows[t] :
        \/ Has(u, t, p.key)
        \/ \E q \in u.aside[t] \ s.aside[t] : q.key = p.key /\ q.value = p.value
  BY <1>1, <1>2 DEF Has
<1>4. ASSUME NEW w \in Tables, w # t, NEW p \in s.rows[w]
      PROVE  Has(u, w, p.key)
  BY <1>1, <1>4 DEF Has
<1>5. Preserves(s, u)
  BY <1>1, <1>3, <1>4 DEF Preserves
<1> QED BY <1>5 DEF u

\* A delivery: the cursor goes when its terminal is acknowledged.
LEMMA DeliverPreserves ==
  ASSUME NEW s, Sound(s), NEW i \in s.rows["intent"], i.value.state # "Acknowledged",
         Obstacle(s, i.key) = "none"
  PROVE  Preserves(s, Deliver(s, i.key))
<1> DEFINE u == Deliver(s, i.key)
           Stays(t) == \A r \in s.rows[t] : \E q \in u.rows[t] : q.key = r.key
<1>1. Typed(s)
  BY DEF Sound
<1>2. \/ Binds(s, i)
      \/ \E o \in s.rows["outbox"] : \/ Dispatches(s, i, o)
                                     \/ Appends(s, i, o)
                                     \/ Acknowledges(s, i, o)
  BY <1>1, DeliverCases
<1>3. ASSUME NEW tables, OnlyIn(tables, s, u), \A t \in tables : Stays(t)
      PROVE  Preserves(s, u)
  <2>1. \A t \in Tables : Stays(t)
    BY <1>3 DEF OnlyIn
  <2>2. u.aside = s.aside
    BY <1>3 DEF OnlyIn
  <2> HIDE DEF u
  <2> QED BY <2>1, <2>2, KeysPreserve
<1>4. CASE Binds(s, i)
  <2>1. /\ OnlyIn({"intent", "outbox"}, s, u)
        /\ u.rows["intent"] = Replaced(s.rows["intent"], i.key, InState(i.value, "Bound"))
        /\ u.rows["outbox"] = Replaced(s.rows["outbox"], i.key, [state |-> "Pending"])
    BY <1>1, <1>4, BindMakes DEF Binds
  <2>2. Stays("intent") /\ Stays("outbox")
    BY <2>1, ReplacedKeys
  <2>3. \A t \in {"intent", "outbox"} : Stays(t)
    BY <2>2
  <2> HIDE DEF u
  <2>4. Preserves(s, u)
    BY <1>3, <2>1, <2>3
  <2> QED BY <2>4 DEF u
<1>5. ASSUME NEW o \in s.rows["outbox"], Dispatches(s, i, o)
      PROVE  Preserves(s, u)
  <2>1. /\ OnlyRowsOf("outbox", s, u)
        /\ u.rows["outbox"] = Replaced(s.rows["outbox"], o.key, InState(o.value, "Dispatched"))
    BY <1>5, DispatchSound DEF Dispatches
  <2>2. Stays("outbox")
    BY <2>1, ReplacedKeys
  <2>3. \A t \in {"outbox"} : Stays(t)
    BY <2>2
  <2> HIDE DEF u
  <2>4. OnlyIn({"outbox"}, s, u)
    BY <2>1 DEF OnlyIn, OnlyRowsOf
  <2> QED BY <1>3, <2>3, <2>4
<1>6. ASSUME NEW o \in s.rows["outbox"], Appends(s, i, o)
      PROVE  Preserves(s, u)
  <2>1. /\ OnlyIn({"intent", "log"}, s, u)
        /\ u.rows["intent"] = Replaced(s.rows["intent"], i.key, InState(i.value, "Appended"))
        /\ u.rows["log"] = Replaced(s.rows["log"], i.value.position, i.key)
    BY <1>1, <1>6, AppendMakes DEF Appends
  <2>2. Stays("intent") /\ Stays("log")
    BY <2>1, ReplacedKeys
  <2>3. \A t \in {"intent", "log"} : Stays(t)
    BY <2>2
  <2> HIDE DEF u
  <2> QED BY <1>3, <2>1, <2>3
<1>7. ASSUME NEW o \in s.rows["outbox"], Acknowledges(s, i, o)
      PROVE  Preserves(s, u)
  <2>1. /\ Typed(u) /\ OnlyIn({"intent", "outbox", "job"}, s, u)
        /\ u.rows["intent"] = Replaced(s.rows["intent"], i.key, InState(i.value, "Acknowledged"))
        /\ u.rows["outbox"] = Replaced(s.rows["outbox"], i.key, InState(o.value, "Acknowledged"))
        /\ u.rows["job"] = {r \in s.rows["job"] : i.key[2] = 1 => r.key # i.key[1]}
    BY <1>1, <1>7, AcknowledgeMakes DEF Acknowledges
  <2>2. Stays("intent") /\ Stays("outbox")
    BY <2>1, ReplacedKeys
  <2>3. i.key = <<i.key[1], i.key[2]>>
    BY <1>1, IntentParts
  <2> HIDE DEF u
  <2>4. Read(u, "intent", i.key).state = "Acknowledged"
    <3>1. PICK j \in u.rows["intent"] : j.key = i.key /\ j.value.state = "Acknowledged"
      BY <1>1, <2>1, PutMoves DEF Moved
    <3>2. Read(u, "intent", j.key) = j.value
      BY <2>1, ReadRow, TheTables
    <3> QED BY <3>1, <3>2
  <2>5. ASSUME NEW r \in s.rows["job"]
        PROVE  Has(u, "job", r.key) \/ Read(u, "intent", <<r.key, 1>>).state = "Acknowledged"
    <3>1. CASE i.key[2] = 1 /\ r.key = i.key[1]
      BY <2>3, <2>4, <3>1
    <3>2. CASE ~(i.key[2] = 1 /\ r.key = i.key[1])
      BY <2>1, <3>2 DEF Has
    <3> QED BY <3>1, <3>2
  <2>6. \A t \in Tables : t # "job" => Stays(t)
    BY <2>1, <2>2 DEF OnlyIn
  <2>7. u.aside = s.aside
    BY <2>1 DEF OnlyIn
  <2>8. \A t \in Tables : t # "job" => \A r \in s.rows[t] : Has(u, t, r.key)
    BY <2>6 DEF Has
  <2> QED BY <2>5, <2>7, <2>8 DEF Preserves
<1> QED BY <1>2, <1>4, <1>5, <1>6, <1>7

\* The writes of an opening, but for those that set aside and deliver.
LEMMA WritesPreserve ==
  ASSUME NEW s, Sound(s)
  PROVE  /\ Preserves(s, s)
         /\ Preserves(s, EnsureConfiguration(s))
         /\ Preserves(s, EnsureAllocation(s))
         /\ Preserves(s, Requeue(s))
         /\ Preserves(s, ReconcileOutbox(s))
<1>1. Typed(s)
  BY DEF Sound
<1>2. ASSUME NEW t \in Tables, NEW u, OnlyRowsOf(t, s, u),
             \A r \in s.rows[t] : \E q \in u.rows[t] : q.key = r.key
      PROVE  Preserves(s, u)
  <2>1. u.aside = s.aside
    BY <1>2 DEF OnlyRowsOf
  <2>2. \A w \in Tables : \A r \in s.rows[w] : \E q \in u.rows[w] : q.key = r.key
    BY <1>2 DEF OnlyRowsOf
  <2> QED BY <2>1, <2>2, KeysPreserve
<1>3. Preserves(s, s)
  BY KeysPreserve
<1>4. Preserves(s, EnsureConfiguration(s))
  <2> DEFINE u == EnsureConfiguration(s)
  <2>1. OnlyRowsOf("configuration", s, u) /\ s.rows["configuration"] \subseteq u.rows["configuration"]
    BY <1>1, EnsureConfigurationMakes
  <2> HIDE DEF u
  <2>2. \A r \in s.rows["configuration"] : \E q \in u.rows["configuration"] : q.key = r.key
    BY <2>1
  <2>3. Preserves(s, u)
    BY <1>2, <2>1, <2>2, TheTables
  <2> QED BY <2>3 DEF u
<1>5. Preserves(s, EnsureAllocation(s))
  <2> DEFINE u == EnsureAllocation(s)
  <2>1. OnlyRowsOf("allocation", s, u) /\ s.rows["allocation"] \subseteq u.rows["allocation"]
    BY EnsureAllocationMakes
  <2> HIDE DEF u
  <2>2. \A r \in s.rows["allocation"] : \E q \in u.rows["allocation"] : q.key = r.key
    BY <2>1
  <2>3. Preserves(s, u)
    BY <1>2, <2>1, <2>2, TheTables
  <2> QED BY <2>3 DEF u
<1>6. Preserves(s, Requeue(s))
  <2> DEFINE u == Requeue(s)
  <2>1. /\ OnlyRowsOf("outbox", s, u)
        /\ \A r \in s.rows["outbox"] : \E q \in u.rows["outbox"] : q.key = r.key
    BY <1>1, RequeueMakes
  <2> HIDE DEF u
  <2>2. Preserves(s, u)
    BY <1>2, <2>1, TheTables
  <2> QED BY <2>2 DEF u
<1>7. Preserves(s, ReconcileOutbox(s))
  <2> DEFINE u == ReconcileOutbox(s)
  <2>1. OnlyRowsOf("outbox", s, u) /\ s.rows["outbox"] \subseteq u.rows["outbox"]
    BY <1>1, ReconcileMakes
  <2> HIDE DEF u
  <2>2. \A r \in s.rows["outbox"] : \E q \in u.rows["outbox"] : q.key = r.key
    BY <2>1
  <2>3. Preserves(s, u)
    BY <1>2, <2>1, <2>2, TheTables
  <2> QED BY <2>3 DEF u
<1> QED BY <1>3, <1>4, <1>5, <1>6, <1>7

\* What a step writes to the file an opening works on.
LEMMA OpenedPreserves ==
  ASSUME IInv, process.at \in Opening, NEW u, Change(u), Preserves(Opened, u)
  PROVE  Preserves(real, real')
<1>1. Preserves(real, real)
  BY WritesPreserve DEF IInv
<1>2. CASE process.file = "probe"
  BY <1>1, <1>2 DEF Change
<1>3. CASE process.file # "probe"
  BY <1>3 DEF Change, Opened
<1> QED BY <1>2, <1>3

\* Opening a store loses nothing: a row it does not serve is set aside as it
\* was, or was the cursor of a deployment whose terminal is reported
\* (quarantine_undecodable).
THEOREM NothingLost == Spec => OpeningLosesNothing
<1>1. IInv /\ [Next]_vars => LosesNothing
  <2>1. SUFFICES ASSUME IInv, [Next]_vars, process.at \in Opening
                 PROVE  Preserves(real, real')
    BY DEF LosesNothing, Preserves
  <2>2. Sound(Opened) /\ Typed(Opened)
    BY <2>1, OpenedParts
  <2>3. CASE real' = real
    BY <2>1, <2>3, WritesPreserve DEF IInv
  <2>4. CASE SetOneAside
    <3> DEFINE t == First(Unread(Opened))
    <3>1. t \in Tables
      <4>1. Unread(Opened) \in SUBSET Tables /\ Unread(Opened) # {}
        BY <2>4 DEF SetOneAside, Unread
      <4> QED BY <4>1, FirstIsOne
    <3>2. PICK r \in Undecodable(Opened, t) : Change(SetAside(Opened, t, r))
      BY <2>4 DEF SetOneAside
    <3> HIDE DEF t
    <3>3. r \in Opened.rows[t]
      BY <3>2 DEF Undecodable
    <3>4. Preserves(Opened, SetAside(Opened, t, r))
      BY <2>2, <3>1, <3>3, SetAsidePreserves
    <3> QED BY <2>1, <3>2, <3>4, OpenedPreserves
  <2>5. CASE Configured
    <3>1. real' = real \/ Change(EnsureConfiguration(Opened))
      BY <2>5 DEF Configured, Refuse
    <3> QED BY <2>1, <2>2, <2>3, <3>1, WritesPreserve, OpenedPreserves
  <2>6. CASE Allocated
    BY <2>1, <2>2, <2>6, WritesPreserve, OpenedPreserves DEF Allocated
  <2>7. CASE Requeued
    BY <2>1, <2>2, <2>7, WritesPreserve, OpenedPreserves DEF Requeued
  <2>8. CASE Redelivered
    <3> DEFINE k == Earliest(Unacknowledged(Opened))
    <3>1. \/ real' = real
          \/ Obstacle(Opened, k) = "none" /\ Change(Deliver(Opened, k))
      BY <2>8 DEF Redelivered, Refuse
    <3>2. PICK i \in Opened.rows["intent"] : i.key = k /\ i.value.state # "Acknowledged"
      BY <2>2, <2>8, NextDelivered DEF Redelivered
    <3> HIDE DEF k
    <3>3. Obstacle(Opened, k) = "none" => Preserves(Opened, Deliver(Opened, k))
      BY <2>2, <3>2, DeliverPreserves
    <3> QED BY <2>1, <2>3, <3>1, <3>3, OpenedPreserves
  <2>9. CASE StoreOpened
    <3>1. real' = ReconcileOutbox(real) /\ Sound(real)
      BY <2>1, <2>9 DEF StoreOpened, IInv
    <3> QED BY <3>1, WritesPreserve
  <2>10. CASE OtherSchema \/ AllRead \/ AllDelivered \/ ProbeOpened \/ ProbeNotRemoved \/ Crash
    BY <2>3, <2>10 DEF OtherSchema, AllRead, AllDelivered, ProbeOpened, ProbeNotRemoved, Crash,
       Refuse
  <2>11. CASE UNCHANGED vars
    BY <2>3, <2>11 DEF vars
  <2>12. /\ ~Create /\ ~Copy /\ ~CopyFails /\ ~NameTaken /\ ~RemoveSidecars /\ ~Migrate /\ ~Stop
         /\ ~Submit /\ ~OrdinaryConfigure /\ ~MetaConfigure /\ ~MetaReverse
         /\ \A pid \in Pids : ~Start(pid) /\ ~ResetStore(pid)
         /\ \A k \in Keys(real, "intent") : ~Advance(k)
         /\ \A d \in 1 .. MaxIdentifier : ~Activate(d) /\ ~Conclude(d)
         /\ \A schema \in Schemas : ~Upgrade(schema)
    <3>1. process.at \notin {"stopped", "sidecars", "open", "serving", "refused"}
      BY <2>1 DEF Opening
    <3>2. /\ ~Create /\ ~Copy /\ ~CopyFails /\ ~NameTaken /\ ~RemoveSidecars /\ ~Migrate /\ ~Stop
          /\ \A pid \in Pids : ~Start(pid) /\ ~ResetStore(pid)
          /\ \A schema \in Schemas : ~Upgrade(schema)
      BY <3>1 DEF Create, Copy, CopyFails, NameTaken, RemoveSidecars, Migrate, Stop, Start,
                  ResetStore, Upgrade
    <3>3. /\ ~Submit /\ ~OrdinaryConfigure /\ ~MetaConfigure /\ ~MetaReverse
          /\ \A k \in Keys(real, "intent") : ~Advance(k)
          /\ \A d \in 1 .. MaxIdentifier : ~Activate(d) /\ ~Conclude(d)
      BY <3>1 DEF Submit, OrdinaryConfigure, MetaConfigure, MetaReverse, Advance, Activate,
                  Conclude, Serve
    <3> QED BY <3>2, <3>3
  <2> QED BY <2>1, <2>4, <2>5, <2>6, <2>7, <2>8, <2>9, <2>10, <2>11, <2>12 DEF Next
<1> QED BY Invariant, <1>1, PTL DEF Spec, OpeningLosesNothing
============================================================================
