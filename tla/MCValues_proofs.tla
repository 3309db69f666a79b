-------------------------- MODULE MCValues_proofs ---------------------------
(***************************************************************************)
(* Proofs about the value types and the conversions: StatusOr, optional    *)
(* and IamBindings, for any number of variables, errors, roles and         *)
(* members; RFC 3339 timestamps, for the texts and the time points of any  *)
(* year; big-endian integers, for types of any size.                       *)
(***************************************************************************)
EXTENDS MCValues, Sequences, WellFoundedInduction, TLAPS

-----------------------------------------------------------------------------
(* Induction over the natural numbers, on sets                             *)

\* A set of natural numbers has a least element.
LEMMA LeastNumber ==
    ASSUME NEW S, S \subseteq Nat, S # {}
    PROVE  \E x \in S : \A y \in S : ~(y < x)
<1>1. PICK x \in S : \A y \in S : ~(<<y, x>> \in OpToRel(<, Nat))
      BY Zenon, WFMin, NatLessThanWellFounded
<1>2. \A y \in S : <<y, x>> \in OpToRel(<, Nat) <=> y < x
      BY SMT DEF OpToRel
<1> QED BY Zenon, <1>1, <1>2

\* A set that holds 0 and with each number the next one holds all of them.
LEMMA SetInduction ==
    ASSUME NEW S, 0 \in S, \A n \in Nat : n \in S => n + 1 \in S
    PROVE  \A n \in Nat : n \in S
<1> SUFFICES ASSUME Nat \ S # {} PROVE FALSE
    BY Zenon
<1>1. PICK x \in Nat \ S : \A y \in Nat \ S : ~(y < x)
      BY Zenon, LeastNumber
<1>2. x - 1 \in Nat /\ x - 1 < x
      BY SMT, <1>1
<1>3. x - 1 \in S
      BY Zenon, <1>1, <1>2
<1> QED BY SMT, <1>1, <1>2, <1>3

-----------------------------------------------------------------------------
(* StatusOr                                                                *)

\* Every special member function of StatusOr<T> keeps the union and the status
\* in agreement.
LEMMA StatusOrStep ==
    SO!TypeOK /\ SO!ValueIffOk /\ [SO!Next]_(SO!vars) => SO!TypeOK' /\ SO!ValueIffOk'
<1> SUFFICES ASSUME SO!TypeOK, SO!ValueIffOk, [SO!Next]_(SO!vars) PROVE SO!TypeOK' /\ SO!ValueIffOk'
    OBVIOUS
<1> USE DEF SO!TypeOK, SO!ValueIffOk, SO!ok, SO!exists, SO!Construct, SO!Use, SO!Destroy, SO!SetStatus, SO!vars
<1>1. CASE UNCHANGED SO!vars
      BY <1>1
<1>2. ASSUME NEW o \in Obj, NEW c \in Error \cup {"kOk"}, SO!ConstructStatus(o, c)
      PROVE  SO!TypeOK' /\ SO!ValueIffOk'
      BY <1>2 DEF SO!ConstructStatus
<1>3. ASSUME NEW o \in Obj, NEW c \in Error \cup {"kOk"}, SO!AssignStatus(o, c)
      PROVE  SO!TypeOK' /\ SO!ValueIffOk'
      BY <1>3 DEF SO!AssignStatus
<1>4. ASSUME NEW o \in Obj, SO!ConstructValue(o) PROVE SO!TypeOK' /\ SO!ValueIffOk'
      BY <1>4 DEF SO!ConstructValue
<1>5. ASSUME NEW o \in Obj, SO!Destructor(o) PROVE SO!TypeOK' /\ SO!ValueIffOk'
      BY <1>5 DEF SO!Destructor
<1>6. ASSUME NEW o \in Obj, SO!Value(o) PROVE SO!TypeOK' /\ SO!ValueIffOk'
      BY <1>6 DEF SO!Value
<1>7. ASSUME NEW o \in Obj, NEW rhs \in Obj, SO!ConstructFrom(o, rhs)
      PROVE  SO!TypeOK' /\ SO!ValueIffOk'
      BY <1>7 DEF SO!ConstructFrom
<1>8. ASSUME NEW o \in Obj, NEW rhs \in Obj, NEW throws \in BOOLEAN, SO!Assign(o, rhs, throws)
      PROVE  SO!TypeOK' /\ SO!ValueIffOk'
      BY <1>8 DEF SO!Assign
<1>9. ASSUME NEW o \in Obj, NEW throws \in BOOLEAN, SO!AssignValue(o, throws)
      PROVE  SO!TypeOK' /\ SO!ValueIffOk'
      BY <1>9 DEF SO!AssignValue
<1> QED BY <1>1, <1>2, <1>3, <1>4, <1>5, <1>6, <1>7, <1>8, <1>9 DEF SO!Next

\* After any sequence of calls on any number of StatusOr<T> variables, with
\* exceptions, the union holds a live T if and only if ok().
THEOREM StatusOrAgrees == Spec => []StatusOrValueIffOk
<1>1. Init => SO!TypeOK /\ SO!ValueIffOk
      BY DEF Init, SO!Init, SO!TypeOK, SO!ValueIffOk, SO!ok
<1>2. [Next]_vars => [SO!Next]_(SO!vars)
      BY DEF Next, vars, status_or, SO!vars
<1>3. SO!TypeOK /\ SO!ValueIffOk /\ [Next]_vars => SO!TypeOK' /\ SO!ValueIffOk'
      BY <1>2, StatusOrStep
<1> QED BY <1>1, <1>3, PTL DEF Spec, StatusOrValueIffOk
-----------------------------------------------------------------------------
(* optional                                                                *)

\* Every member function of optional<T> keeps the storage and has_value_ in
\* agreement.
LEMMA OptionalStep ==
    OP!TypeOK /\ OP!ValueIffHasValue /\ [OP!Next]_(OP!vars) => OP!TypeOK' /\ OP!ValueIffHasValue'
<1> SUFFICES ASSUME OP!TypeOK, OP!ValueIffHasValue, [OP!Next]_(OP!vars)
             PROVE  OP!TypeOK' /\ OP!ValueIffHasValue'
    OBVIOUS
<1> USE DEF OP!TypeOK, OP!ValueIffHasValue, OP!Construct, OP!Use, OP!Destroy, OP!Reset, OP!vars
<1>1. CASE UNCHANGED OP!vars
      BY <1>1
<1>2. ASSUME NEW o \in Obj, OP!ConstructEmpty(o) PROVE OP!TypeOK' /\ OP!ValueIffHasValue'
      BY <1>2 DEF OP!ConstructEmpty
<1>3. ASSUME NEW o \in Obj, OP!ConstructValue(o) PROVE OP!TypeOK' /\ OP!ValueIffHasValue'
      BY <1>3 DEF OP!ConstructValue
<1>4. ASSUME NEW o \in Obj, OP!reset(o) PROVE OP!TypeOK' /\ OP!ValueIffHasValue'
      BY <1>4 DEF OP!reset
<1>5. ASSUME NEW o \in Obj, OP!Destructor(o) PROVE OP!TypeOK' /\ OP!ValueIffHasValue'
      BY <1>5 DEF OP!Destructor
<1>6. ASSUME NEW o \in Obj, OP!Value(o) PROVE OP!TypeOK' /\ OP!ValueIffHasValue'
      BY <1>6 DEF OP!Value
<1>7. ASSUME NEW o \in Obj, NEW rhs \in Obj, OP!ConstructFrom(o, rhs)
      PROVE  OP!TypeOK' /\ OP!ValueIffHasValue'
      BY <1>7 DEF OP!ConstructFrom
<1>8. ASSUME NEW o \in Obj, NEW rhs \in Obj, NEW throws \in BOOLEAN, OP!Assign(o, rhs, throws)
      PROVE  OP!TypeOK' /\ OP!ValueIffHasValue'
      BY <1>8 DEF OP!Assign
<1>9. ASSUME NEW o \in Obj, NEW throws \in BOOLEAN, OP!AssignValue(o, throws)
      PROVE  OP!TypeOK' /\ OP!ValueIffHasValue'
      BY <1>9 DEF OP!AssignValue
<1>10. ASSUME NEW o \in Obj, NEW throws \in BOOLEAN, OP!emplace(o, throws)
      PROVE  OP!TypeOK' /\ OP!ValueIffHasValue'
      BY <1>10 DEF OP!emplace
<1> QED BY <1>1, <1>2, <1>3, <1>4, <1>5, <1>6, <1>7, <1>8, <1>9, <1>10 DEF OP!Next

\* After any sequence of calls on any number of optional<T> variables, with
\* exceptions, the storage holds a live T if and only if has_value().
THEOREM OptionalAgrees == Spec => []OptionalValueIffHasValue
<1>1. Init => OP!TypeOK /\ OP!ValueIffHasValue
      BY DEF Init, OP!Init, OP!TypeOK, OP!ValueIffHasValue
<1>2. [Next]_vars => [OP!Next]_(OP!vars)
      BY DEF Next, vars, optional, OP!vars
<1>3. OP!TypeOK /\ OP!ValueIffHasValue /\ [Next]_vars => OP!TypeOK' /\ OP!ValueIffHasValue'
      BY <1>2, OptionalStep
<1> QED BY <1>1, <1>3, PTL DEF Spec, OptionalValueIffHasValue

-----------------------------------------------------------------------------
(* IamBindings                                                             *)

\* The map and the history are functions.
Shape ==
    /\ bindings = [r \in DOMAIN bindings |-> bindings[r]]
    /\ granted = [r \in Role |-> granted[r]]

\* AddMembers(), and AddMember() with one member, keep the map exact.
LEMMA AddExact ==
    ASSUME NEW role \in Role, NEW members, Shape, IB!BindingsAreExact, IB!AddMembers(role, members)
    PROVE  Shape' /\ IB!BindingsAreExact'
<1>1. /\ DOMAIN bindings' = DOMAIN bindings \cup {role}
      /\ \A r \in DOMAIN bindings' : bindings'[r] = IF r = role THEN IB!at(bindings, r) \cup members
                                                               ELSE bindings[r]
      /\ bindings' = [r \in DOMAIN bindings' |-> bindings'[r]]
      BY DEF IB!AddMembers, IB!at
<1>2. /\ granted' = [r \in Role |-> granted'[r]]
      /\ \A r \in Role : granted'[r] = IF r = role THEN granted[r] \cup members ELSE granted[r]
      BY DEF IB!AddMembers, Shape
<1>3. ASSUME NEW r \in Role PROVE /\ IB!at(bindings', r) \subseteq granted'[r]
                                  /\ r \notin repeated' => IB!at(bindings', r) = granted'[r]
      BY <1>1, <1>2 DEF IB!BindingsAreExact, IB!at, IB!AddMembers
<1>4. ASSUME NEW r \in DOMAIN bindings', bindings'[r] = {} PROVE r \in blank'
      <2>1. CASE r = role
            BY <1>1, <1>4, <2>1 DEF IB!AddMembers
      <2>2. CASE r # role
            BY <1>1, <1>4, <2>2 DEF IB!BindingsAreExact, IB!AddMembers
      <2> QED BY <2>1, <2>2
<1> QED BY <1>1, <1>2, <1>3, <1>4 DEF Shape, IB!BindingsAreExact, IB!at

\* RemoveMembers(), and RemoveMember() with one member, keep the map exact.
LEMMA RemoveExact ==
    ASSUME NEW role \in Role, NEW members, Shape, IB!BindingsAreExact, IB!RemoveMembers(role, members)
    PROVE  Shape' /\ IB!BindingsAreExact'
<1> DEFINE left == bindings[role] \ members
<1>1. /\ granted' = [r \in Role |-> granted'[r]]
      /\ \A r \in Role : granted'[r] = IF r = role THEN granted[r] \ members ELSE granted[r]
      /\ blank' = blank /\ repeated' = repeated
      BY DEF IB!RemoveMembers, Shape
<1>2. CASE role \notin DOMAIN bindings
      <2>1. bindings' = bindings
            BY <1>2 DEF IB!RemoveMembers
      <2> QED BY <1>1, <1>2, <2>1 DEF Shape, IB!BindingsAreExact, IB!at
<1>3. CASE role \in DOMAIN bindings /\ left = {}
      <2>1. bindings' = [r \in DOMAIN bindings \ {role} |-> bindings[r]]
            BY <1>3 DEF IB!RemoveMembers, IB!Without
      <2> QED BY <1>1, <1>3, <2>1 DEF Shape, IB!BindingsAreExact, IB!at
<1>4. CASE role \in DOMAIN bindings /\ left # {}
      <2>1. bindings' = [bindings EXCEPT ![role] = left]
            BY <1>4 DEF IB!RemoveMembers, IB!Without
      <2>2. /\ DOMAIN bindings' = DOMAIN bindings
            /\ \A r \in DOMAIN bindings : bindings'[r] = IF r = role THEN left ELSE bindings[r]
            /\ bindings' = [r \in DOMAIN bindings' |-> bindings'[r]]
            BY <2>1 DEF Shape
      <2> QED BY <1>1, <1>4, <2>2 DEF Shape, IB!BindingsAreExact, IB!at
<1> QED BY <1>2, <1>3, <1>4

\* The constructor keeps the first binding of each role.
LEMMA ConstructExact == Init => Shape /\ IB!BindingsAreExact
<1> SUFFICES ASSUME Init PROVE Shape /\ IB!BindingsAreExact
    OBVIOUS
<1>1. PICK n \in 0..MaxVector : \E v \in [1..n -> IB!IamBinding] :
          /\ bindings = IB!Construct(v)
          /\ granted = [r \in Role |-> UNION {v[i].members : i \in {k \in 1..n : v[k].role = r}}]
          /\ blank = {r \in Role : \E i \in {k \in 1..n : v[k].role = r} : v[i].members = {}}
          /\ repeated = {r \in Role : \E i, j \in {k \in 1..n : v[k].role = r} : i # j}
      BY Zenon DEF Init, IB!Init
<1>2. PICK v \in [1..n -> IB!IamBinding] :
          /\ bindings = IB!Construct(v)
          /\ granted = [r \in Role |-> UNION {v[i].members : i \in {k \in 1..n : v[k].role = r}}]
          /\ blank = {r \in Role : \E i \in {k \in 1..n : v[k].role = r} : v[i].members = {}}
          /\ repeated = {r \in Role : \E i, j \in {k \in 1..n : v[k].role = r} : i # j}
      BY Zenon, <1>1
<1> DEFINE Of(r) == {k \in 1..n : v[k].role = r}
           IsFirst(i, r) == v[i].role = r /\ \A j \in 1..(i - 1) : v[j].role # r
           First(r) == CHOOSE i \in DOMAIN v : IsFirst(i, r)
<1>3. DOMAIN v = 1..n /\ \A i \in 1..n : v[i].role \in Role
      BY DEF IB!IamBinding
<1>4. bindings = [r \in {v[i].role : i \in DOMAIN v} |-> v[First(r)].members]
      BY Zenon, <1>2 DEF IB!Construct
<1>5. ASSUME NEW r, Of(r) # {} PROVE First(r) \in Of(r)
      <2>1. Of(r) \subseteq Nat
            BY SMT
      <2>2. PICK i \in Of(r) : \A j \in Of(r) : ~(j < i)
            BY Zenon, <1>5, <2>1, LeastNumber
      <2>3. i \in DOMAIN v /\ IsFirst(i, r)
            BY SMT, <1>3, <2>2
      <2>4. First(r) \in DOMAIN v /\ IsFirst(First(r), r)
            BY Zenon, <2>3
      <2> QED BY Zenon, <1>3, <2>4
<1> HIDE DEF First
<1>6. \A r : r \in DOMAIN bindings <=> Of(r) # {}
      BY SMT, <1>3, <1>4
<1>7. \A r \in DOMAIN bindings : bindings[r] = v[First(r)].members /\ First(r) \in Of(r) /\ r \in Role
      BY Zenon, <1>3, <1>4, <1>5, <1>6
<1>8. Shape
      BY Zenon, <1>2, <1>4 DEF Shape
<1>9. ASSUME NEW r \in Role PROVE /\ IB!at(bindings, r) \subseteq granted[r]
                                  /\ r \notin repeated => IB!at(bindings, r) = granted[r]
      <2>1. granted[r] = UNION {v[i].members : i \in Of(r)}
            BY Zenon, <1>2
      <2>2. CASE r \in DOMAIN bindings
            <3>1. IB!at(bindings, r) = v[First(r)].members /\ First(r) \in Of(r)
                  BY Zenon, <1>7, <2>2 DEF IB!at
            <3>2. r \notin repeated => \A i \in Of(r) : i = First(r)
                  BY Zenon, <1>2, <3>1
            <3> HIDE DEF Of
            <3> QED BY SMT, <2>1, <3>1, <3>2
      <2>3. CASE r \notin DOMAIN bindings
            <3>1. IB!at(bindings, r) = {} /\ Of(r) = {}
                  BY Zenon, <1>6, <2>3 DEF IB!at
            <3> HIDE DEF Of
            <3> QED BY SMT, <2>1, <3>1
      <2> QED BY Zenon, <2>2, <2>3
<1>10. ASSUME NEW r \in DOMAIN bindings, bindings[r] = {} PROVE r \in blank
      <2>1. r \in Role /\ \E i \in Of(r) : v[i].members = {}
            BY Zenon, <1>7, <1>10
      <2>2. blank = {q \in Role : \E i \in Of(q) : v[i].members = {}}
            BY Zenon, <1>2
      <2> HIDE DEF Of
      <2> QED BY SMT, <2>1, <2>2
<1> HIDE DEF Of, IsFirst
<1> QED BY <1>8, <1>9, <1>10 DEF IB!BindingsAreExact, IB!at

\* After any sequence of AddMember(s) and RemoveMember(s), from any vector given
\* to the constructor, the map holds exactly the members that were given and not
\* removed since, for the roles that the vector does not name twice, and no role
\* that lost its last one.
THEOREM ExactBindings == Spec => []BindingsAreExact
<1>1. Init => Shape /\ IB!BindingsAreExact
      BY ConstructExact
<1>2. [Next]_vars => IB!Next \/ UNCHANGED IB!vars
      BY DEF Next, vars, iam, IB!vars
<1>3. Shape /\ IB!BindingsAreExact /\ [Next]_vars => Shape' /\ IB!BindingsAreExact'
      <2> SUFFICES ASSUME Shape, IB!BindingsAreExact, [Next]_vars PROVE Shape' /\ IB!BindingsAreExact'
          OBVIOUS
      <2>1. CASE UNCHANGED IB!vars
            BY <2>1 DEF IB!vars, Shape, IB!BindingsAreExact, IB!at
      <2>2. CASE IB!Next
            BY <2>2, AddExact, RemoveExact DEF IB!Next, IB!AddMember, IB!RemoveMember
      <2> QED BY <1>2, <2>1, <2>2
<1> QED BY <1>1, <1>3, PTL DEF Spec, BindingsAreExact
-----------------------------------------------------------------------------
(* The calendar of mktime() and gmtime_r()                                 *)

\* The last day before the year after q.
DaysUpTo(q) == 365 * q + q \div 4 - q \div 100 + q \div 400 - 719162

\* The first day of a month; month 13 is January of the next year.
First(year, month) == IF month = 13 THEN TP!DayOf(year + 1, 1, 1) ELSE TP!DayOf(year, month, 1)

\* The days of the year before a month, in a year that is not a leap year.
DaysBefore == <<0, 31, 59, 90, 120, 151, 181, 212, 243, 273, 304, 334, 365>>

\* The leap day, if there is one before a month.
LeapDays(year, month) == IF month > 2 /\ TP!IsLeapYear(year) THEN 1 ELSE 0

\* The number of days of a month.
DaysInMonth(year, month) == TP!kMaxDaysInMonth[month] - IF month = 2 /\ ~TP!IsLeapYear(year) THEN 1 ELSE 0

\* A day of a month that ParseDateTime() accepts.
ValidDay(year, month, day) ==
    /\ month \in 1..12
    /\ day \in 1..TP!kMaxDaysInMonth[month]
    /\ ~(month = 2 /\ day > TP!kMaxDaysInMonth[2] - 1 /\ ~TP!IsLeapYear(year))

\* The years follow each other, and a leap year has a day more.
LEMMA YearLength ==
    ASSUME NEW y \in Int
    PROVE  DaysUpTo(y) \in Int /\ LeapDays(y, 13) \in Int /\ DaysUpTo(y) = DaysUpTo(y - 1) + 365 + LeapDays(y, 13)
BY SMT DEF DaysUpTo, LeapDays, TP!IsLeapYear

\* A later year does not start earlier.
LEMMA YearsInOrder == ASSUME NEW a \in Int, NEW b \in Int, a <= b PROVE DaysUpTo(a) <= DaysUpTo(b)
BY SMT DEF DaysUpTo

\* The guess of the year is wrong by one at most.
LEMMA GuessBracket ==
    ASSUME NEW x \in Int, NEW guess \in Int, guess = 1970 + (400 * x) \div 146097
    PROVE  DaysUpTo(guess - 2) <= x /\ x < DaysUpTo(guess + 1)
BY SMT DEF DaysUpTo

\* The day on which a date falls.
LEMMA DayOfDate ==
    ASSUME NEW y \in Int, NEW m \in 1..12, NEW d \in Int
    PROVE  TP!DayOf(y, m, d) = DaysUpTo(y - 1) + DaysBefore[m] + LeapDays(y, m) + d - 1
<1>1. CASE m <= 2
      <2>1. TP!DayOf(y, m, d) = DaysUpTo(y - 1) + (153 * (m + 9) + 2) \div 5 - 306 + d - 1
            BY SMT, <1>1 DEF TP!DayOf, DaysUpTo
      <2>2. (153 * (m + 9) + 2) \div 5 - 306 = DaysBefore[m] /\ DaysBefore[m] \in Int
            BY SMT, <1>1 DEF DaysBefore
      <2>3. LeapDays(y, m) = 0 /\ DaysUpTo(y - 1) \in Int
            BY SMT, <1>1, YearLength DEF LeapDays
      <2> QED BY SMT, <2>1, <2>2, <2>3
<1>2. CASE m > 2
      <2>1. TP!DayOf(y, m, d) = DaysUpTo(y) + (153 * (m - 3) + 2) \div 5 - 306 + d - 1
            BY SMT, <1>2 DEF TP!DayOf, DaysUpTo
      <2>2. (153 * (m - 3) + 2) \div 5 = DaysBefore[m] - 59 /\ DaysBefore[m] \in Int
            <3>1. m \in {3, 4, 5, 6, 7, 8, 9, 10, 11, 12}
                  BY SMT, <1>2
            <3> QED BY SMT, <3>1 DEF DaysBefore
      <2>3. LeapDays(y, m) = LeapDays(y, 13)
            BY SMT, <1>2 DEF LeapDays
      <2>4. /\ DaysUpTo(y) = DaysUpTo(y - 1) + 365 + LeapDays(y, 13)
            /\ DaysUpTo(y - 1) \in Int /\ LeapDays(y, 13) \in Int
            BY SMT, YearLength
      <2> QED BY SMT, <2>1, <2>2, <2>3, <2>4
<1> QED BY SMT, <1>1, <1>2

\* The first day of a year.
LEMMA NewYear == ASSUME NEW y \in Int PROVE First(y, 1) = DaysUpTo(y - 1) /\ First(y, 13) = DaysUpTo(y)
<1>1. TP!DayOf(y, 1, 1) = DaysUpTo(y - 1) /\ TP!DayOf(y + 1, 1, 1) = DaysUpTo(y)
      BY SMT DEF TP!DayOf, DaysUpTo
<1> QED BY SMT, <1>1 DEF First

\* The first day of each month, of the next January too.
LEMMA FirstDay ==
    ASSUME NEW y \in Int, NEW m \in 1..13
    PROVE  First(y, m) \in Int /\ First(y, m) = DaysUpTo(y - 1) + DaysBefore[m] + LeapDays(y, m)
<1>1. DaysUpTo(y - 1) \in Int /\ DaysUpTo(y) = DaysUpTo(y - 1) + 365 + LeapDays(y, 13)
      BY SMT, YearLength
<1>2. DaysBefore[m] \in Int /\ LeapDays(y, m) \in Int
      BY SMT DEF DaysBefore, LeapDays
<1>3. CASE m = 13
      <2>1. DaysBefore[13] = 365
            BY SMT DEF DaysBefore
      <2>2. First(y, 13) = DaysUpTo(y)
            BY SMT, NewYear
      <2> QED BY SMT, <1>1, <1>2, <1>3, <2>1, <2>2
<1>4. CASE m # 13
      <2>1. m \in 1..12
            BY SMT, <1>4
      <2>2. First(y, m) = TP!DayOf(y, m, 1)
            BY SMT, <1>4 DEF First
      <2>3. TP!DayOf(y, m, 1) = DaysUpTo(y - 1) + DaysBefore[m] + LeapDays(y, m) + 1 - 1
            BY SMT, <2>1, DayOfDate
      <2> QED BY SMT, <1>1, <1>2, <2>2, <2>3
<1> QED BY SMT, <1>3, <1>4

\* Months have the days that kMaxDaysInMonth says, with the exception of February
\* in a year that is not a leap year.
LEMMA MonthLength ==
    ASSUME NEW y \in Int, NEW m \in 1..12
    PROVE  /\ First(y, m) \in Int /\ First(y, m + 1) \in Int /\ First(y, m) < First(y, m + 1)
           /\ DaysInMonth(y, m) \in Int
           /\ First(y, m + 1) = First(y, m) + DaysInMonth(y, m)
<1>1. m \in 1..13 /\ m + 1 \in 1..13
      BY SMT
<1>2. First(y, m) = DaysUpTo(y - 1) + DaysBefore[m] + LeapDays(y, m) /\ First(y, m) \in Int
      BY Zenon, <1>1, FirstDay
<1>3. First(y, m + 1) = DaysUpTo(y - 1) + DaysBefore[m + 1] + LeapDays(y, m + 1) /\ First(y, m + 1) \in Int
      BY Zenon, <1>1, FirstDay
<1>4. DaysUpTo(y - 1) \in Int
      BY SMT, YearLength
<1>5. TP!kMaxDaysInMonth[m] \in 28..31 /\ DaysBefore[m] \in Int /\ DaysBefore[m + 1] \in Int
      BY SMT DEF TP!kMaxDaysInMonth, DaysBefore
<1>6. CASE m = 2
      <2>1. DaysBefore[m + 1] = DaysBefore[m] + 28 /\ TP!kMaxDaysInMonth[m] = 29
            BY SMT, <1>6 DEF TP!kMaxDaysInMonth, DaysBefore
      <2>2. DaysInMonth(y, m) = 28 + LeapDays(y, m + 1) /\ LeapDays(y, m) = 0 /\ LeapDays(y, m + 1) \in 0..1
            BY SMT, <1>6, <2>1 DEF DaysInMonth, LeapDays
      <2> QED BY SMT, <1>2, <1>3, <1>4, <1>5, <2>1, <2>2
<1>7. CASE m # 2
      <2>1. DaysBefore[m + 1] = DaysBefore[m] + TP!kMaxDaysInMonth[m]
            BY SMT, <1>7 DEF TP!kMaxDaysInMonth, DaysBefore
      <2>2. DaysInMonth(y, m) = TP!kMaxDaysInMonth[m] /\ LeapDays(y, m) = LeapDays(y, m + 1)
            /\ LeapDays(y, m) \in Int
            BY SMT, <1>5, <1>7 DEF DaysInMonth, LeapDays
      <2> QED BY SMT, <1>2, <1>3, <1>4, <1>5, <2>1, <2>2
<1> QED BY SMT, <1>6, <1>7

\* The months of a year follow each other.
LEMMA MonthsInOrder ==
    ASSUME NEW y \in Int, NEW a \in 1..13, NEW b \in 1..13, a < b
    PROVE  First(y, a) < First(y, b)
<1>1. \A m \in 1..13 : First(y, m) \in Int
      BY Zenon, FirstDay
<1>2. \A m \in 1..12 : First(y, m) < First(y, m + 1)
      BY Zenon, MonthLength
<1>3. /\ First(y, 1) < First(y, 2) /\ First(y, 2) < First(y, 3) /\ First(y, 3) < First(y, 4)
      /\ First(y, 4) < First(y, 5) /\ First(y, 5) < First(y, 6) /\ First(y, 6) < First(y, 7)
      /\ First(y, 7) < First(y, 8) /\ First(y, 8) < First(y, 9) /\ First(y, 9) < First(y, 10)
      /\ First(y, 10) < First(y, 11) /\ First(y, 11) < First(y, 12) /\ First(y, 12) < First(y, 13)
      BY SMT, <1>2
<1> QED BY SMT, <1>1, <1>3

\* Every day of a year is in some month.
LEMMA DayHasMonth ==
    ASSUME NEW x \in Int, NEW y \in Int, First(y, 1) <= x, x < First(y, 13)
    PROVE  \E m \in 1..12 : First(y, m) <= x /\ x < First(y, m + 1)
<1>1. \A m \in 1..13 : First(y, m) \in Int
      BY Zenon, FirstDay
<1> SUFFICES ASSUME \A m \in 1..12 : ~(First(y, m) <= x /\ x < First(y, m + 1)) PROVE FALSE
    BY SMT
<1>2. \A m \in 1..12 : First(y, m) <= x => First(y, m + 1) <= x
      BY SMT, <1>1
<1>3. /\ First(y, 2) <= x /\ First(y, 3) <= x /\ First(y, 4) <= x /\ First(y, 5) <= x
      /\ First(y, 6) <= x /\ First(y, 7) <= x /\ First(y, 8) <= x /\ First(y, 9) <= x
      /\ First(y, 10) <= x /\ First(y, 11) <= x /\ First(y, 12) <= x /\ First(y, 13) <= x
      BY SMT, <1>2
<1> QED BY SMT, <1>1, <1>3

\* Every day is in some month of some year that DateOf() considers.
LEMMA DayHasDate ==
    ASSUME NEW x \in Int, NEW guess \in Int, guess = 1970 + (400 * x) \div 146097
    PROVE  \E y \in (guess - 1)..(guess + 1) :
              /\ First(y, 1) <= x /\ x < First(y, 13)
              /\ \E m \in 1..12 : First(y, m) <= x /\ x < First(y, m + 1)
<1>1. DaysUpTo(guess - 2) <= x /\ x < DaysUpTo(guess + 1)
      BY SMT, GuessBracket
<1>2. DaysUpTo(guess - 1) \in Int /\ DaysUpTo(guess) \in Int
      BY SMT, YearLength
<1>3. PICK y \in (guess - 1)..(guess + 1) : DaysUpTo(y - 1) <= x /\ x < DaysUpTo(y)
      <2>1. CASE x < DaysUpTo(guess - 1)
            BY SMT, <1>1, <2>1
      <2>2. CASE ~(x < DaysUpTo(guess - 1)) /\ x < DaysUpTo(guess)
            BY SMT, <1>2, <2>2
      <2>3. CASE ~(x < DaysUpTo(guess))
            BY SMT, <1>1, <1>2, <2>3
      <2> QED BY SMT, <2>1, <2>2, <2>3
<1>4. First(y, 1) <= x /\ x < First(y, 13)
      BY SMT, <1>3, NewYear
<1>5. y \in Int
      BY SMT
<1>6. \E m \in 1..12 : First(y, m) <= x /\ x < First(y, m + 1)
      BY SMT, <1>4, <1>5, DayHasMonth
<1> QED BY SMT, <1>4, <1>6

\* DateOf() finds the year and the month that a day is in.
LEMMA DateOfDay ==
    ASSUME NEW x \in Int, NEW y \in Int, NEW m \in 1..12, First(y, m) <= x, x < First(y, m + 1)
    PROVE  TP!DateOf(x) = [year |-> y, month |-> m, day |-> x - First(y, m) + 1]
<1> DEFINE guess == 1970 + (400 * x) \div 146097
           IsYear(z) == First(z, 1) <= x /\ x < First(z, 13)
           IsMonth(z, n) == First(z, n) <= x /\ x < First(z, n + 1)
           year == CHOOSE z \in (guess - 1)..(guess + 1) :
                       TP!DayOf(z, 1, 1) <= x /\ x < TP!DayOf(z + 1, 1, 1)
           month == CHOOSE n \in 1..12 : First(year, n) <= x /\ x < First(year, n + 1)
<1>1. guess \in Int
      BY SMT
<1>2. TP!DateOf(x) = [year |-> year, month |-> month, day |-> x - First(year, month) + 1]
      BY SMT DEF TP!DateOf, First
<1>3. year \in (guess - 1)..(guess + 1) /\ IsYear(year)
      <2>1. \E z \in (guess - 1)..(guess + 1) : IsYear(z)
            BY SMT, <1>1, DayHasDate
      <2>2. \A z : IsYear(z) <=> TP!DayOf(z, 1, 1) <= x /\ x < TP!DayOf(z + 1, 1, 1)
            BY SMT DEF First
      <2> HIDE DEF IsYear
      <2> QED BY SMT, <2>1, <2>2
<1>4. IsYear(y)
      <2>0. m \in 1..13 /\ m + 1 \in 1..13 /\ 1 \in 1..13 /\ 13 \in 1..13
            BY SMT
      <2>1. First(y, 1) \in Int /\ First(y, 13) \in Int /\ First(y, m) \in Int /\ First(y, m + 1) \in Int
            BY Zenon, <2>0, FirstDay
      <2>2. m = 1 \/ First(y, 1) < First(y, m)
            BY SMT, <2>0, MonthsInOrder
      <2>3. m + 1 = 13 \/ First(y, m + 1) < First(y, 13)
            BY SMT, <2>0, MonthsInOrder
      <2> QED BY SMT, <2>1, <2>2, <2>3
<1>5. ASSUME NEW a \in Int, NEW b \in Int, IsYear(a), IsYear(b), a < b PROVE FALSE
      <2>1. First(a, 13) = DaysUpTo(a) /\ First(b, 1) = DaysUpTo(b - 1)
            BY SMT, NewYear
      <2>2. DaysUpTo(a) <= DaysUpTo(b - 1)
            BY SMT, <1>5, YearsInOrder
      <2>3. DaysUpTo(a) \in Int /\ DaysUpTo(b - 1) \in Int
            BY SMT, YearLength
      <2> QED BY SMT, <1>5, <2>1, <2>2, <2>3
<1>6. year = y
      <2>1. year \in Int
            BY SMT, <1>1, <1>3
      <2> HIDE DEF year, IsYear
      <2> QED BY SMT, <1>3, <1>4, <1>5, <2>1
<1>7. month = m
      <2>1. IsMonth(y, m)
            BY SMT
      <2>2. month \in 1..12 /\ IsMonth(y, month)
            <3>1. \E n \in 1..12 : IsMonth(year, n)
                  <4> HIDE DEF IsMonth, year
                  <4> QED BY Zenon, <1>6, <2>1
            <3> HIDE DEF year
            <3> QED BY SMT, <1>6, <3>1
      <2>3. ASSUME NEW a \in 1..12, NEW b \in 1..12, IsMonth(y, a), IsMonth(y, b), a < b PROVE FALSE
            <3>0. a + 1 \in 1..13 /\ b \in 1..13 /\ (a + 1 = b \/ a + 1 < b)
                  BY SMT, <2>3
            <3>1. a + 1 = b \/ First(y, a + 1) < First(y, b)
                  BY SMT, <3>0, MonthsInOrder
            <3>2. First(y, a + 1) \in Int /\ First(y, b) \in Int
                  BY Zenon, <3>0, FirstDay
            <3> QED BY SMT, <2>3, <3>1, <3>2
      <2> HIDE DEF month, IsMonth
      <2> QED BY SMT, <2>1, <2>2, <2>3
<1> HIDE DEF year, month
<1> QED BY SMT, <1>2, <1>6, <1>7

\* In every year, the days of a month that ParseDateTime() accepts are those that
\* exist in the calendar, so that mktime() does not move them to another day.
THEOREM CalendarDates ==
    ASSUME NEW y \in Int, NEW m \in 1..12, NEW d \in Int
    PROVE  TP!DateOf(TP!DayOf(y, m, d)) = [year |-> y, month |-> m, day |-> d] <=> ValidDay(y, m, d)
<1> DEFINE x == TP!DayOf(y, m, d)
<1>1. x \in Int /\ First(y, m) \in Int /\ x = First(y, m) + d - 1
      <2>1. TP!DayOf(y, m, d) = TP!DayOf(y, m, 1) + d - 1
            BY SMT DEF TP!DayOf
      <2>2. First(y, m) = TP!DayOf(y, m, 1)
            BY SMT DEF First
      <2>3. First(y, m) \in Int
            BY Zenon, MonthLength
      <2> QED BY SMT, <2>1, <2>2, <2>3
<1>2. ValidDay(y, m, d) <=> First(y, m) <= x /\ x < First(y, m + 1)
      <2>1. ValidDay(y, m, d) <=> 1 <= d /\ d <= DaysInMonth(y, m)
            BY SMT DEF ValidDay, DaysInMonth, TP!kMaxDaysInMonth
      <2>2. First(y, m + 1) = First(y, m) + DaysInMonth(y, m) /\ DaysInMonth(y, m) \in Int
            BY Zenon, MonthLength
      <2> HIDE DEF x
      <2> QED BY SMT, <1>1, <2>1, <2>2
<1> HIDE DEF x
<1>3. ASSUME First(y, m) <= x, x < First(y, m + 1)
      PROVE  TP!DateOf(x) = [year |-> y, month |-> m, day |-> d]
      <2>1. x - First(y, m) + 1 = d
            BY SMT, <1>1
      <2> QED BY SMT, <1>1, <1>3, <2>1, DateOfDay
<1>4. ASSUME TP!DateOf(x) = [year |-> y, month |-> m, day |-> d]
      PROVE  First(y, m) <= x /\ x < First(y, m + 1)
      <2>1. PICK z \in Int, n \in 1..12 : First(z, n) <= x /\ x < First(z, n + 1)
            BY SMT, <1>1, DayHasDate
      <2>2. TP!DateOf(x) = [year |-> z, month |-> n, day |-> x - First(z, n) + 1]
            BY SMT, <1>1, <2>1, DateOfDay
      <2>3. z = y /\ n = m
            BY SMT, <1>4, <2>2
      <2> QED BY SMT, <2>1, <2>3
<1> QED BY SMT, <1>2, <1>3, <1>4 DEF x

-----------------------------------------------------------------------------
(* ParseRfc3339()                                                          *)

\* The texts that the parser may meet, with any numbers in their fields; a blank
\* stands for every character that the parser does not know in its place.
Fraction == {NoFraction} \cup [point : {TRUE}, pos : Nat, value : Int]
ZoneOffset == {Z} \cup [sign : Signs, scanned : BOOLEAN, hours : Int, minutes : Int]
AnyText == [scanned : BOOLEAN, year : Int, month : Int, day : Int, separator : Separators,
            hours : Int, minutes : Int, seconds : Int,
            fraction : Fraction, offset : ZoneOffset, more : BOOLEAN]

\* The text with a date that exists.
OtherDate(t) == [t EXCEPT !.year = 2000, !.month = 1, !.day = 1]

\* A fraction is a number of nanoseconds.
LEMMA FractionNumber ==
    ASSUME NEW f \in [point : {TRUE}, pos : Nat, value : Int]
    PROVE  TP!FractionNanos(f) \in Int
<1> DEFINE e == IF f.pos < 9 THEN 9 - f.pos ELSE 0
<1>1. f.point
      OBVIOUS
<1>2. f.pos \in Nat
      OBVIOUS
<1>3. f.value \in Int
      OBVIOUS
<1>4. e \in 0..9
      BY SMT, <1>2
<1> HIDE DEF e
<1>5. 10^e \in Int
      BY SMT, <1>4
<1>6. f.value * 10^e \in Int
      BY SMT, <1>3, <1>5
<1> QED BY Zenon, <1>1, <1>6 DEF TP!FractionNanos, e

\* The fraction and the offset of a text are numbers.
LEMMA TextNumbers ==
    ASSUME NEW t \in AnyText
    PROVE  TP!FractionNanos(t.fraction) \in Int /\ TP!OffsetSeconds(t.offset) \in Int
<1>1. t.fraction \in Fraction /\ t.offset \in ZoneOffset
      BY SMT DEF AnyText
<1>2. TP!FractionNanos(t.fraction) \in Int
      <2>1. CASE t.fraction = NoFraction
            BY SMT, <2>1 DEF TP!FractionNanos, NoFraction
      <2>2. CASE t.fraction \in [point : {TRUE}, pos : Nat, value : Int]
            BY Zenon, <2>2, FractionNumber
      <2> QED BY Zenon, <1>1, <2>1, <2>2 DEF Fraction
<1>3. TP!OffsetSeconds(t.offset) \in Int
      <2>1. CASE t.offset = Z
            BY SMT, <2>1 DEF TP!OffsetSeconds, Z
      <2>2. CASE t.offset \in [sign : Signs, scanned : BOOLEAN, hours : Int, minutes : Int]
            <3>1. t.offset.hours \in Int /\ t.offset.minutes \in Int
                  BY SMT, <2>2
            <3> QED BY SMT, <3>1 DEF TP!OffsetSeconds
      <2> QED BY SMT, <1>1, <2>1, <2>2 DEF ZoneOffset
<1> QED BY <1>2, <1>3

\* Seconds and nanoseconds may be added in one step or in several.
LEMMA LaterSum ==
    ASSUME NEW day \in Int, NEW s \in Int, NEW a \in Int, NEW ns \in Int
    PROVE  /\ TP!Later(TP!TimePoint(day, s, 0), 0, ns) = TP!TimePoint(day, s, ns)
           /\ TP!Later(TP!TimePoint(day, s, ns), a, 0) = TP!TimePoint(day, s + a, ns)
BY SMT DEF TP!Later, TP!TimePoint, TP!NanosPerSecond, TP!SecondsPerDay

\* A sum is neither of the two errors.
LEMMA NoError ==
    \A tp, a, b : TP!Later(tp, a, b) # TP!InvalidArgument /\ TP!Later(tp, a, b) # TP!Overflow
BY SMT DEF TP!Later, TP!TimePoint, TP!InvalidArgument, TP!Overflow

\* Unless a sum overflows, a text is rejected exactly if some part of it is not valid.
LEMMA RejectsInvalid ==
    ASSUME NEW t, NEW z, NEW offset, TP!ParseRfc3339(t, z, offset) # TP!Overflow
    PROVE  TP!ParseRfc3339(t, z, offset) # TP!InvalidArgument <=> TP!Valid(t)
<1>1. TP!Valid(t) => TP!ValidDateTime(t)
      BY Zenon DEF TP!Valid
<1> QED BY Zenon, <1>1, NoError DEF TP!ParseRfc3339

\* Unless a sum overflows, ParseRfc3339() accepts a text of any year if and only if
\* its date exists in the calendar and the rest of it would be accepted with any
\* other date.
THEOREM AcceptsExistingDates ==
    ASSUME NEW t \in AnyText, NEW z, NEW offset, TP!ParseRfc3339(t, z, offset) # TP!Overflow
    PROVE  TP!ParseRfc3339(t, z, offset) # TP!InvalidArgument
               <=> /\ t.month \in 1..12
                   /\ TP!DateOf(TP!DayOf(t.year, t.month, t.day))
                          = [year |-> t.year, month |-> t.month, day |-> t.day]
                   /\ TP!Valid(OtherDate(t))
<1> DEFINE u == OtherDate(t)
           Rest(r) == /\ r.scanned /\ r.separator \in {"T", "t"}
                      /\ r.hours \in 0..23 /\ r.minutes \in 0..59 /\ r.seconds \in 0..60
                      /\ TP!ValidFraction(r.fraction) /\ TP!ValidOffset(r.offset) /\ ~r.more
<1>1. t.year \in Int /\ t.month \in Int /\ t.day \in Int
      BY SMT DEF AnyText
<1>2. \A r : TP!Valid(r) <=> ValidDay(r.year, r.month, r.day) /\ Rest(r)
      BY Zenon DEF TP!Valid, TP!ValidDateTime, ValidDay
<1>3. /\ u.scanned = t.scanned /\ u.separator = t.separator /\ u.hours = t.hours /\ u.minutes = t.minutes
      /\ u.seconds = t.seconds /\ u.fraction = t.fraction /\ u.offset = t.offset /\ u.more = t.more
      /\ u.year = 2000 /\ u.month = 1 /\ u.day = 1
      BY SMT DEF AnyText, OtherDate
<1> HIDE DEF u
<1>4. Rest(u) <=> Rest(t)
      BY SMT, <1>3
<1> HIDE DEF Rest
<1>5. ValidDay(u.year, u.month, u.day)
      BY SMT, <1>3 DEF ValidDay, TP!kMaxDaysInMonth
<1>6. TP!Valid(u) <=> Rest(t)
      BY Zenon, <1>2, <1>4, <1>5
<1>7. TP!Valid(t) <=> /\ t.month \in 1..12
                      /\ TP!DateOf(TP!DayOf(t.year, t.month, t.day))
                             = [year |-> t.year, month |-> t.month, day |-> t.day]
                      /\ Rest(t)
      <2>1. ValidDay(t.year, t.month, t.day) => t.month \in 1..12
            BY Zenon DEF ValidDay
      <2> QED BY Zenon, <1>1, <1>2, <2>1, CalendarDates
<1> QED BY Zenon, <1>6, <1>7, RejectsInvalid DEF u

\* A text of any year that is accepted is the time point that it says, leap
\* seconds included, if the cached offset is the one of the zone at its date.
THEOREM ParsesTimePoint ==
    ASSUME NEW t \in AnyText, NEW z, z.before \in Int, z.after \in Int,
           TP!ParseRfc3339(t, z, -TP!StandardOffset(z, TP!DayOf(t.year, t.month, t.day)))
               \notin {TP!InvalidArgument, TP!Overflow}
    PROVE  TP!ParseRfc3339(t, z, -TP!StandardOffset(z, TP!DayOf(t.year, t.month, t.day)))
               = TP!TimePoint(TP!DayOf(t.year, t.month, t.day),
                              3600 * t.hours + 60 * t.minutes + t.seconds - TP!OffsetSeconds(t.offset),
                              TP!FractionNanos(t.fraction))
<1> DEFINE day == TP!DayOf(t.year, t.month, t.day)
           std == TP!StandardOffset(z, day)
           s == 3600 * t.hours + 60 * t.minutes + t.seconds
           off == TP!OffsetSeconds(t.offset)
           ns == TP!FractionNanos(t.fraction)
<1>1. /\ t.year \in Int /\ t.month \in Int /\ t.day \in Int
      /\ t.hours \in Int /\ t.minutes \in Int /\ t.seconds \in Int
      BY SMT DEF AnyText
<1>2. day \in Int
      BY SMT, <1>1 DEF TP!DayOf
<1>3. std \in Int
      BY SMT DEF TP!StandardOffset
<1>4. s \in Int
      BY SMT, <1>1
<1>5. off \in Int /\ ns \in Int
      BY TextNumbers
<1>6. TP!ParseRfc3339(t, z, -std)
          = TP!Later(TP!Later(TP!Later(TP!MkTime(z, t), 0, ns), -off, 0), -(-std), 0)
      BY Zenon DEF TP!ParseRfc3339
<1>7. TP!MkTime(z, t) = TP!TimePoint(day, s - std, 0)
      BY SMT, <1>1, <1>2, <1>3 DEF TP!MkTime
<1> HIDE DEF day, std, s, off, ns
<1>8. /\ s - std \in Int /\ -off \in Int /\ -(-std) \in Int /\ (s - std) + (-off) \in Int
      /\ ((s - std) + (-off)) + (-(-std)) = s - off
      BY SMT, <1>3, <1>4, <1>5
<1>9. TP!Later(TP!Later(TP!Later(TP!TimePoint(day, s - std, 0), 0, ns), -off, 0), -(-std), 0)
          = TP!TimePoint(day, ((s - std) + (-off)) + (-(-std)), ns)
      <2>1. TP!Later(TP!TimePoint(day, s - std, 0), 0, ns) = TP!TimePoint(day, s - std, ns)
            BY SMT, <1>2, <1>5, <1>8, LaterSum
      <2>2. TP!Later(TP!TimePoint(day, s - std, ns), -off, 0) = TP!TimePoint(day, (s - std) + (-off), ns)
            BY SMT, <1>2, <1>5, <1>8, LaterSum
      <2>3. TP!Later(TP!TimePoint(day, (s - std) + (-off), ns), -(-std), 0)
                = TP!TimePoint(day, ((s - std) + (-off)) + (-(-std)), ns)
            BY SMT, <1>2, <1>5, <1>8, LaterSum
      <2> QED BY Zenon, <2>1, <2>2, <2>3
<1>10. TP!ParseRfc3339(t, z, -std) = TP!TimePoint(day, s - off, ns)
      BY Zenon, <1>6, <1>7, <1>8, <1>9
<1> QED BY SMT, <1>1, <1>2, <1>3, <1>5, <1>10 DEF day, std, s, off, ns

\* A record with the fields of a text is one.
LEMMA TextRecord ==
    ASSUME NEW a \in BOOLEAN, NEW y \in Int, NEW m \in Int, NEW d \in Int, NEW c \in Separators,
           NEW h \in Int, NEW i \in Int, NEW s \in Int,
           NEW f \in Fraction, NEW o \in ZoneOffset, NEW e \in BOOLEAN
    PROVE  [scanned |-> a, year |-> y, month |-> m, day |-> d, separator |-> c,
            hours |-> h, minutes |-> i, seconds |-> s, fraction |-> f, offset |-> o, more |-> e] \in AnyText
BY SMT DEF AnyText

\* A text stays one when numbers or marks are put in its fields.
LEMMA TextFields ==
    ASSUME NEW n \in AnyText
    PROVE  /\ \A y, m, d \in Int : [n EXCEPT !.year = y, !.month = m, !.day = d] \in AnyText
           /\ \A h, m, s \in Int : [n EXCEPT !.hours = h, !.minutes = m, !.seconds = s] \in AnyText
           /\ \A c \in Separators, b, e \in BOOLEAN :
                 [n EXCEPT !.separator = c, !.scanned = b, !.more = e] \in AnyText
<1>1. ASSUME NEW y \in Int, NEW m \in Int, NEW d \in Int
      PROVE  [n EXCEPT !.year = y, !.month = m, !.day = d] \in AnyText
      BY DEF AnyText
<1>2. ASSUME NEW h \in Int, NEW m \in Int, NEW s \in Int
      PROVE  [n EXCEPT !.hours = h, !.minutes = m, !.seconds = s] \in AnyText
      BY DEF AnyText
<1>3. ASSUME NEW c \in Separators, NEW b \in BOOLEAN, NEW e \in BOOLEAN
      PROVE  [n EXCEPT !.separator = c, !.scanned = b, !.more = e] \in AnyText
      BY DEF AnyText
<1> QED BY Zenon, <1>1, <1>2, <1>3

\* Noon of some day is a text.
LEMMA NoonIsText == Noon \in AnyText
<1>1. NoFraction \in Fraction /\ Z \in ZoneOffset
      BY Zenon DEF Fraction, ZoneOffset
<1>2. "T" \in Separators /\ TRUE \in BOOLEAN /\ FALSE \in BOOLEAN
      BY Zenon DEF Separators
<1>3. PICK y \in Int, m \in Int, d \in Int, h \in Int, i \in Int :
          y = 2019 /\ m = 6 /\ d = 15 /\ h = 12 /\ i = 0
      BY SMT
<1>4. Noon = [scanned |-> TRUE, year |-> y, month |-> m, day |-> d, separator |-> "T",
              hours |-> h, minutes |-> i, seconds |-> i,
              fraction |-> NoFraction, offset |-> Z, more |-> FALSE]
      BY SMT, <1>3 DEF Noon
<1> HIDE <1>3
<1>5. [scanned |-> TRUE, year |-> y, month |-> m, day |-> d, separator |-> "T",
       hours |-> h, minutes |-> i, seconds |-> i,
       fraction |-> NoFraction, offset |-> Z, more |-> FALSE] \in AnyText
      BY Zenon, <1>1, <1>2, TextRecord
<1> QED BY SMT, <1>4, <1>5

\* The texts that TLC tries are texts that the parser may meet.
LEMMA TextsTried == ASSUME NEW t \in Text PROVE t \in AnyText
<1>0. Noon \in AnyText
      BY Zenon, NoonIsText
<1>1. CASE t \in Dates
      <2>1. PICK y \in Years, m \in Months, d \in MonthDays : t = OnDate(y, m, d)
            BY SMT, <1>1 DEF Dates
      <2>2. y \in Int /\ m \in Int /\ d \in Int
            BY SMT DEF Years, Months, MonthDays
      <2> QED BY Zenon, <1>0, <2>1, <2>2, TextFields DEF OnDate
<1>2. CASE t \in Times
      <2>1. PICK h \in Hours, m \in Minutes, s \in Seconds : t = AtTime(h, m, s)
            BY SMT, <1>2 DEF Times
      <2>2. h \in Int /\ m \in Int /\ s \in Int
            BY SMT DEF Hours, Minutes, Seconds
      <2> QED BY Zenon, <1>0, <2>1, <2>2, TextFields DEF AtTime
<1>3. CASE t \in Marks
      <2>1. PICK c \in Separators, b \in BOOLEAN, e \in BOOLEAN : t = WithMarks(c, b, e)
            BY SMT, <1>3 DEF Marks
      <2> QED BY Zenon, <1>0, <2>1, TextFields DEF WithMarks
<1>4. CASE t \in Fractions
      <2>1. PICK p \in 0..11, v \in {0, 5} : t = WithFraction(p, v)
            BY SMT, <1>4 DEF Fractions
      <2> DEFINE f == [point |-> TRUE, pos |-> p, value |-> v]
      <2>2. p \in Nat /\ v \in Int
            BY SMT
      <2>3. f \in Fraction
            BY Zenon, <2>2 DEF Fraction
      <2>4. t = [Noon EXCEPT !.fraction = f]
            BY Zenon, <2>1 DEF WithFraction
      <2> HIDE DEF f
      <2> QED BY SMT, <1>0, <2>3, <2>4 DEF AnyText
<1>5. CASE t \in Offsets
      <2>1. PICK c \in Signs, b \in BOOLEAN, h \in Hours, m \in Minutes : t = WithOffset(c, b, h, m)
            BY SMT, <1>5 DEF Offsets
      <2> DEFINE o == [sign |-> c, scanned |-> b, hours |-> h, minutes |-> m]
      <2>2. h \in Int /\ m \in Int
            BY SMT DEF Hours, Minutes
      <2>3. o \in ZoneOffset
            BY Zenon, <2>2 DEF ZoneOffset
      <2>4. t = [Noon EXCEPT !.offset = o]
            BY Zenon, <2>1 DEF WithOffset
      <2> HIDE DEF o
      <2> QED BY SMT, <1>0, <2>3, <2>4 DEF AnyText
<1> QED BY Zenon, <1>1, <1>2, <1>3, <1>4, <1>5 DEF Text

\* The static holds one offset once it is initialised, and a text that was parsed
\* was parsed with it.
ParsedOK ==
    /\ zone.before \in Int /\ zone.after \in Int
    /\ kLocalTimeOffset # {} => \E o : kLocalTimeOffset = {o}
    /\ last.call = "parse" =>
          /\ last.text \in Text
          /\ \E o : kLocalTimeOffset = {o} /\ last.result = TP!ParseRfc3339(last.text, zone, o)

\* Every call keeps the offset that the first one found.
LEMMA ParsedStep == ParsedOK /\ [Next]_vars => ParsedOK'
<1> SUFFICES ASSUME ParsedOK, [Next]_vars PROVE ParsedOK'
    OBVIOUS
<1>0. \A z \in Zone : z.before \in Int /\ z.after \in Int
      BY SMT DEF Zone
<1>1. CASE UNCHANGED <<zone, kLocalTimeOffset, last>>
      BY Zenon, <1>1 DEF ParsedOK
<1>2. CASE TP!Next
      <2>1. PICK o : TP!CachedOffset = {o} /\ TP!Cached = o
            <3>1. PICK o : TP!CachedOffset = {o}
                  BY Zenon DEF ParsedOK, TP!CachedOffset
            <3> QED BY Zenon, <3>1 DEF TP!Cached
      <2>2. ASSUME NEW t \in Text, TP!Parse(t) PROVE ParsedOK'
            <3>1. kLocalTimeOffset' = {o} /\ zone' = zone
                  BY Zenon, <2>1, <2>2 DEF TP!Parse
            <3>2. last' = [call |-> "parse", text |-> t, result |-> TP!ParseRfc3339(t, zone, o)]
                  BY Zenon, <2>1, <2>2 DEF TP!Parse
            <3>3. last'.text = t /\ last'.result = TP!ParseRfc3339(t, zone, o)
                  BY Zenon, <3>2
            <3> QED BY Zenon, <3>1, <3>3 DEF ParsedOK
      <2>3. ASSUME kLocalTimeOffset' = {o}, zone' = zone, last'.call # "parse" PROVE ParsedOK'
            BY Zenon, <2>3 DEF ParsedOK
      <2>4. ASSUME NEW tp, TP!FormatAndParse(tp) PROVE ParsedOK'
            <3>1. kLocalTimeOffset' = {o} /\ zone' = zone
                  BY Zenon, <2>1, <2>4 DEF TP!FormatAndParse
            <3>2. last'.call = "format"
                  BY Zenon, <2>4 DEF TP!FormatAndParse
            <3> QED BY Zenon, <2>3, <3>1, <3>2
      <2>5. ASSUME NEW tp, NEW off, TP!ParseForeign(tp, off) PROVE ParsedOK'
            <3>1. kLocalTimeOffset' = {o} /\ zone' = zone
                  BY Zenon, <2>1, <2>5 DEF TP!ParseForeign
            <3>2. last'.call = "foreign"
                  BY Zenon, <2>5 DEF TP!ParseForeign
            <3> QED BY Zenon, <2>3, <3>1, <3>2
      <2>6. CASE TP!Used
            <3>1. last'.call = "none" /\ UNCHANGED <<zone, kLocalTimeOffset>>
                  BY Zenon, <2>6 DEF TP!Used
            <3> QED BY Zenon, <3>1 DEF ParsedOK
      <2>7. CASE TP!ChangeZone
            <3>1. last.call = "none" /\ UNCHANGED <<last, kLocalTimeOffset>> /\ zone' \in Zone
                  BY Zenon, <2>7 DEF TP!ChangeZone
            <3> QED BY Zenon, <1>0, <3>1 DEF ParsedOK
      <2> QED BY Zenon, <1>2, <2>2, <2>4, <2>5, <2>6, <2>7 DEF TP!Next
<1> QED BY Zenon, <1>1, <1>2 DEF Next, vars, time

\* In any sequence of calls ParseRfc3339() accepts a text whose time point is in
\* range if and only if its date exists, and returns the time point that it says.
THEOREM CalendarDatesAccepted == Spec => []AcceptsCalendarDates
<1>1. Init => ParsedOK
      <2> SUFFICES ASSUME Init PROVE ParsedOK
          OBVIOUS
      <2>1. zone \in Zone /\ kLocalTimeOffset = {} /\ last = [call |-> "none"]
            BY Zenon DEF Init, TP!Init
      <2>2. zone.before \in Int /\ zone.after \in Int
            BY SMT, <2>1 DEF Zone
      <2>3. last.call = "none"
            BY Zenon, <2>1
      <2> QED BY Zenon, <2>1, <2>2, <2>3 DEF ParsedOK
<1>2. ParsedOK /\ [Next]_vars => ParsedOK'
      BY ParsedStep
<1>3. ParsedOK => AcceptsCalendarDates
      <2> SUFFICES ASSUME ParsedOK, last.call = "parse", last.result # TP!Overflow
                   PROVE  TP!AcceptsCalendarDates
          BY SMT DEF AcceptsCalendarDates, TP!AcceptsCalendarDates
      <2>1. PICK o : kLocalTimeOffset = {o} /\ last.result = TP!ParseRfc3339(last.text, zone, o)
            BY Zenon DEF ParsedOK
      <2>2. last.text \in AnyText
            BY Zenon, TextsTried DEF ParsedOK
      <2>3. last.result # TP!InvalidArgument
               <=> /\ last.text.month \in 1..12
                   /\ TP!DateOf(TP!DayOf(last.text.year, last.text.month, last.text.day))
                          = [year |-> last.text.year, month |-> last.text.month, day |-> last.text.day]
                   /\ TP!Valid(OtherDate(last.text))
            BY Zenon, <2>1, <2>2, AcceptsExistingDates
      <2>4. ASSUME last.result # TP!InvalidArgument, TP!OffsetIsCurrent(last.text)
            PROVE  last.result = TP!TimePoint(TP!DayOf(last.text.year, last.text.month, last.text.day),
                                              3600 * last.text.hours + 60 * last.text.minutes + last.text.seconds
                                                  - TP!OffsetSeconds(last.text.offset),
                                              TP!FractionNanos(last.text.fraction))
            <3>1. o = -TP!StandardOffset(zone, TP!DayOf(last.text.year, last.text.month, last.text.day))
                  BY Zenon, <2>1, <2>4 DEF TP!OffsetIsCurrent
            <3>2. zone.before \in Int /\ zone.after \in Int
                  BY Zenon DEF ParsedOK
            <3> QED BY SMT, <2>1, <2>2, <2>4, <3>1, <3>2, ParsesTimePoint
      <2> QED BY SMT, <2>3, <2>4 DEF TP!AcceptsCalendarDates, OtherDate
<1> QED BY <1>1, <1>2, <1>3, PTL DEF Spec

-----------------------------------------------------------------------------
(* FormatRfc3339()                                                         *)

\* gmtime_r() finds a date that exists, and mktime() finds the day again.
LEMMA DateExists ==
    ASSUME NEW x \in Int
    PROVE  \E y \in Int, m \in 1..12, d \in Int :
              /\ TP!DateOf(x) = [year |-> y, month |-> m, day |-> d]
              /\ TP!DayOf(y, m, d) = x
              /\ ValidDay(y, m, d)
<1>1. PICK y \in Int, m \in 1..12 : First(y, m) <= x /\ x < First(y, m + 1)
      BY SMT, DayHasDate
<1>2. First(y, m) \in Int
      BY Zenon, MonthLength
<1>3. PICK d \in Int : d = x - First(y, m) + 1
      BY SMT, <1>2
<1>4. TP!DateOf(x) = [year |-> y, month |-> m, day |-> d]
      BY SMT, <1>1, <1>3, DateOfDay
<1>5. TP!DayOf(y, m, d) = x
      <2>1. TP!DayOf(y, m, d) = TP!DayOf(y, m, 1) + d - 1
            BY SMT DEF TP!DayOf
      <2>2. First(y, m) = TP!DayOf(y, m, 1)
            BY SMT DEF First
      <2> QED BY SMT, <1>2, <1>3, <2>1, <2>2
<1>6. ValidDay(y, m, d)
      BY Zenon, <1>4, <1>5, CalendarDates
<1> QED BY Zenon, <1>4, <1>5, <1>6

\* to_time_t() truncates a time point to a second, and the fraction leads back from
\* there to the time point.
LEMMA SecondAndFraction ==
    ASSUME NEW d \in Int, NEW s \in Nat, s < 86400, NEW n \in Nat, n < 1000000000, NEW tp,
           tp = [day |-> d, sec |-> s, ns |-> n]
    PROVE  /\ TP!TruncatedSecond(tp).day \in d..(d + 1)
           /\ TP!TruncatedSecond(tp).day = d + 1 => d < 0 /\ TP!TruncatedSecond(tp).sec = 0
           /\ TP!TruncatedSecond(tp).sec \in Nat /\ TP!TruncatedSecond(tp).sec < 86400
           /\ TP!Fractional(tp) \in Int
           /\ -1000000000 < TP!Fractional(tp) /\ TP!Fractional(tp) < 1000000000
           /\ TP!TimePoint(TP!TruncatedSecond(tp).day, TP!TruncatedSecond(tp).sec, TP!Fractional(tp)) = tp
<1>0. tp.day = d /\ tp.sec = s /\ tp.ns = n
      BY SMT
<1>1. CASE d < 0 /\ n > 0
      <2>1. TP!Fractional(tp) = n - 1000000000
            BY SMT, <1>0, <1>1 DEF TP!Fractional, TP!BeforeEpoch, TP!NanosPerSecond
      <2>2. TP!TruncatedSecond(tp) = TP!TimePoint(d, s + 1, 0)
            BY SMT, <1>0, <1>1 DEF TP!TruncatedSecond, TP!BeforeEpoch
      <2>3. TP!TimePoint(d, s + 1, 0) = [day |-> d + (s + 1) \div 86400, sec |-> (s + 1) % 86400, ns |-> 0]
            BY SMT DEF TP!TimePoint, TP!NanosPerSecond, TP!SecondsPerDay
      <2>4. CASE s = 86399
            <3>1. TP!TruncatedSecond(tp).day = d + 1 /\ TP!TruncatedSecond(tp).sec = 0
                  BY SMT, <2>2, <2>3, <2>4
            <3>2. TP!TimePoint(d + 1, 0, n - 1000000000) = tp
                  BY SMT, <1>1, <2>4 DEF TP!TimePoint, TP!NanosPerSecond, TP!SecondsPerDay
            <3> QED BY SMT, <1>1, <2>1, <3>1, <3>2
      <2>5. CASE s # 86399
            <3>1. TP!TruncatedSecond(tp).day = d /\ TP!TruncatedSecond(tp).sec = s + 1
                  BY SMT, <2>2, <2>3, <2>5
            <3>2. TP!TimePoint(d, s + 1, n - 1000000000) = tp
                  BY SMT, <1>1, <2>5 DEF TP!TimePoint, TP!NanosPerSecond, TP!SecondsPerDay
            <3> QED BY SMT, <1>1, <2>1, <2>5, <3>1, <3>2
      <2> QED BY SMT, <2>4, <2>5
<1>2. CASE ~(d < 0 /\ n > 0)
      <2>1. TP!Fractional(tp) = n
            BY SMT, <1>0, <1>2 DEF TP!Fractional, TP!BeforeEpoch
      <2>2. TP!TruncatedSecond(tp) = [tp EXCEPT !.ns = 0]
            BY SMT, <1>0, <1>2 DEF TP!TruncatedSecond, TP!BeforeEpoch
      <2>3. TP!TruncatedSecond(tp).day = d /\ TP!TruncatedSecond(tp).sec = s
            BY SMT, <2>2
      <2>4. TP!TimePoint(d, s, n) = tp
            BY SMT DEF TP!TimePoint, TP!NanosPerSecond, TP!SecondsPerDay
      <2> QED BY SMT, <2>1, <2>3, <2>4
<1> QED BY SMT, <1>1, <1>2

\* Two different fractions never lead to the same time point.
LEMMA FractionsDiffer ==
    ASSUME NEW d \in Int, NEW s \in Int, NEW a \in Int, NEW b \in Int,
           TP!TimePoint(d, s, a) = TP!TimePoint(d, s, b)
    PROVE  a = b
<1> DEFINE p == s + a \div 1000000000
           q == s + b \div 1000000000
<1>1. d + p \div 86400 = d + q \div 86400 /\ p % 86400 = q % 86400 /\ a % 1000000000 = b % 1000000000
      BY SMT DEF TP!TimePoint, TP!NanosPerSecond, TP!SecondsPerDay
<1>2. p \in Int /\ q \in Int
      BY SMT
<1>3. p = q
      <2> HIDE DEF p, q
      <2> QED BY SMT, <1>1, <1>2
<1> QED BY SMT, <1>1, <1>3

\* The powers of ten that turn a fraction into nanoseconds, the first is 10^0.
PowersOfTen == <<1, 10, 100, 1000, 10000, 100000, 1000000, 10000000, 100000000, 1000000000>>

\* They are the powers that FractionNanos() and DecimalWidth() use.
LEMMA TenTo == \A k \in 0..9 : 10^k = PowersOfTen[k + 1] /\ PowersOfTen[k + 1] \in Nat
<1>1. /\ 10^0 = PowersOfTen[0 + 1] /\ 10^1 = PowersOfTen[1 + 1] /\ 10^2 = PowersOfTen[2 + 1]
      /\ 10^3 = PowersOfTen[3 + 1] /\ 10^4 = PowersOfTen[4 + 1] /\ 10^5 = PowersOfTen[5 + 1]
      /\ 10^6 = PowersOfTen[6 + 1] /\ 10^7 = PowersOfTen[7 + 1] /\ 10^8 = PowersOfTen[8 + 1]
      /\ 10^9 = PowersOfTen[9 + 1]
      BY SMT DEF PowersOfTen
<1>2. \A k \in 0..9 : k = 0 \/ k = 1 \/ k = 2 \/ k = 3 \/ k = 4 \/ k = 5 \/ k = 6 \/ k = 7 \/ k = 8 \/ k = 9
      BY SMT
<1>3. \A k \in 0..9 : 10^k = PowersOfTen[k + 1]
      BY Zenon, <1>1, <1>2
<1>4. \A k \in 0..9 : PowersOfTen[k + 1] \in Nat
      BY SMT DEF PowersOfTen
<1> QED BY Zenon, <1>3, <1>4

\* A longer number is larger.
LEMMA TenGrows == \A i, k \in 1..10 : i <= k => PowersOfTen[i] <= PowersOfTen[k]
BY SMT DEF PowersOfTen

\* How many digits a number has.
LEMMA Digits ==
    ASSUME NEW a \in Nat, NEW n \in 1..9, a < PowersOfTen[n + 1], n = 1 \/ a >= PowersOfTen[n]
    PROVE  (CHOOSE k \in 1..9 : a < 10^k /\ (k = 1 \/ a >= 10^(k - 1))) = n
<1> DEFINE Fits(k) == a < 10^k /\ (k = 1 \/ a >= 10^(k - 1))
<1>0. ASSUME NEW k \in 1..9
      PROVE  /\ Fits(k) <=> a < PowersOfTen[k + 1] /\ (k = 1 \/ a >= PowersOfTen[k])
             /\ PowersOfTen[k] \in Nat /\ PowersOfTen[k + 1] \in Nat
      <2>1. k \in 0..9 /\ k - 1 \in 0..9 /\ (k - 1) + 1 = k
            BY SMT
      <2>2. 10^k = PowersOfTen[k + 1] /\ 10^(k - 1) = PowersOfTen[k]
            BY Zenon, <2>1, TenTo
      <2>3. PowersOfTen[k] \in Nat /\ PowersOfTen[k + 1] \in Nat
            BY Zenon, <2>1, TenTo
      <2> QED BY Zenon, <2>2, <2>3
<1> HIDE DEF Fits
<1>1. ASSUME NEW k \in 1..9, Fits(k) PROVE k = n
      <2>1. a < PowersOfTen[k + 1] /\ (k = 1 \/ a >= PowersOfTen[k])
            BY Zenon, <1>0, <1>1
      <2>2. /\ PowersOfTen[k] \in Nat /\ PowersOfTen[k + 1] \in Nat
            /\ PowersOfTen[n] \in Nat /\ PowersOfTen[n + 1] \in Nat
            BY Zenon, <1>0
      <2>3. k + 1 <= n => PowersOfTen[k + 1] <= PowersOfTen[n]
            BY SMT, TenGrows
      <2>4. n + 1 <= k => PowersOfTen[n + 1] <= PowersOfTen[k]
            BY SMT, TenGrows
      <2> QED BY SMT, <2>1, <2>2, <2>3, <2>4
<1>2. Fits(n)
      BY Zenon, <1>0
<1>3. (CHOOSE k \in 1..9 : Fits(k)) = n
      BY Zenon, <1>1, <1>2
<1> QED BY Zenon, <1>3 DEF Fits

\* A number of up to n digits takes a character more than n if it is negative and
\* has n digits.
LEMMA Width ==
    ASSUME NEW n \in 2..9, NEW q \in Int, -PowersOfTen[n + 1] < q, q < PowersOfTen[n + 1]
    PROVE  /\ q > -PowersOfTen[n] => ~(TP!DecimalWidth(q) > n)
           /\ q <= -PowersOfTen[n] => TP!DecimalWidth(q) = n + 1
<1> DEFINE a == IF q < 0 THEN -q ELSE q
<1>0. a \in Nat /\ (q < 0 => a = -q) /\ (~(q < 0) => a = q)
      BY SMT
<1>8. TP!DecimalWidth(q) = IF q < 0 THEN (CHOOSE k \in 1..9 : a < 10^k /\ (k = 1 \/ a >= 10^(k - 1))) + 1
                           ELSE CHOOSE k \in 1..9 : a < 10^k /\ (k = 1 \/ a >= 10^(k - 1))
      BY DEF TP!DecimalWidth
<1> HIDE DEF a
<1>1. \A k \in 1..10 : PowersOfTen[k] \in Nat
      BY SMT DEF PowersOfTen
<1>2. a < PowersOfTen[n + 1]
      BY SMT, <1>0, <1>1
<1> DEFINE Has(k) == a < PowersOfTen[k + 1] /\ (k = 1 \/ a >= PowersOfTen[k])
<1>3. PICK d \in 1..9 : Has(d)
      <2> SUFFICES ASSUME \A k \in 1..9 : ~Has(k) PROVE FALSE
          BY Zenon
      <2>1. a >= PowersOfTen[1 + 1]
            BY SMT, <1>0, <1>1
      <2>2. \A k \in 2..9 : a >= PowersOfTen[k] => a >= PowersOfTen[k + 1]
            BY SMT, <1>0, <1>1
      <2>3. a >= PowersOfTen[2]
            BY SMT, <2>1
      <2>4. \A k \in 2..10 : a >= PowersOfTen[k]
            BY SMT, <2>2, <2>3
      <2> QED BY SMT, <1>0, <1>1, <1>2, <2>4
<1>4. TP!DecimalWidth(q) = IF q < 0 THEN d + 1 ELSE d
      <2>1. (CHOOSE k \in 1..9 : a < 10^k /\ (k = 1 \/ a >= 10^(k - 1))) = d
            BY Zenon, <1>0, <1>3, Digits
      <2> QED BY Zenon, <1>8, <2>1
<1>5. d <= n
      <2>1. n + 1 <= d => PowersOfTen[n + 1] <= PowersOfTen[d]
            BY SMT, TenGrows
      <2> QED BY SMT, <1>0, <1>1, <1>2, <1>3, <2>1
<1>6. ASSUME q <= -PowersOfTen[n] PROVE TP!DecimalWidth(q) = n + 1
      <2>1. a >= PowersOfTen[n] /\ q < 0
            BY SMT, <1>0, <1>1, <1>6 DEF PowersOfTen
      <2>2. d + 1 <= n => PowersOfTen[d + 1] <= PowersOfTen[n]
            BY SMT, TenGrows
      <2> QED BY SMT, <1>0, <1>1, <1>3, <1>4, <1>5, <2>1, <2>2
<1>7. ASSUME q > -PowersOfTen[n] PROVE ~(TP!DecimalWidth(q) > n)
      <2>1. CASE q < 0
            <3>1. a < PowersOfTen[n]
                  BY SMT, <1>0, <1>1, <1>7, <2>1
            <3>2. n <= d => PowersOfTen[n] <= PowersOfTen[d]
                  BY SMT, TenGrows
            <3> QED BY SMT, <1>0, <1>1, <1>3, <1>4, <2>1, <3>1, <3>2
      <2>2. CASE ~(q < 0)
            BY SMT, <1>4, <1>5, <2>2
      <2> QED BY Zenon, <2>1, <2>2
<1> QED BY Zenon, <1>6, <1>7

\* What the parser finds of a number printed with n digits: all of it, unless it is
\* negative and has n digits; of ten characters "%9ld" reads nine.
LEMMA PrintedNumber ==
    ASSUME NEW n \in 2..9, NEW q \in Int, -PowersOfTen[n + 1] < q, q < PowersOfTen[n + 1]
    PROVE  /\ q > -PowersOfTen[n] => TP!Printed(q, n) = [point |-> TRUE, pos |-> n, value |-> q]
           /\ q <= -PowersOfTen[n] /\ n < 9
                 => TP!Printed(q, n) = [point |-> TRUE, pos |-> n + 1, value |-> q]
           /\ q <= -PowersOfTen[n] /\ n = 9
                 => TP!Printed(q, n) = [point |-> TRUE, pos |-> 9, value |-> TP!Truncate(q, 10)]
<1>1. /\ q > -PowersOfTen[n] => ~(TP!DecimalWidth(q) > n)
      /\ q <= -PowersOfTen[n] => TP!DecimalWidth(q) = n + 1
      BY Zenon, Width
<1>2. ~(n > 9) /\ n + 1 > n /\ (n < 9 => ~(n + 1 > 9)) /\ (n = 9 => n + 1 > 9)
      BY SMT
<1> QED BY Zenon, <1>1, <1>2 DEF TP!Printed

\* A fraction with a number, in nanoseconds.
LEMMA NumberNanos ==
    ASSUME NEW n \in 1..9, NEW q \in Int
    PROVE  /\ [point |-> TRUE, pos |-> n, value |-> q] \in Fraction
           /\ TP!ValidFraction([point |-> TRUE, pos |-> n, value |-> q])
           /\ TP!FractionNanos([point |-> TRUE, pos |-> n, value |-> q]) = q * PowersOfTen[10 - n]
<1>1. n \in Nat /\ n > 0 /\ 9 - n \in 0..9 /\ (9 - n) + 1 = 10 - n
      BY SMT
<1>0. (IF n < 9 THEN 9 - n ELSE 0) = 9 - n
      BY SMT
<1> DEFINE f == [point |-> TRUE, pos |-> n, value |-> q]
<1>2. f.point = TRUE /\ f.pos = n /\ f.value = q
      BY Zenon
<1>3. 10^(9 - n) = PowersOfTen[10 - n]
      BY Zenon, <1>1, TenTo
<1>4. f \in Fraction
      BY Zenon, <1>1 DEF Fraction
<1>5. TP!ValidFraction(f)
      BY Zenon, <1>1, <1>2 DEF TP!ValidFraction
<1>6. TP!FractionNanos(f) = f.value * 10^(9 - f.pos)
      BY Zenon, <1>0, <1>2 DEF TP!FractionNanos
<1> HIDE DEF f
<1>7. TP!FractionNanos(f) = q * PowersOfTen[10 - n]
      BY Zenon, <1>2, <1>3, <1>6
<1> QED BY Zenon, <1>4, <1>5, <1>7 DEF f

\* A number of milliseconds, microseconds or nanoseconds, printed and parsed.
LEMMA PrintedNanos ==
    ASSUME NEW n \in {3, 6, 9}, NEW q \in Int, -PowersOfTen[n + 1] < q, q < PowersOfTen[n + 1]
    PROVE  /\ TP!Printed(q, n) \in Fraction /\ TP!ValidFraction(TP!Printed(q, n))
           /\ TP!FractionNanos(TP!Printed(q, n)) \in Int
           /\ TP!FractionNanos(TP!Printed(q, n)) = q * PowersOfTen[10 - n] <=> q > -PowersOfTen[n]
<1>0. n \in 2..9 /\ PowersOfTen[n] \in Nat /\ n \in 1..9
      BY SMT DEF PowersOfTen
<1>1. CASE q > -PowersOfTen[n]
      <2>1. TP!Printed(q, n) = [point |-> TRUE, pos |-> n, value |-> q]
            BY Zenon, <1>0, <1>1, PrintedNumber
      <2>2. q * PowersOfTen[10 - n] \in Int
            BY SMT DEF PowersOfTen
      <2> QED BY Zenon, <1>0, <1>1, <2>1, <2>2, NumberNanos
<1>2. CASE q <= -PowersOfTen[n] /\ n < 9
      <2>1. TP!Printed(q, n) = [point |-> TRUE, pos |-> n + 1, value |-> q]
            BY Zenon, <1>0, <1>2, PrintedNumber
      <2>2. n + 1 \in 1..9
            BY SMT, <1>2
      <2>3. q * PowersOfTen[10 - (n + 1)] \in Int /\ q * PowersOfTen[10 - (n + 1)] # q * PowersOfTen[10 - n]
            <3>1. CASE n = 3
                  BY SMT, <1>2, <3>1 DEF PowersOfTen
            <3>2. CASE n = 6
                  BY SMT, <1>2, <3>2 DEF PowersOfTen
            <3> QED BY SMT, <1>2, <3>1, <3>2
      <2>4. ~(q > -PowersOfTen[n])
            BY SMT, <1>0, <1>2
      <2>5. /\ TP!Printed(q, n) \in Fraction /\ TP!ValidFraction(TP!Printed(q, n))
            /\ TP!FractionNanos(TP!Printed(q, n)) = q * PowersOfTen[10 - (n + 1)]
            BY Zenon, <2>1, <2>2, NumberNanos
      <2> QED BY Zenon, <2>3, <2>4, <2>5
<1>3. CASE q <= -PowersOfTen[n] /\ n = 9
      <2>1. TP!Printed(q, n) = [point |-> TRUE, pos |-> 9, value |-> TP!Truncate(q, 10)]
            BY Zenon, <1>0, <1>3, PrintedNumber
      <2>2. TP!Truncate(q, 10) \in Int /\ TP!Truncate(q, 10) # q
            BY SMT, <1>3 DEF TP!Truncate, PowersOfTen
      <2>3. ~(q > -PowersOfTen[n])
            BY SMT, <1>0, <1>3
      <2>4. /\ TP!Printed(q, n) \in Fraction /\ TP!ValidFraction(TP!Printed(q, n))
            /\ TP!FractionNanos(TP!Printed(q, n)) = TP!Truncate(q, 10) * PowersOfTen[10 - n]
            BY Zenon, <1>0, <1>3, <2>1, <2>2, NumberNanos
      <2>5. PowersOfTen[10 - n] = 1
            BY SMT, <1>3 DEF PowersOfTen
      <2>6. /\ TP!Truncate(q, 10) * PowersOfTen[10 - n] \in Int
            /\ TP!Truncate(q, 10) * PowersOfTen[10 - n] # q * PowersOfTen[10 - n]
            BY SMT, <2>2, <2>5
      <2> QED BY Zenon, <2>3, <2>4, <2>6
<1> QED BY SMT, <1>0, <1>1, <1>2, <1>3

\* FormatRfc3339() writes milliseconds, microseconds or nanoseconds, whichever is
\* exact, and the parser finds the fraction again, unless it is negative and not
\* smaller than a tenth of a second.
LEMMA FormattedFraction ==
    ASSUME NEW ns \in Int, -1000000000 < ns, ns < 1000000000
    PROVE  /\ TP!FormatFractional(ns) \in Fraction /\ TP!ValidFraction(TP!FormatFractional(ns))
           /\ TP!FractionNanos(TP!FormatFractional(ns)) \in Int
           /\ TP!FractionNanos(TP!FormatFractional(ns)) = ns <=> ns > -100000000
<1>0. /\ PowersOfTen[3] = 100 /\ PowersOfTen[3 + 1] = 1000 /\ PowersOfTen[10 - 3] = 1000000
      /\ PowersOfTen[6] = 100000 /\ PowersOfTen[6 + 1] = 1000000 /\ PowersOfTen[10 - 6] = 1000
      /\ PowersOfTen[9] = 100000000 /\ PowersOfTen[9 + 1] = 1000000000 /\ PowersOfTen[10 - 9] = 1
      BY SMT DEF PowersOfTen
<1>1. CASE ns = 0
      <2>1. TP!FormatFractional(ns) = NoFraction
            BY SMT, <1>1 DEF TP!FormatFractional, NoFraction
      <2>2. TP!FractionNanos(NoFraction) = 0 /\ TP!ValidFraction(NoFraction) /\ NoFraction \in Fraction
            BY SMT DEF TP!FractionNanos, TP!ValidFraction, NoFraction, Fraction
      <2> QED BY SMT, <1>1, <2>1, <2>2
<1>2. CASE ns # 0 /\ ns % 1000000 = 0
      <2>1. PICK q \in Int : q = TP!Truncate(ns, 1000000) /\ ns = q * 1000000
            BY SMT, <1>2 DEF TP!Truncate
      <2>2. TP!FormatFractional(ns) = TP!Printed(q, 3)
            BY SMT, <1>2, <2>1 DEF TP!FormatFractional
      <2>3. -PowersOfTen[3 + 1] < q /\ q < PowersOfTen[3 + 1]
            BY SMT, <1>0, <2>1
      <2>4. q > -PowersOfTen[3] <=> ns > -100000000
            BY SMT, <1>0, <2>1
      <2>5. q * PowersOfTen[10 - 3] = ns
            BY SMT, <1>0, <2>1
      <2>6. 3 \in {3, 6, 9}
            OBVIOUS
      <2> QED BY SMT, <2>2, <2>3, <2>4, <2>5, <2>6, PrintedNanos
<1>3. CASE ns % 1000000 # 0 /\ ns % 1000 = 0
      <2>1. PICK q \in Int : q = TP!Truncate(ns, 1000) /\ ns = q * 1000
            BY SMT, <1>3 DEF TP!Truncate
      <2>2. TP!FormatFractional(ns) = TP!Printed(q, 6)
            BY SMT, <1>3, <2>1 DEF TP!FormatFractional
      <2>3. -PowersOfTen[6 + 1] < q /\ q < PowersOfTen[6 + 1]
            BY SMT, <1>0, <2>1
      <2>4. q > -PowersOfTen[6] <=> ns > -100000000
            BY SMT, <1>0, <2>1
      <2>5. q * PowersOfTen[10 - 6] = ns
            BY SMT, <1>0, <2>1
      <2> QED BY SMT, <2>2, <2>3, <2>4, <2>5, PrintedNanos
<1>4. CASE ns % 1000 # 0
      <2>1. TP!FormatFractional(ns) = TP!Printed(ns, 9)
            BY SMT, <1>4 DEF TP!FormatFractional
      <2>2. -PowersOfTen[9 + 1] < ns /\ ns < PowersOfTen[9 + 1]
            BY SMT, <1>0
      <2>3. ns > -PowersOfTen[9] <=> ns > -100000000
            BY SMT, <1>0
      <2>4. ns * PowersOfTen[10 - 9] = ns
            BY SMT, <1>0
      <2> QED BY SMT, <2>1, <2>2, <2>3, <2>4, PrintedNanos
<1>5. ns = 0 \/ (ns # 0 /\ ns % 1000000 = 0) \/ (ns % 1000000 # 0 /\ ns % 1000 = 0) \/ ns % 1000 # 0
      BY SMT
<1> QED BY SMT, <1>1, <1>2, <1>3, <1>4, <1>5

\* A second of a day, and the one of a time.
InDay(n) == n \in Nat /\ n < TP!SecondsPerDay
SecondOfDay(h, i, c) == 3600 * h + 60 * i + c

\* The time in the fields of a struct tm.
IsTime(n, h, i, c) == h = n \div 3600 /\ i = (n \div 60) % 60 /\ c = n % 60 /\ SecondOfDay(h, i, c) = n

\* Hours, minutes and seconds are a second of the day.
LEMMA ClockTime ==
    ASSUME NEW n, InDay(n)
    PROVE  \E h \in 0..23, i \in 0..59, c \in 0..59 : IsTime(n, h, i, c)
<1>0. n \in Nat /\ n < 86400
      BY DEF InDay, TP!SecondsPerDay
<1>1. PICK p \in Nat, c \in Nat : n = 60 * p + c /\ c < 60 /\ p = n \div 60 /\ c = n % 60
      BY SMT, <1>0
<1>2. PICK h \in Nat, i \in Nat : p = 60 * h + i /\ i < 60 /\ i = p % 60
      BY SMT
<1>3. n = 3600 * h + (60 * i + c) /\ 60 * i + c \in Nat /\ 60 * i + c < 3600
      BY SMT, <1>1, <1>2
<1>4. n \div 3600 = h
      BY SMT, <1>0, <1>3
<1>5. h < 24
      BY SMT, <1>0, <1>3
<1>6. h \in 0..23 /\ i \in 0..59 /\ c \in 0..59
      BY SMT, <1>1, <1>2, <1>5
<1>7. SecondOfDay(h, i, c) = n
      BY SMT, <1>3 DEF SecondOfDay
<1>8. IsTime(n, h, i, c)
      BY SMT, <1>1, <1>2, <1>4, <1>7 DEF IsTime
<1> QED BY Zenon, <1>6, <1>8

\* The fields of a struct tm are those of a date that exists and of a time of the
\* day, and they are the second to which the time point was truncated.
IsTm(tm, day, sec) ==
    \E y \in Int, m \in 1..12, d \in Int, h \in 0..23, i \in 0..59, c \in 0..59 :
        /\ tm = [year |-> y, month |-> m, day |-> d, hours |-> h, minutes |-> i, seconds |-> c]
        /\ ValidDay(y, m, d)
        /\ TP!DayOf(y, m, d) = day
        /\ SecondOfDay(h, i, c) = sec

\* gmtime_r() fills a struct tm with the second to which to_time_t() truncated.
LEMMA UtcTm ==
    ASSUME NEW tp, TP!TruncatedSecond(tp).day \in Int, InDay(TP!TruncatedSecond(tp).sec)
    PROVE  IsTm(TP!AsUtcTm(tp), TP!TruncatedSecond(tp).day, TP!TruncatedSecond(tp).sec)
<1> DEFINE s == TP!TruncatedSecond(tp)
           n == s.sec
<1>1. PICK y \in Int, m \in 1..12, d \in Int :
          /\ TP!DateOf(s.day) = [year |-> y, month |-> m, day |-> d]
          /\ TP!DayOf(y, m, d) = s.day
          /\ ValidDay(y, m, d)
      <2> HIDE DEF s
      <2> QED BY Zenon, DateExists DEF s
<1>2. TP!DateOf(s.day).year = y /\ TP!DateOf(s.day).month = m /\ TP!DateOf(s.day).day = d
      BY SMT, <1>1
<1>3. PICK h \in 0..23, i \in 0..59, c \in 0..59 :
          /\ TP!AsUtcTm(tp) = [year |-> y, month |-> m, day |-> d, hours |-> h, minutes |-> i, seconds |-> c]
          /\ SecondOfDay(h, i, c) = n
      <2>1. PICK h \in 0..23, i \in 0..59, c \in 0..59 : IsTime(n, h, i, c)
            BY Zenon, ClockTime
      <2>2. TP!AsUtcTm(tp) = [year |-> y, month |-> m, day |-> d, hours |-> h, minutes |-> i, seconds |-> c]
            BY SMT, <1>2, <2>1 DEF TP!AsUtcTm, IsTime
      <2>3. SecondOfDay(h, i, c) = n
            BY SMT, <2>1 DEF IsTime
      <2> QED BY Zenon, <2>2, <2>3
<1> QED BY Zenon, <1>1, <1>3 DEF IsTm

\* The sums of ParseRfc3339() are in the range of time points, for a second of a
\* day, the offset of the zone, that of the text, and a fraction.
InRange(x, sec, std, off, ns) ==
    /\ TP!Representable(TP!TimePoint(x, sec - std, 0))
    /\ TP!Representable(TP!TimePoint(x, sec - std, ns))
    /\ TP!Representable(TP!TimePoint(x, (sec - std) + (-off), ns))
    /\ TP!Representable(TP!TimePoint(x, ((sec - std) + (-off)) + (-(-std)), ns))

\* ParseRfc3339() finds the time point that a text with the fields of a struct tm
\* says, if the cached offset is the one of the zone at its date and no sum
\* overflows.
LEMMA ParsesText ==
    ASSUME NEW tm, NEW x \in Int, NEW sec \in Int, IsTm(tm, x, sec),
           NEW f \in Fraction, TP!ValidFraction(f), NEW o \in ZoneOffset, TP!ValidOffset(o),
           NEW z, z.before \in Int, z.after \in Int, NEW t, t = TP!TextOf(tm, f, o)
    PROVE  /\ TP!DayOf(t.year, t.month, t.day) = x
           /\ InRange(x, sec, TP!StandardOffset(z, x), TP!OffsetSeconds(o), TP!FractionNanos(f)) =>
                 TP!ParseRfc3339(t, z, -TP!StandardOffset(z, x)) # TP!Overflow
           /\ TP!ParseRfc3339(t, z, -TP!StandardOffset(z, x)) # TP!Overflow =>
                 TP!ParseRfc3339(t, z, -TP!StandardOffset(z, x))
                     = TP!TimePoint(x, sec - TP!OffsetSeconds(o), TP!FractionNanos(f))
<1>1. PICK y \in Int, m \in 1..12, d \in Int, h \in 0..23, i \in 0..59, c \in 0..59 :
          /\ tm = [year |-> y, month |-> m, day |-> d, hours |-> h, minutes |-> i, seconds |-> c]
          /\ ValidDay(y, m, d)
          /\ TP!DayOf(y, m, d) = x
          /\ SecondOfDay(h, i, c) = sec
      BY Zenon DEF IsTm
<1>2. t = [scanned |-> TRUE, year |-> y, month |-> m, day |-> d, separator |-> "T",
           hours |-> h, minutes |-> i, seconds |-> c, fraction |-> f, offset |-> o, more |-> FALSE]
      <2>1. /\ tm.year = y /\ tm.month = m /\ tm.day = d
            /\ tm.hours = h /\ tm.minutes = i /\ tm.seconds = c
            BY Zenon, <1>1
      <2> QED BY Zenon, <2>1 DEF TP!TextOf
<1>3. /\ t.scanned = TRUE /\ t.year = y /\ t.month = m /\ t.day = d /\ t.separator = "T"
      /\ t.hours = h /\ t.minutes = i /\ t.seconds = c /\ t.fraction = f /\ t.offset = o /\ t.more = FALSE
      BY SMT, <1>2
<1>4. t \in AnyText
      <2>1. "T" \in Separators /\ TRUE \in BOOLEAN /\ FALSE \in BOOLEAN
            BY Zenon DEF Separators
      <2>2. m \in Int /\ h \in Int /\ i \in Int /\ c \in Int
            BY SMT
      <2>3. [scanned |-> TRUE, year |-> y, month |-> m, day |-> d, separator |-> "T",
             hours |-> h, minutes |-> i, seconds |-> c, fraction |-> f, offset |-> o, more |-> FALSE]
                \in AnyText
            BY Zenon, <2>1, <2>2, TextRecord
      <2> QED BY Zenon, <1>2, <2>3
<1> DEFINE std == TP!StandardOffset(z, x)
<1>5. TP!Valid(t)
      <2>1. c \in 0..60
            BY SMT
      <2>2. ValidDay(t.year, t.month, t.day)
            BY SMT, <1>1, <1>3
      <2>3. TP!ValidDateTime(t)
            BY Zenon, <1>3, <2>1, <2>2 DEF TP!ValidDateTime, ValidDay
      <2> QED BY Zenon, <1>3, <2>3 DEF TP!Valid
<1>6. TP!DayOf(t.year, t.month, t.day) = x /\ SecondOfDay(t.hours, t.minutes, t.seconds) = sec
      BY SMT, <1>1, <1>3
<1>7. t.hours \in Int /\ t.minutes \in Int /\ t.seconds \in Int
      BY SMT, <1>3
<1>8. TP!MkTime(z, t) = TP!TimePoint(x, sec - std, 0)
      <2>1. TP!MkTime(z, t)
                = TP!TimePoint(TP!DayOf(t.year, t.month, t.day),
                               SecondOfDay(t.hours, t.minutes, t.seconds)
                                   - TP!StandardOffset(z, TP!DayOf(t.year, t.month, t.day)), 0)
            <3>1. TP!StandardOffset(z, TP!DayOf(t.year, t.month, t.day)) \in Int
                  BY Zenon DEF TP!StandardOffset
            <3> QED BY SMT, <1>7, <3>1 DEF TP!MkTime, SecondOfDay
      <2> QED BY Zenon, <1>6, <2>1
<1> DEFINE off == TP!OffsetSeconds(o)
           ns == TP!FractionNanos(f)
<1>9. InRange(x, sec, std, off, ns) => TP!ParseRfc3339(t, z, -std) # TP!Overflow
      <2>1. std \in Int /\ off \in Int /\ ns \in Int
            BY Zenon, <1>3, <1>4, TextNumbers DEF TP!StandardOffset
      <2> HIDE DEF std, off, ns
      <2>2. /\ sec - std \in Int /\ -off \in Int /\ -(-std) \in Int /\ (sec - std) + (-off) \in Int
            BY SMT, <2>1
      <2>3. TP!Later(TP!TimePoint(x, sec - std, 0), 0, ns) = TP!TimePoint(x, sec - std, ns)
            BY SMT, <2>1, <2>2, LaterSum
      <2>4. TP!Later(TP!TimePoint(x, sec - std, ns), -off, 0) = TP!TimePoint(x, (sec - std) + (-off), ns)
            BY SMT, <2>1, <2>2, LaterSum
      <2>5. TP!Later(TP!TimePoint(x, (sec - std) + (-off), ns), -(-std), 0)
                = TP!TimePoint(x, ((sec - std) + (-off)) + (-(-std)), ns)
            BY SMT, <2>1, <2>2, LaterSum
      <2>6. TP!OffsetSeconds(t.offset) = off /\ TP!FractionNanos(t.fraction) = ns
            BY Zenon, <1>3 DEF off, ns
      <2>7. ASSUME InRange(x, sec, std, off, ns)
            PROVE  TP!ParseRfc3339(t, z, -std) = TP!TimePoint(x, ((sec - std) + (-off)) + (-(-std)), ns)
            <3>1. TP!ValidDateTime(t)
                  BY Zenon, <1>5 DEF TP!Valid
            <3> QED BY Zenon, <1>5, <1>8, <2>3, <2>4, <2>5, <2>6, <2>7, <3>1 DEF TP!ParseRfc3339, InRange
      <2> QED BY Zenon, <2>5, <2>7, NoError
<1> SUFFICES ASSUME TP!ParseRfc3339(t, z, -std) # TP!Overflow
             PROVE  TP!ParseRfc3339(t, z, -std) = TP!TimePoint(x, sec - TP!OffsetSeconds(o), TP!FractionNanos(f))
    BY Zenon, <1>6, <1>9
<1>10. TP!ParseRfc3339(t, z, -TP!StandardOffset(z, TP!DayOf(t.year, t.month, t.day)))
               = TP!TimePoint(TP!DayOf(t.year, t.month, t.day),
                              SecondOfDay(t.hours, t.minutes, t.seconds) - TP!OffsetSeconds(t.offset),
                              TP!FractionNanos(t.fraction))
      <2>1. TP!ParseRfc3339(t, z, -TP!StandardOffset(z, TP!DayOf(t.year, t.month, t.day)))
                \notin {TP!InvalidArgument, TP!Overflow}
            BY Zenon, <1>5, <1>6, RejectsInvalid
      <2>2. TP!ParseRfc3339(t, z, -TP!StandardOffset(z, TP!DayOf(t.year, t.month, t.day)))
               = TP!TimePoint(TP!DayOf(t.year, t.month, t.day),
                              3600 * t.hours + 60 * t.minutes + t.seconds - TP!OffsetSeconds(t.offset),
                              TP!FractionNanos(t.fraction))
            BY SMT, <1>4, <2>1, ParsesTimePoint
      <2>3. TP!OffsetSeconds(t.offset) \in Int
            BY Zenon, <1>4, TextNumbers
      <2> QED BY SMT, <1>7, <2>2, <2>3 DEF SecondOfDay
<1> QED BY SMT, <1>3, <1>6, <1>10

\* The time points of any day, and the fractions that FormatRfc3339() writes with
\* more characters than digits.
TimePoints == {tp \in [day : Int, sec : Nat, ns : Nat] : InDay(tp.sec) /\ tp.ns < TP!NanosPerSecond}
Wide(ns) == ns <= -100000000

\* The day and second that to_time_t() truncates a time point to, and the fraction.
LEMMA Truncated ==
    ASSUME NEW tp \in TimePoints
    PROVE  /\ TP!TruncatedSecond(tp).day \in Int /\ InDay(TP!TruncatedSecond(tp).sec)
           /\ TP!TruncatedSecond(tp).sec \in Int
           /\ TP!Fractional(tp) \in Int
           /\ TP!FormatFractional(TP!Fractional(tp)) \in Fraction
           /\ TP!ValidFraction(TP!FormatFractional(TP!Fractional(tp)))
           /\ TP!FractionNanos(TP!FormatFractional(TP!Fractional(tp))) \in Int
           /\ TP!FractionNanos(TP!FormatFractional(TP!Fractional(tp))) = TP!Fractional(tp)
                 <=> ~Wide(TP!Fractional(tp))
           /\ TP!TimePoint(TP!TruncatedSecond(tp).day, TP!TruncatedSecond(tp).sec, TP!Fractional(tp)) = tp
<1>1. PICK d \in Int, s \in Nat, n \in Nat :
          tp = [day |-> d, sec |-> s, ns |-> n] /\ s < 86400 /\ n < 1000000000
      BY SMT DEF TimePoints, InDay, TP!SecondsPerDay, TP!NanosPerSecond
<1>2. /\ TP!TruncatedSecond(tp).day \in d..(d + 1)
      /\ TP!TruncatedSecond(tp).sec \in Nat /\ TP!TruncatedSecond(tp).sec < 86400
      /\ TP!Fractional(tp) \in Int
      /\ -1000000000 < TP!Fractional(tp) /\ TP!Fractional(tp) < 1000000000
      /\ TP!TimePoint(TP!TruncatedSecond(tp).day, TP!TruncatedSecond(tp).sec, TP!Fractional(tp)) = tp
      BY SMT, <1>1, SecondAndFraction
<1>3. PICK ns \in Int : ns = TP!Fractional(tp)
      BY SMT, <1>2
<1>4. /\ TP!FormatFractional(ns) \in Fraction /\ TP!ValidFraction(TP!FormatFractional(ns))
      /\ TP!FractionNanos(TP!FormatFractional(ns)) \in Int
      /\ TP!FractionNanos(TP!FormatFractional(ns)) = ns <=> ns > -100000000
      BY SMT, <1>2, <1>3, FormattedFraction
<1>5. ns > -100000000 <=> ~Wide(ns)
      BY SMT DEF Wide
<1>6. TP!TruncatedSecond(tp).day \in Int /\ TP!TruncatedSecond(tp).sec \in Int /\ InDay(TP!TruncatedSecond(tp).sec)
      BY SMT, <1>2 DEF InDay, TP!SecondsPerDay
<1> QED BY SMT, <1>2, <1>3, <1>4, <1>5, <1>6

\* The offset that FormatRfc3339() writes.
LEMMA Utc == Z \in ZoneOffset /\ TP!ValidOffset(Z) /\ TP!OffsetSeconds(Z) = 0
<1>1. Z.sign = "Z"
      BY SMT DEF Z
<1>2. Z \in ZoneOffset
      BY Zenon DEF ZoneOffset
<1> QED BY SMT, <1>1, <1>2 DEF TP!ValidOffset, TP!OffsetSeconds

\* A time point of any day survives FormatRfc3339() and ParseRfc3339() in any zone
\* whose offset at its date is the cached one, if no sum overflows, if and only if
\* its fraction is not one that is written with more characters than digits.
THEOREM FormattedSurvives ==
    ASSUME NEW tp \in TimePoints, NEW z, z.before \in Int, z.after \in Int,
           NEW t, t = TP!FormatRfc3339(tp),
           TP!ParseRfc3339(t, z, -TP!StandardOffset(z, TP!DayOf(t.year, t.month, t.day))) # TP!Overflow
    PROVE  TP!ParseRfc3339(t, z, -TP!StandardOffset(z, TP!DayOf(t.year, t.month, t.day))) = tp
               <=> ~Wide(TP!Fractional(tp))
<1> DEFINE s == TP!TruncatedSecond(tp)
           ns == TP!Fractional(tp)
           f == TP!FormatFractional(ns)
<1>1. /\ s.day \in Int /\ InDay(s.sec) /\ s.sec \in Int /\ ns \in Int
      /\ f \in Fraction /\ TP!ValidFraction(f) /\ TP!FractionNanos(f) \in Int
      /\ TP!FractionNanos(f) = ns <=> ~Wide(ns)
      /\ TP!TimePoint(s.day, s.sec, ns) = tp
      BY Zenon, Truncated
<1>2. IsTm(TP!AsUtcTm(tp), s.day, s.sec)
      BY Zenon, <1>1, UtcTm
<1>3. t = TP!TextOf(TP!AsUtcTm(tp), f, Z)
      BY Zenon DEF TP!FormatRfc3339, Z
<1> HIDE DEF s, ns, f
<1>4. /\ TP!DayOf(t.year, t.month, t.day) = s.day
      /\ TP!ParseRfc3339(t, z, -TP!StandardOffset(z, s.day))
             = TP!TimePoint(s.day, s.sec - TP!OffsetSeconds(Z), TP!FractionNanos(f))
      BY SMT, <1>1, <1>2, <1>3, Utc, ParsesText
<1>5. s.sec - TP!OffsetSeconds(Z) = s.sec
      BY SMT, <1>1, Utc
<1>6. TP!TimePoint(s.day, s.sec, TP!FractionNanos(f)) = tp <=> TP!FractionNanos(f) = ns
      BY Zenon, <1>1, FractionsDiffer
<1> QED BY Zenon, <1>1, <1>4, <1>5, <1>6 DEF ns

\* The offset that another program writes, off minutes ahead of UTC.
WrittenOffset(off) ==
    LET a == IF off < 0 THEN -off ELSE off
    IN  [sign |-> IF off < 0 THEN "-" ELSE "+", scanned |-> TRUE, hours |-> a \div 60, minutes |-> a % 60]

\* Less than a day.
IsOffset(off) == off \in Int /\ -1440 < off /\ off < 1440

\* The parser finds the offset again.
LEMMA OffsetFound ==
    ASSUME NEW off, IsOffset(off)
    PROVE  /\ WrittenOffset(off) \in ZoneOffset /\ TP!ValidOffset(WrittenOffset(off))
           /\ TP!OffsetSeconds(WrittenOffset(off)) = 60 * off
<1> DEFINE a == IF off < 0 THEN -off ELSE off
           c == IF off < 0 THEN "-" ELSE "+"
<1>0. off \in Int /\ -1440 < off /\ off < 1440
      BY DEF IsOffset
<1>1. a \in Nat /\ a < 1440
      BY SMT, <1>0
<1>2. PICK h \in 0..23, m \in 0..59 : h = a \div 60 /\ m = a % 60 /\ 60 * h + m = a
      <2> HIDE DEF a
      <2>1. PICK h \in Nat, m \in Nat : h = a \div 60 /\ m = a % 60 /\ 60 * h + m = a /\ m < 60
            BY SMT, <1>1
      <2>2. h < 24
            BY SMT, <1>1, <2>1
      <2>3. h \in 0..23 /\ m \in 0..59
            BY SMT, <2>1, <2>2
      <2> QED BY SMT, <2>1, <2>3
<1>3. c \in {"+", "-"} /\ c \in Signs
      BY SMT DEF Signs
<1>4. WrittenOffset(off) = [sign |-> c, scanned |-> TRUE, hours |-> h, minutes |-> m]
      BY SMT, <1>2 DEF WrittenOffset
<1>5. PICK o : o = WrittenOffset(off)
      OBVIOUS
<1>6. o.sign = c /\ o.scanned = TRUE /\ o.hours = h /\ o.minutes = m
      BY SMT, <1>4, <1>5
<1>7. o \in ZoneOffset
      <2>1. h \in Int /\ m \in Int /\ TRUE \in BOOLEAN
            BY SMT
      <2> HIDE DEF c
      <2>2. [sign |-> c, scanned |-> TRUE, hours |-> h, minutes |-> m]
                \in [sign : Signs, scanned : BOOLEAN, hours : Int, minutes : Int]
            BY SMT, <1>3, <2>1
      <2> QED BY SMT, <1>4, <1>5, <2>2 DEF ZoneOffset
<1>8. TP!ValidOffset(o)
      BY SMT, <1>3, <1>6 DEF TP!ValidOffset
<1>9. TP!OffsetSeconds(o) = 60 * off
      <2>1. CASE off < 0
            BY SMT, <1>0, <1>2, <1>6, <2>1 DEF TP!OffsetSeconds
      <2>2. CASE ~(off < 0)
            BY SMT, <1>0, <1>2, <1>6, <2>2 DEF TP!OffsetSeconds
      <2> QED BY Zenon, <2>1, <2>2
<1> QED BY Zenon, <1>5, <1>7, <1>8, <1>9

\* The second of a time point in a zone that is off minutes ahead of UTC.
LocalSecond(tp, off) == TP!Later([tp EXCEPT !.ns = 0], 60 * off, 0)

\* It is a second of some day, and the offset and the fraction lead back to the time
\* point.
LEMMA LocalTime ==
    ASSUME NEW tp \in TimePoints, NEW off \in Int
    PROVE  /\ LocalSecond(tp, off).day \in Int /\ LocalSecond(tp, off).sec \in Int
           /\ InDay(LocalSecond(tp, off).sec)
           /\ TP!TruncatedSecond(LocalSecond(tp, off)) = LocalSecond(tp, off)
           /\ \A std \in Int : TP!TimePoint(LocalSecond(tp, off).day, LocalSecond(tp, off).sec - std, 0).day
                                   = tp.day + (tp.sec + (60 * off - std)) \div 86400
           /\ TP!TimePoint(LocalSecond(tp, off).day, LocalSecond(tp, off).sec - 60 * off, tp.ns) = tp
<1>1. PICK d \in Int, s \in Nat, n \in Nat :
          tp = [day |-> d, sec |-> s, ns |-> n] /\ s < 86400 /\ n < 1000000000
      BY SMT DEF TimePoints, InDay, TP!SecondsPerDay, TP!NanosPerSecond
<1>2. PICK e \in Int, r \in Nat : e = (s + 60 * off) \div 86400 /\ r = (s + 60 * off) % 86400
                                  /\ s + 60 * off = 86400 * e + r /\ r < 86400
      BY SMT
<1>3. LocalSecond(tp, off) = [day |-> d + e, sec |-> r, ns |-> 0]
      BY SMT, <1>1, <1>2 DEF LocalSecond, TP!Later, TP!TimePoint, TP!NanosPerSecond, TP!SecondsPerDay
<1>4. LocalSecond(tp, off).day = d + e /\ LocalSecond(tp, off).sec = r /\ LocalSecond(tp, off).ns = 0
      BY SMT, <1>3
<1>5. TP!TruncatedSecond(LocalSecond(tp, off)) = LocalSecond(tp, off)
      BY SMT, <1>3, <1>4 DEF TP!TruncatedSecond
<1>6. InDay(r)
      BY SMT, <1>2 DEF InDay, TP!SecondsPerDay
<1>7. ASSUME NEW std \in Int
      PROVE  TP!TimePoint(d + e, r - std, 0).day = d + (s + (60 * off - std)) \div 86400
      <2>1. TP!TimePoint(d + e, r - std, 0).day = (d + e) + (r - std) \div 86400
            BY SMT DEF TP!TimePoint, TP!NanosPerSecond, TP!SecondsPerDay
      <2>2. PICK k \in Int, q \in Nat : k = (r - std) \div 86400 /\ r - std = 86400 * k + q /\ q < 86400
            BY SMT
      <2>3. s + (60 * off - std) = 86400 * (e + k) + q
            BY SMT, <1>2, <2>2
      <2>4. (s + (60 * off - std)) \div 86400 = e + k
            BY SMT, <2>2, <2>3
      <2> QED BY SMT, <2>1, <2>2, <2>4
<1>8. TP!TimePoint(d + e, r - 60 * off, n) = tp
      <2>1. r - 60 * off = s - 86400 * e
            BY SMT, <1>2
      <2>2. TP!TimePoint(d + e, s - 86400 * e, n) = [day |-> d, sec |-> s, ns |-> n]
            BY SMT, <1>1 DEF TP!TimePoint, TP!NanosPerSecond, TP!SecondsPerDay
      <2> QED BY SMT, <1>1, <2>1, <2>2
<1>9. tp.day = d /\ tp.sec = s /\ tp.ns = n
      BY SMT, <1>1
<1> QED BY SMT, <1>4, <1>5, <1>6, <1>7, <1>8, <1>9

\* ParseRfc3339() finds a time point of any day that another program wrote with any
\* offset, in any zone whose offset at the date of the text is the cached one, if
\* no sum overflows.
THEOREM ForeignSurvives ==
    ASSUME NEW tp \in TimePoints, NEW off, IsOffset(off), NEW z, z.before \in Int, z.after \in Int,
           NEW t, t = TP!ForeignText(tp, off),
           TP!ParseRfc3339(t, z, -TP!StandardOffset(z, TP!DayOf(t.year, t.month, t.day))) # TP!Overflow
    PROVE  TP!ParseRfc3339(t, z, -TP!StandardOffset(z, TP!DayOf(t.year, t.month, t.day))) = tp
<1> DEFINE w == LocalSecond(tp, off)
           o == WrittenOffset(off)
           f == TP!FormatFractional(tp.ns)
<1>0. off \in Int
      BY SMT DEF IsOffset
<1>1. /\ w.day \in Int /\ w.sec \in Int /\ InDay(w.sec) /\ TP!TruncatedSecond(w) = w
      /\ TP!TimePoint(w.day, w.sec - 60 * off, tp.ns) = tp
      BY SMT, <1>0, LocalTime
<1>2. f \in Fraction /\ TP!ValidFraction(f) /\ TP!FractionNanos(f) = tp.ns
      <2>1. tp.ns \in Int /\ -1000000000 < tp.ns /\ tp.ns < 1000000000 /\ tp.ns > -100000000
            BY SMT DEF TimePoints, TP!NanosPerSecond
      <2> QED BY SMT, <2>1, FormattedFraction
<1>3. o \in ZoneOffset /\ TP!ValidOffset(o) /\ TP!OffsetSeconds(o) = 60 * off
      BY Zenon, OffsetFound
<1>4. t = TP!TextOf(TP!AsUtcTm(w), f, o)
      BY Zenon DEF TP!ForeignText, LocalSecond, WrittenOffset
<1> HIDE DEF w, o, f
<1>5. IsTm(TP!AsUtcTm(w), w.day, w.sec)
      BY SMT, <1>1, UtcTm
<1>6. /\ TP!DayOf(t.year, t.month, t.day) = w.day
      /\ TP!ParseRfc3339(t, z, -TP!StandardOffset(z, w.day))
             = TP!TimePoint(w.day, w.sec - TP!OffsetSeconds(o), TP!FractionNanos(f))
      BY SMT, <1>1, <1>2, <1>3, <1>4, <1>5, ParsesText
<1> QED BY Zenon, <1>1, <1>2, <1>3, <1>6

\* The fields of the V4 timestamp and of the log timestamp of a time point are its
\* second, and the nanoseconds of the latter lead back to it.
THEOREM TimestampFields ==
    ASSUME NEW tp \in TimePoints, NEW tm, tm = TP!AsUtcTm(tp)
    PROVE  /\ TP!DayOf(tm.year, tm.month, tm.day) = TP!TruncatedSecond(tp).day
           /\ SecondOfDay(tm.hours, tm.minutes, tm.seconds) = TP!TruncatedSecond(tp).sec
           /\ TP!TimePoint(TP!TruncatedSecond(tp).day, TP!TruncatedSecond(tp).sec, TP!LogTimestamp(tp).nanos) = tp
<1>1. IsTm(tm, TP!TruncatedSecond(tp).day, TP!TruncatedSecond(tp).sec)
      BY Zenon, Truncated, UtcTm
<1>2. PICK y \in Int, m \in 1..12, d \in Int, h \in 0..23, i \in 0..59, c \in 0..59 :
          /\ tm = [year |-> y, month |-> m, day |-> d, hours |-> h, minutes |-> i, seconds |-> c]
          /\ ValidDay(y, m, d)
          /\ TP!DayOf(y, m, d) = TP!TruncatedSecond(tp).day
          /\ SecondOfDay(h, i, c) = TP!TruncatedSecond(tp).sec
      BY Zenon, <1>1 DEF IsTm
<1>3. /\ tm.year = y /\ tm.month = m /\ tm.day = d
      /\ tm.hours = h /\ tm.minutes = i /\ tm.seconds = c
      BY SMT, <1>2
<1>4. TP!LogTimestamp(tp).nanos = TP!Fractional(tp)
      BY SMT DEF TP!LogTimestamp
<1> QED BY Zenon, <1>2, <1>3, <1>4, Truncated

-----------------------------------------------------------------------------
(* A process that formats and parses                                       *)

\* What the last call was given, what it returned, and that it used the cached
\* offset.
Given(tp) == \E d \in Day, s \in Second, n \in Nano : tp = [day |-> d, sec |-> s, ns |-> n]
ParsedText == \E o : kLocalTimeOffset = {o} /\ last.result = TP!ParseRfc3339(last.text, zone, o)
FormattedOK ==
    /\ zone \in Zone
    /\ last.call = "format" =>
          /\ Given(last.tp) /\ ParsedText /\ last.text = TP!FormatRfc3339(last.tp)
          /\ last.timestamp = TP!AsUtcTm(last.tp)
          /\ last.scope = <<last.timestamp.year, last.timestamp.month, last.timestamp.day>>
          /\ last.log = TP!LogTimestamp(last.tp)
    /\ last.call = "foreign" =>
          Given(last.tp) /\ ParsedText /\ \E off \in Offset : last.text = TP!ForeignText(last.tp, off)

\* Every call records what it was given and what it returned.
LEMMA FormattedStep == ParsedOK /\ FormattedOK /\ [Next]_vars => FormattedOK'
<1> SUFFICES ASSUME ParsedOK, FormattedOK, [Next]_vars PROVE FormattedOK'
    OBVIOUS
<1>1. CASE UNCHANGED <<zone, kLocalTimeOffset, last>>
      BY Zenon, <1>1 DEF FormattedOK, ParsedText
<1>2. CASE TP!Next
      <2>1. PICK o : TP!CachedOffset = {o} /\ TP!Cached = o
            <3>1. PICK o : TP!CachedOffset = {o}
                  BY Zenon DEF ParsedOK, TP!CachedOffset
            <3> QED BY Zenon, <3>1 DEF TP!Cached
      <2>2. ASSUME zone' \in Zone, last'.call \notin {"format", "foreign"} PROVE FormattedOK'
            BY Zenon, <2>2 DEF FormattedOK
      <2>3. ASSUME NEW t, TP!Parse(t) PROVE FormattedOK'
            <3>1. last'.call = "parse" /\ zone' = zone
                  BY Zenon, <2>3 DEF TP!Parse
            <3> QED BY Zenon, <2>2, <3>1 DEF FormattedOK
      <2>4. ASSUME NEW tp, Given(tp), TP!FormatAndParse(tp) PROVE FormattedOK'
            <3>1. kLocalTimeOffset' = {o} /\ zone' = zone
                  BY Zenon, <2>1, <2>4 DEF TP!FormatAndParse
            <3> DEFINE text == TP!FormatRfc3339(tp)
                       tm == TP!AsUtcTm(tp)
            <3>2. last' = [call |-> "format", tp |-> tp, text |-> text, timestamp |-> tm,
                           scope |-> <<tm.year, tm.month, tm.day>>, log |-> TP!LogTimestamp(tp),
                           result |-> TP!ParseRfc3339(text, zone, o)]
                  BY Zenon, <2>1, <2>4
                     DEF TP!FormatAndParse, TP!FormatV4SignedUrlTimestamp, TP!FormatV4SignedUrlScope
            <3> HIDE DEF text, tm
            <3>3. /\ last'.call = "format" /\ last'.tp = tp /\ last'.text = text /\ last'.timestamp = tm
                  /\ last'.scope = <<tm.year, tm.month, tm.day>> /\ last'.log = TP!LogTimestamp(tp)
                  /\ last'.result = TP!ParseRfc3339(text, zone, o)
                  BY Zenon, <3>2
            <3>4. ParsedText'
                  BY Zenon, <3>1, <3>3 DEF ParsedText
            <3> QED BY Zenon, <2>4, <3>1, <3>3, <3>4 DEF FormattedOK, Given, text, tm
      <2>5. ASSUME NEW tp, Given(tp), NEW off \in Offset, TP!ParseForeign(tp, off) PROVE FormattedOK'
            <3>1. kLocalTimeOffset' = {o} /\ zone' = zone
                  BY Zenon, <2>1, <2>5 DEF TP!ParseForeign
            <3>2. last' = [call |-> "foreign", tp |-> tp, text |-> TP!ForeignText(tp, off),
                           result |-> TP!ParseRfc3339(TP!ForeignText(tp, off), zone, o)]
                  BY Zenon, <2>1, <2>5 DEF TP!ParseForeign
            <3>3. /\ last'.call = "foreign" /\ last'.tp = tp /\ last'.text = TP!ForeignText(tp, off)
                  /\ last'.result = TP!ParseRfc3339(TP!ForeignText(tp, off), zone, o)
                  BY Zenon, <3>2
            <3>4. ParsedText'
                  BY Zenon, <3>1, <3>3 DEF ParsedText
            <3> QED BY Zenon, <2>5, <3>1, <3>3, <3>4 DEF FormattedOK, Given
      <2>6. CASE TP!Used
            <3>1. last'.call = "none" /\ zone' = zone
                  BY Zenon, <2>6 DEF TP!Used
            <3> QED BY Zenon, <2>2, <3>1 DEF FormattedOK
      <2>7. CASE TP!ChangeZone
            <3>1. last.call = "none" /\ last' = last /\ zone' \in Zone
                  BY Zenon, <2>7 DEF TP!ChangeZone
            <3> QED BY Zenon, <2>2, <3>1
      <2>8. ASSUME NEW d \in Day, NEW s \in Second, NEW n \in Nano
            PROVE  Given([day |-> d, sec |-> s, ns |-> n])
            BY Zenon DEF Given
      <2> QED BY Zenon, <1>2, <2>3, <2>4, <2>5, <2>6, <2>7, <2>8 DEF TP!Next
<1> QED BY Zenon, <1>1, <1>2 DEF Next, vars, time

\* A time point of the instance, in each of its zones: the arguments and the local
\* time are in the range of the theorems.
LEMMA InstanceRange ==
    /\ \A tp : Given(tp) => tp \in TimePoints /\ -106750 <= tp.day /\ tp.day <= 106749
    /\ \A off \in Offset : IsOffset(off)
    /\ \A z \in Zone : /\ z.before \in Int /\ 0 <= z.before /\ z.before <= 19800
                       /\ z.after \in Int /\ 0 <= z.after /\ z.after <= 19800
    /\ \A off \in Offset : -480 <= off /\ off <= 1439
<1>1. ASSUME NEW tp, Given(tp) PROVE tp \in TimePoints /\ -106750 <= tp.day /\ tp.day <= 106749
      <2>1. PICK d \in Day, s \in Second, n \in Nano : tp = [day |-> d, sec |-> s, ns |-> n]
            BY SMT, <1>1 DEF Given
      <2>2. d \in Int /\ -106750 <= d /\ d <= 106749
            BY SMT DEF Day
      <2>3. s \in Nat /\ s < 86400
            BY SMT DEF Second
      <2>4. n \in Nat /\ n < 1000000000
            BY SMT DEF Nano
      <2> QED BY SMT, <2>1, <2>2, <2>3, <2>4 DEF TimePoints, InDay, TP!SecondsPerDay, TP!NanosPerSecond
<1>2. \A off \in Offset : off \in Int /\ -480 <= off /\ off <= 1439
      BY SMT DEF Offset
<1>3. \A off \in Offset : IsOffset(off)
      BY SMT, <1>2 DEF IsOffset
<1>4. \A z \in Zone : /\ z.before \in Int /\ 0 <= z.before /\ z.before <= 19800
                      /\ z.after \in Int /\ 0 <= z.after /\ z.after <= 19800
      BY SMT DEF Zone
<1> QED BY SMT, <1>1, <1>2, <1>3, <1>4

\* The bounds of the instance, and that x and sec are the time point in a zone that
\* is off minutes ahead of UTC.
DayBound(d) == d \in Int /\ -106750 <= d /\ d <= 106749
OffsetBound(off) == off \in Int /\ -480 <= off /\ off <= 1439
ZoneBound(std) == std \in Int /\ 0 <= std /\ std <= 19800
IsLocal(x, sec, tp, off) ==
    \A k \in Int : TP!TimePoint(x, sec - k, 0).day = tp.day + (tp.sec + (60 * off - k)) \div 86400

\* The sums of ParseRfc3339() are in range, for a second of the local time.
LEMMA SumsInRange ==
    ASSUME NEW tp \in TimePoints, DayBound(tp.day), NEW off, OffsetBound(off), NEW std, ZoneBound(std),
           NEW x \in Int, NEW sec \in Int, IsLocal(x, sec, tp, off)
    PROVE  InRange(x, sec, std, 60 * off, tp.ns)
<1> DEFINE Within(k) == -86400 <= tp.sec + (60 * off - k) /\ tp.sec + (60 * off - k) < 172800
<1>0. off \in Int /\ std \in Int /\ 60 * off \in Int
      BY SMT DEF OffsetBound, ZoneBound
<1>1. PICK d \in Int, s \in Nat, n \in Nat :
          tp.day = d /\ tp.sec = s /\ tp.ns = n /\ s < 86400 /\ n < 1000000000
      BY SMT DEF TimePoints, InDay, TP!SecondsPerDay, TP!NanosPerSecond
<1>2. ASSUME NEW k \in Int, Within(k)
      PROVE  TP!Representable(TP!TimePoint(x, sec - k, 0)) /\ TP!Representable(TP!TimePoint(x, sec - k, tp.ns))
      <2>1. TP!TimePoint(x, sec - k, 0).day = d + (s + (60 * off - k)) \div 86400
            BY SMT, <1>0, <1>1 DEF IsLocal
      <2>2. TP!TimePoint(x, sec - k, tp.ns).day = TP!TimePoint(x, sec - k, 0).day
            BY SMT, <1>1 DEF TP!TimePoint, TP!NanosPerSecond, TP!SecondsPerDay
      <2>3. (s + (60 * off - k)) \div 86400 \in {-1, 0, 1}
            BY SMT, <1>0, <1>1, <1>2
      <2> QED BY SMT, <1>1, <2>1, <2>2, <2>3 DEF TP!Representable, DayBound
<1>3. /\ std \in Int /\ Within(std)
      /\ std + 60 * off \in Int /\ Within(std + 60 * off)
      /\ 60 * off \in Int /\ Within(60 * off)
      BY SMT, <1>0, <1>1 DEF OffsetBound, ZoneBound
<1>4. /\ sec - (std + 60 * off) = (sec - std) + (-(60 * off))
      /\ sec - 60 * off = ((sec - std) + (-(60 * off))) + (-(-std))
      BY SMT, <1>0
<1> HIDE DEF Within
<1>5. /\ TP!Representable(TP!TimePoint(x, sec - std, 0)) /\ TP!Representable(TP!TimePoint(x, sec - std, tp.ns))
      /\ TP!Representable(TP!TimePoint(x, sec - (std + 60 * off), tp.ns))
      /\ TP!Representable(TP!TimePoint(x, sec - 60 * off, tp.ns))
      BY Zenon, <1>2, <1>3
<1> QED BY Zenon, <1>4, <1>5 DEF InRange

\* No sum of ParseRfc3339() overflows on the texts of the instance.
LEMMA NoOverflow ==
    ASSUME NEW tp, Given(tp), NEW z \in Zone, NEW t
    PROVE  (\/ t = TP!FormatRfc3339(tp) /\ TP!Fractional(tp) >= 0
            \/ \E off \in Offset : t = TP!ForeignText(tp, off)) =>
               TP!ParseRfc3339(t, z, -TP!StandardOffset(z, TP!DayOf(t.year, t.month, t.day))) # TP!Overflow
<1>1. tp \in TimePoints /\ -106750 <= tp.day /\ tp.day <= 106749
      BY SMT, InstanceRange
<1>2. PICK d \in Int, s \in Nat, n \in Nat :
          tp = [day |-> d, sec |-> s, ns |-> n] /\ s < 86400 /\ n < 1000000000
      BY SMT, <1>1 DEF TimePoints, InDay, TP!SecondsPerDay, TP!NanosPerSecond
<1>3. z.before \in Int /\ z.after \in Int
      BY SMT, InstanceRange
<1>4. \A x : TP!StandardOffset(z, x) \in Int /\ 0 <= TP!StandardOffset(z, x) /\ TP!StandardOffset(z, x) <= 19800
      BY SMT, InstanceRange DEF TP!StandardOffset
<1>5. ASSUME t = TP!FormatRfc3339(tp), TP!Fractional(tp) >= 0
      PROVE  TP!ParseRfc3339(t, z, -TP!StandardOffset(z, TP!DayOf(t.year, t.month, t.day))) # TP!Overflow
      <2> DEFINE f == TP!FormatFractional(TP!Fractional(tp))
      <2>1. tp.day = d /\ tp.sec = s /\ tp.ns = n
            BY SMT, <1>2
      <2>2. TP!Fractional(tp) = n /\ TP!TruncatedSecond(tp) = [day |-> d, sec |-> s, ns |-> 0]
            BY SMT, <1>2, <1>5, <2>1 DEF TP!Fractional, TP!TruncatedSecond, TP!NanosPerSecond
      <2>3. /\ TP!TruncatedSecond(tp).day = d /\ TP!TruncatedSecond(tp).sec = s /\ InDay(s)
            BY SMT, <1>2, <2>2 DEF InDay, TP!SecondsPerDay
      <2>4. f \in Fraction /\ TP!ValidFraction(f) /\ TP!FractionNanos(f) = n
            <3>1. n \in Int /\ -1000000000 < n /\ n < 1000000000 /\ n > -100000000
                  BY SMT, <1>2
            <3> QED BY SMT, <2>2, <3>1, FormattedFraction
      <2>5. IsTm(TP!AsUtcTm(tp), d, s)
            BY SMT, <2>3, UtcTm
      <2>6. t = TP!TextOf(TP!AsUtcTm(tp), f, Z)
            BY SMT, <1>5 DEF TP!FormatRfc3339, Z
      <2> HIDE DEF f
      <2>7. \A k \in Int : TP!TimePoint(d, s - k, 0).day = d + (s + (60 * 0 - k)) \div 86400
            BY SMT DEF TP!TimePoint, TP!NanosPerSecond, TP!SecondsPerDay
      <2>8. InRange(d, s, TP!StandardOffset(z, d), 60 * 0, n)
            <3>1. DayBound(tp.day) /\ OffsetBound(0) /\ ZoneBound(TP!StandardOffset(z, d)) /\ s \in Int
                  BY SMT, <1>1, <1>4, <2>1 DEF DayBound, OffsetBound, ZoneBound
            <3>2. IsLocal(d, s, tp, 0)
                  BY SMT, <2>1, <2>7 DEF IsLocal
            <3>3. InRange(d, s, TP!StandardOffset(z, d), 60 * 0, tp.ns)
                  BY SMT, <1>1, <3>1, <3>2, SumsInRange
            <3> QED BY SMT, <2>1, <3>3
      <2>9. InRange(d, s, TP!StandardOffset(z, d), TP!OffsetSeconds(Z), TP!FractionNanos(f))
            BY SMT, <2>4, <2>8, Utc
      <2> QED BY SMT, <1>3, <2>4, <2>5, <2>6, <2>9, Utc, ParsesText
<1>6. ASSUME NEW off \in Offset, t = TP!ForeignText(tp, off)
      PROVE  TP!ParseRfc3339(t, z, -TP!StandardOffset(z, TP!DayOf(t.year, t.month, t.day))) # TP!Overflow
      <2> DEFINE w == LocalSecond(tp, off)
                 o == WrittenOffset(off)
                 f == TP!FormatFractional(tp.ns)
      <2>0. off \in Int /\ -480 <= off /\ off <= 1439 /\ IsOffset(off)
            BY SMT, InstanceRange DEF IsOffset
      <2>1. /\ w.day \in Int /\ w.sec \in Int /\ InDay(w.sec) /\ TP!TruncatedSecond(w) = w
            /\ \A k \in Int : TP!TimePoint(w.day, w.sec - k, 0).day
                                  = tp.day + (tp.sec + (60 * off - k)) \div 86400
            BY SMT, <1>1, <2>0, LocalTime
      <2>2. f \in Fraction /\ TP!ValidFraction(f) /\ TP!FractionNanos(f) = tp.ns
            <3>1. tp.ns \in Int /\ -1000000000 < tp.ns /\ tp.ns < 1000000000 /\ tp.ns > -100000000
                  BY SMT, <1>2
            <3> QED BY SMT, <3>1, FormattedFraction
      <2>3. o \in ZoneOffset /\ TP!ValidOffset(o) /\ TP!OffsetSeconds(o) = 60 * off
            BY SMT, <2>0, OffsetFound
      <2>4. t = TP!TextOf(TP!AsUtcTm(w), f, o)
            BY SMT, <1>6 DEF TP!ForeignText, LocalSecond, WrittenOffset
      <2> HIDE DEF w, o, f
      <2>5. IsTm(TP!AsUtcTm(w), w.day, w.sec)
            BY SMT, <2>1, UtcTm
      <2>6. InRange(w.day, w.sec, TP!StandardOffset(z, w.day), 60 * off, tp.ns)
            <3>1. DayBound(tp.day) /\ OffsetBound(off) /\ ZoneBound(TP!StandardOffset(z, w.day))
                  BY SMT, <1>1, <1>2, <1>4, <2>0 DEF DayBound, OffsetBound, ZoneBound
            <3>2. IsLocal(w.day, w.sec, tp, off)
                  BY SMT, <2>1 DEF IsLocal
            <3> QED BY SMT, <1>1, <2>1, <3>1, <3>2, SumsInRange
      <2>7. InRange(w.day, w.sec, TP!StandardOffset(z, w.day), TP!OffsetSeconds(o), TP!FractionNanos(f))
            BY SMT, <2>2, <2>3, <2>6
      <2> QED BY SMT, <1>3, <2>1, <2>2, <2>3, <2>4, <2>5, <2>7, ParsesText
<1> QED BY Zenon, <1>5, <1>6

\* In any sequence of calls, time points survive FormatRfc3339() and ParseRfc3339(),
\* with the exceptions that the property names.
THEOREM TimePointsSurvive == Spec => []RoundTrip
<1>1. Init => ParsedOK /\ FormattedOK
      <2> SUFFICES ASSUME Init PROVE ParsedOK /\ FormattedOK
          OBVIOUS
      <2>1. zone \in Zone /\ kLocalTimeOffset = {} /\ last = [call |-> "none"]
            BY Zenon DEF Init, TP!Init
      <2>2. zone.before \in Int /\ zone.after \in Int
            BY SMT, <2>1, InstanceRange
      <2>3. last.call = "none"
            BY Zenon, <2>1
      <2> QED BY Zenon, <2>1, <2>2, <2>3 DEF ParsedOK, FormattedOK
<1>2. ParsedOK /\ FormattedOK /\ [Next]_vars => (ParsedOK /\ FormattedOK)'
      BY ParsedStep, FormattedStep
<1>3. FormattedOK => RoundTrip
      <2> SUFFICES ASSUME FormattedOK PROVE TP!RoundTrip
          BY Zenon DEF RoundTrip
      <2> DEFINE tp == last.tp
                 t == last.text
                 tm == last.timestamp
                 s == TP!TruncatedSecond(tp)
      <2>1. zone \in Zone /\ zone.before \in Int /\ zone.after \in Int
            BY SMT, InstanceRange DEF FormattedOK
      <2>2. ASSUME last.call \in {"format", "foreign"}
            PROVE  tp \in TimePoints /\ Given(tp) /\ ParsedText
            BY SMT, <2>2, InstanceRange DEF FormattedOK
      <2>3. ASSUME ParsedText, TP!OffsetIsCurrent(t)
            PROVE  last.result = TP!ParseRfc3339(t, zone, -TP!StandardOffset(zone, TP!DayOf(t.year, t.month, t.day)))
            BY Zenon, <2>3 DEF ParsedText, TP!OffsetIsCurrent
      <2>4. ASSUME last.call = "format", TP!Fractional(tp) >= 0, TP!OffsetIsCurrent(t)
            PROVE  last.result = tp
            <3>1. t = TP!FormatRfc3339(tp)
                  BY Zenon, <2>4 DEF FormattedOK
            <3>2. TP!ParseRfc3339(t, zone, -TP!StandardOffset(zone, TP!DayOf(t.year, t.month, t.day))) # TP!Overflow
                  BY Zenon, <2>1, <2>2, <2>4, <3>1, NoOverflow
            <3> HIDE DEF tp, t
            <3>3. tp \in TimePoints
                  BY Zenon, <2>2, <2>4
            <3>4. ~Wide(TP!Fractional(tp))
                  BY SMT, <2>4, <3>3, Truncated DEF Wide
            <3> QED BY SMT, <2>1, <2>2, <2>3, <2>4, <3>1, <3>2, <3>4, FormattedSurvives
      <2>5. ASSUME last.call = "foreign", TP!OffsetIsCurrent(t)
            PROVE  last.result = tp
            <3>1. PICK off \in Offset : t = TP!ForeignText(tp, off)
                  BY Zenon, <2>5 DEF FormattedOK
            <3>2. TP!ParseRfc3339(t, zone, -TP!StandardOffset(zone, TP!DayOf(t.year, t.month, t.day))) # TP!Overflow
                  BY Zenon, <2>1, <2>2, <2>5, <3>1, NoOverflow
            <3>3. IsOffset(off)
                  BY SMT, InstanceRange
            <3> HIDE DEF tp, t
            <3> QED BY SMT, <2>1, <2>2, <2>3, <2>5, <3>1, <3>2, <3>3, ForeignSurvives
      <2>6. ASSUME last.call = "format"
            PROVE  /\ TP!DayOf(tm.year, tm.month, tm.day) = s.day
                   /\ SecondOfDay(tm.hours, tm.minutes, tm.seconds) = s.sec
                   /\ last.scope = <<tm.year, tm.month, tm.day>>
                   /\ last.log.tm = tm
                   /\ TP!TimePoint(s.day, s.sec, last.log.nanos) = tp
            <3>1. /\ tm = TP!AsUtcTm(tp) /\ last.scope = <<tm.year, tm.month, tm.day>>
                  /\ last.log = TP!LogTimestamp(tp)
                  BY Zenon, <2>6 DEF FormattedOK
            <3>2. last.log.tm = tm
                  BY SMT, <3>1 DEF TP!LogTimestamp
            <3> HIDE DEF tp, tm
            <3> QED BY Zenon, <2>2, <2>6, <3>1, <3>2, TimestampFields DEF s
      <2> QED BY SMT, <2>4, <2>5, <2>6 DEF TP!RoundTrip, SecondOfDay
<1> QED BY <1>1, <1>2, <1>3, PTL DEF Spec

-----------------------------------------------------------------------------
(* Powers of Base                                                          *)

\* f is the power function, up to n.
IsPower(f, n) == f[0] = 1 /\ \A i \in 1..n : f[i] = Base * f[i - 1]

\* No two functions are.
LEMMA PowerUnique ==
    ASSUME NEW n \in Nat, NEW f, NEW g, IsPower(f, n), IsPower(g, n)
    PROVE  f[n] = g[n]
<1> DEFINE S == {i \in Nat : i <= n => f[i] = g[i]}
<1>1. 0 \in S
      BY SMT DEF IsPower
<1>2. ASSUME NEW i \in Nat, i \in S PROVE i + 1 \in S
      BY SMT, <1>2 DEF IsPower
<1>3. n \in S
      <2> HIDE DEF S
      <2> QED BY Zenon, <1>1, <1>2, SetInduction
<1> QED BY SMT, <1>3

\* There is such a function: a table up to n can be continued with n + 1.
LEMMA PowerExists ==
    \A n \in Nat : \E f \in [0..n -> Nat \ {0}] : IsPower(f, n)
<1> DEFINE S == {n \in Nat : \E f \in [0..n -> Nat \ {0}] : IsPower(f, n)}
<1>0. Base \in Nat \ {0}
      BY IntegralAssumption DEF BE!Integral
<1>1. 0 \in S
      <2> DEFINE f == [i \in 0..0 |-> 1]
      <2>1. f \in [0..0 -> Nat \ {0}] /\ IsPower(f, 0)
            BY SMT DEF IsPower
      <2> QED BY <2>1
<1>2. ASSUME NEW n \in Nat, n \in S PROVE n + 1 \in S
      <2>1. PICK f \in [0..n -> Nat \ {0}] : IsPower(f, n)
            BY <1>2
      <2> DEFINE g == [i \in 0..(n + 1) |-> IF i = n + 1 THEN Base * f[n] ELSE f[i]]
      <2>2. f[n] \in Nat \ {0}
            BY SMT
      <2>3. Base * f[n] \in Nat \ {0}
            BY SMT, <1>0, <2>2
      <2>4. g \in [0..(n + 1) -> Nat \ {0}]
            BY SMT, <2>3
      <2>5. IsPower(g, n + 1)
            BY SMT, <2>1 DEF IsPower
      <2> QED BY <2>4, <2>5
<1> HIDE DEF S
<1>3. \A n \in Nat : n \in S
      BY Zenon, <1>1, <1>2, SetInduction
<1> QED BY <1>3 DEF S

\* The recursive definition of Power defines a function.
LEMMA PowerDef ==
    /\ BE!Power[0] = 1
    /\ \A n \in Nat : /\ BE!Power[n] \in Nat \ {0}
                      /\ BE!Power[n + 1] = Base * BE!Power[n]
<1> DEFINE F(n) == CHOOSE f \in [0..n -> Nat \ {0}] : IsPower(f, n)
           g == [n \in Nat |-> F(n)[n]]
           p == BE!Power
<1>1. ASSUME NEW n \in Nat PROVE F(n) \in [0..n -> Nat \ {0}] /\ IsPower(F(n), n)
      BY Zenon, PowerExists
<1> HIDE DEF F
<1>2. ASSUME NEW n \in Nat \ {0} PROVE g[n] = Base * g[n - 1]
      <2>1. IsPower(F(n), n) /\ IsPower(F(n - 1), n - 1) /\ n - 1 \in Nat
            BY SMT, <1>1
      <2>2. IsPower(F(n), n - 1)
            BY SMT, <2>1 DEF IsPower
      <2>3. F(n)[n - 1] = F(n - 1)[n - 1]
            BY Zenon, <2>1, <2>2, PowerUnique
      <2>4. F(n)[n] = Base * F(n)[n - 1]
            BY SMT, <2>1 DEF IsPower
      <2> QED BY SMT, <2>1, <2>3, <2>4
<1>3. g[0] = 1
      BY SMT, <1>1 DEF IsPower
<1>4. g = [n \in Nat |-> IF n = 0 THEN 1 ELSE Base * g[n - 1]]
      BY SMT, <1>2, <1>3
<1> HIDE DEF g
<1>5. p = [n \in Nat |-> IF n = 0 THEN 1 ELSE Base * p[n - 1]]
      BY Zenon, <1>4 DEF BE!Power
<1> HIDE DEF p
<1>6. p[0] = 1 /\ \A n \in Nat : p[n + 1] = Base * p[n]
      BY SMT, <1>5
<1>7. ASSUME NEW n \in Nat PROVE p[n] \in Nat \ {0}
      <2>1. IsPower(p, n)
            BY SMT, <1>6 DEF IsPower
      <2>2. p[n] = F(n)[n]
            BY Zenon, <1>1, <2>1, PowerUnique
      <2> QED BY SMT, <1>1, <2>2
<1> QED BY Zenon, <1>6, <1>7 DEF p

-----------------------------------------------------------------------------
(* BigEndian                                                               *)

\* Division by one divisor after the other.
LEMMA QuotientOfQuotient ==
    ASSUME NEW u \in Nat, NEW p \in Nat \ {0}, NEW b \in Nat \ {0}
    PROVE  (u \div p) \div b = u \div (b * p)
<1> DEFINE x == u \div p
           r == u % p
           q == x \div b
           s == x % b
<1>1. x \in Nat /\ r \in 0..(p - 1) /\ u = p * x + r
      BY SMT
<1>2. q \in Nat /\ s \in 0..(b - 1) /\ x = b * q + s
      <2> HIDE DEF x
      <2> QED BY SMT, <1>1
<1>3. b * p \in Nat \ {0}
      BY SMT
<1> HIDE DEF x, r, q, s
<1>4. u = (b * p) * q + (p * s + r)
      BY SMT, <1>1, <1>2
<1>5. p * s + r \in 0..(b * p - 1)
      <2>1. p * s \in Nat
            BY SMT, <1>2
      <2>2. p * s <= p * (b - 1)
            BY SMT, <1>2
      <2>3. p * (b - 1) = b * p - p
            BY SMT
      <2> QED BY SMT, <1>1, <1>3, <2>1, <2>2, <2>3
<1>6. \A d \in Nat \ {0}, y, z \in Nat : z < d => (d * y + z) \div d = y
      OBVIOUS
<1>7. u \div (b * p) = q
      BY SMT, <1>2, <1>3, <1>4, <1>5, <1>6
<1> QED BY Zenon, <1>7 DEF q, x

\* What DecodeBigEndian() has collected after i of the bytes of u: its i most
\* significant ones, in their place.
Collected(u, size) == [i \in 0..size |-> (u \div BE!Power[size - i]) * BE!Power[size - i]]

\* One more byte of u
LEMMA CollectsByte ==
    ASSUME NEW u \in Nat, NEW p \in Nat \ {0}, NEW b \in Nat \ {0}
    PROVE  (u \div (b * p)) * (b * p) + ((u \div p) % b) * p = (u \div p) * p
<1> DEFINE x == u \div p
           q == x \div b
           s == x % b
<1>1. x \in Nat
      BY SMT
<1> HIDE DEF x
<1>2. q \in Nat /\ s \in Nat /\ x = b * q + s
      BY SMT, <1>1
<1> HIDE DEF q, s
<1>3. q * (b * p) + s * p = x * p
      BY SMT, <1>2
<1>4. u \div (b * p) = q
      BY Zenon, QuotientOfQuotient DEF q, x
<1> QED BY Zenon, <1>3, <1>4 DEF x, s

\* The function that Or defines for some bytes
IsOr(f, bytes, size) ==
    f = [i \in 0..size |-> IF i = 0 THEN 0 ELSE f[i - 1] + bytes[i] * BE!Power[size - i]]

\* Only one function collects the bytes in this way, which is the one in Or().
LEMMA OrUnique ==
    ASSUME NEW size \in Nat, NEW bytes, NEW f, NEW g, IsOr(f, bytes, size), IsOr(g, bytes, size)
    PROVE  f[size] = g[size]
<1> DEFINE S == {i \in Nat : i <= size => f[i] = g[i]}
<1>1. /\ f[0] = 0 /\ g[0] = 0
      /\ \A i \in 1..size : f[i] = f[i - 1] + bytes[i] * BE!Power[size - i]
      /\ \A i \in 1..size : g[i] = g[i - 1] + bytes[i] * BE!Power[size - i]
      BY SMT DEF IsOr
<1>2. 0 \in S
      BY SMT, <1>1
<1>3. ASSUME NEW i \in Nat, i \in S PROVE i + 1 \in S
      BY SMT, <1>1, <1>3
<1>4. size \in S
      <2> HIDE DEF S
      <2> QED BY Zenon, <1>2, <1>3, SetInduction
<1> QED BY SMT, <1>4

\* The loop of DecodeBigEndian() puts the bytes of a number together again, for
\* any size and any number of values of a byte.
LEMMA OrOfBytes ==
    ASSUME NEW size \in Nat, NEW u \in Nat, u < BE!Power[size], NEW bytes,
           Len(bytes) = size, \A i \in 1..size : bytes[i] = (u \div BE!Power[size - i]) % Base
    PROVE  BE!Or(bytes) = u
<1> DEFINE g == Collected(u, size)
<1>0. Base \in Nat \ {0}
      BY IntegralAssumption DEF BE!Integral
<1>1. g[0] = 0
      <2>1. \A p \in Nat \ {0} : u < p => (u \div p) * p = 0
            OBVIOUS
      <2>2. BE!Power[size - 0] = BE!Power[size]
            BY SMT
      <2>3. g[0] = (u \div BE!Power[size]) * BE!Power[size]
            BY SMT, <2>2 DEF Collected
      <2> QED BY Zenon, <2>1, <2>3, PowerDef
<1>2. ASSUME NEW i \in 1..size PROVE g[i] = g[i - 1] + bytes[i] * BE!Power[size - i]
      <2> DEFINE p == BE!Power[size - i]
      <2>1. size - i \in Nat /\ size - (i - 1) = (size - i) + 1
            BY SMT
      <2>2. p \in Nat \ {0} /\ BE!Power[size - (i - 1)] = Base * p
            BY Zenon, <2>1, PowerDef
      <2>3. g[i] = (u \div p) * p /\ g[i - 1] = (u \div (Base * p)) * (Base * p)
            BY SMT, <2>2 DEF Collected
      <2>4. bytes[i] = (u \div p) % Base
            BY Zenon
      <2> HIDE DEF p, g
      <2>5. (u \div (Base * p)) * (Base * p) + ((u \div p) % Base) * p = (u \div p) * p
            BY Zenon, <1>0, <2>2, CollectsByte
      <2> QED BY Zenon, <2>3, <2>4, <2>5 DEF p
<1>3. g = [i \in 0..size |-> g[i]]
      BY SMT DEF Collected
<1>4. g[size] = u
      <2>1. BE!Power[size - size] = 1
            BY SMT, PowerDef
      <2> QED BY SMT, <2>1 DEF Collected
<1> HIDE DEF g
<1>5. IsOr(g, bytes, size)
      <2> DEFINE e(i) == IF i = 0 THEN 0 ELSE g[i - 1] + bytes[i] * BE!Power[size - i]
      <2>1. ASSUME NEW i \in 0..size PROVE g[i] = e(i)
            <3>1. i = 0 \/ (i # 0 /\ i \in 1..size)
                  BY SMT
            <3> QED BY Zenon, <1>1, <1>2, <3>1
      <2>2. IsOr(g, bytes, size) <=> g = [i \in 0..size |-> e(i)]
            BY Zenon DEF IsOr
      <2> HIDE DEF e
      <2>3. [i \in 0..size |-> g[i]] = [i \in 0..size |-> e(i)]
            BY SMT, <2>1
      <2> QED BY Zenon, <1>3, <2>2, <2>3
<1>6. PICK f : IsOr(f, bytes, size) /\ BE!Or(bytes) = f[size]
      BY Zenon, <1>5 DEF BE!Or, IsOr
<1>7. f[size] = g[size]
      BY <1>5, <1>6, OrUnique
<1> QED BY Zenon, <1>4, <1>6, <1>7

\* An integral type has an even number of values.
LEMMA EvenModulus ==
    ASSUME NEW T \in BE!IntegralType
    PROVE  /\ T.size \in Nat \ {0} /\ T.signed \in BOOLEAN
           /\ \E h \in Nat \ {0} : BE!Power[T.size] = 2 * h
<1>1. T.size \in Nat \ {0} /\ T.signed \in BOOLEAN
      <2>1. T.size \in Sizes /\ T.signed \in BOOLEAN
            BY DEF BE!IntegralType
      <2>2. Sizes \subseteq Nat \ {0}
            BY IntegralAssumption DEF BE!Integral
      <2> QED BY Zenon, <2>1, <2>2
<1>2. PICK c \in Nat \ {0} : Base = 2 * c
      <2>1. Base \in Nat \ {0} /\ Base % 2 = 0
            BY IntegralAssumption DEF BE!Integral
      <2>2. Base \div 2 \in Nat \ {0} /\ Base = 2 * (Base \div 2)
            BY SMT, <2>1
      <2> QED BY Zenon, <2>2
<1>3. T.size - 1 \in Nat /\ (T.size - 1) + 1 = T.size
      BY SMT, <1>1
<1>4. PICK p \in Nat \ {0} : BE!Power[T.size] = Base * p
      BY Zenon, <1>3, PowerDef
<1>5. c * p \in Nat \ {0} /\ Base * p = 2 * (c * p)
      BY SMT, <1>2
<1> QED BY Zenon, <1>1, <1>4, <1>5

\* reinterpret_cast to the unsigned type adds the number of values to a negative
\* one.
LEMMA Unsigned ==
    ASSUME NEW h \in Nat \ {0}, NEW v \in (-h)..(2 * h - 1)
    PROVE  v % (2 * h) = IF v < 0 THEN v + 2 * h ELSE v
OBVIOUS

\* For every type T and every value of it: DecodeBigEndian<U>() accepts the bytes
\* that EncodeBigEndian<T>() made of the value if and only if the sizes are the
\* same, and then it returns the value of U that is congruent to it, which is the
\* value itself if U is T.  The last byte is the least significant one.
THEOREM CodecRoundTrip ==
    ASSUME NEW T \in BE!IntegralType, NEW U \in BE!IntegralType,
           NEW v \in BE!Lowest(T)..BE!Highest(T), NEW d,
           d = BE!DecodeBigEndian(U, BE!EncodeBigEndian(T, v))
    PROVE  /\ v = 1 => BE!EncodeBigEndian(T, v) = [i \in 1..T.size |-> IF i = T.size THEN 1 ELSE 0]
           /\ d.status = "kOk" <=> T.size = U.size
           /\ T.size = U.size => /\ d.value \in BE!Lowest(U)..BE!Highest(U)
                                 /\ (d.value - v) % BE!Power[U.size] = 0
                                 /\ T = U => d.value = v
<1> DEFINE bytes == BE!EncodeBigEndian(T, v)
           M == BE!Power[T.size]
           u == BE!AsUnsigned(T, v)
<1>1. /\ T.size \in Nat \ {0} /\ T.signed \in BOOLEAN
      /\ U.size \in Nat \ {0} /\ U.signed \in BOOLEAN
      BY Zenon, EvenModulus
<1>2. PICK h \in Nat \ {0} : M = 2 * h
      BY Zenon, EvenModulus
<1>3. Len(bytes) = T.size
      BY SMT, <1>1 DEF BE!EncodeBigEndian
<1>6. ASSUME v = 1 PROVE bytes = [i \in 1..T.size |-> IF i = T.size THEN 1 ELSE 0]
      <2>1. Base \in Nat /\ Base >= 2
            BY SMT, IntegralAssumption DEF BE!Integral
      <2>2. u = 1
            BY SMT, <1>2, <1>6 DEF BE!AsUnsigned
      <2>3. ASSUME NEW i \in 1..T.size
            PROVE  (1 \div BE!Power[T.size - i]) % Base = IF i = T.size THEN 1 ELSE 0
            <3>1. CASE i = T.size
                  <4>1. T.size - i = 0
                        BY SMT, <1>1, <3>1
                  <4>2. BE!Power[T.size - i] = 1
                        BY Zenon, <4>1, PowerDef
                  <4> QED BY SMT, <2>1, <3>1, <4>2
            <3>2. CASE i # T.size
                  <4>1. T.size - i - 1 \in Nat /\ (T.size - i - 1) + 1 = T.size - i
                        BY SMT, <1>1, <3>2
                  <4>2. PICK p \in Nat \ {0} : BE!Power[T.size - i] = Base * p
                        BY Zenon, <4>1, PowerDef
                  <4>3. Base * p \in Nat /\ Base * p >= 2
                        BY SMT, <2>1
                  <4>4. PICK m \in Nat : m = BE!Power[T.size - i] /\ m >= 2
                        BY Zenon, <4>2, <4>3
                  <4>5. 1 \div m = 0
                        BY SMT, <4>4
                  <4> QED BY SMT, <2>1, <3>2, <4>4, <4>5
            <3> QED BY Zenon, <3>1, <3>2
      <2>4. bytes = [i \in 1..T.size |-> (1 \div BE!Power[T.size - i]) % Base]
            BY Zenon, <2>2 DEF BE!EncodeBigEndian
      <2> QED BY SMT, <2>3, <2>4
<1>4. CASE T.size # U.size
      <2>1. d = [status |-> "kInvalidArgument"]
            BY Zenon, <1>3, <1>4 DEF BE!DecodeBigEndian
      <2> QED BY SMT, <1>4, <1>6, <2>1
<1>5. CASE T.size = U.size
      <2>1. v \in (-h)..(2 * h - 1)
            BY SMT, <1>1, <1>2 DEF BE!Lowest, BE!Highest
      <2>2. u = IF v < 0 THEN v + 2 * h ELSE v
            BY Zenon, <1>2, <2>1, Unsigned DEF BE!AsUnsigned
      <2>3. u \in 0..(2 * h - 1)
            BY SMT, <2>1, <2>2
      <2>4. BE!Or(bytes) = u
            <3>1. \A i \in 1..T.size : bytes[i] = (u \div BE!Power[T.size - i]) % Base
                  BY Zenon DEF BE!EncodeBigEndian
            <3>2. u \in Nat /\ u < M
                  BY SMT, <1>2, <2>3
            <3> HIDE DEF bytes, u
            <3>3. T.size \in Nat
                  BY <1>1
            <3> QED BY Zenon, <1>3, <3>1, <3>2, <3>3, OrOfBytes
      <2>5. d.status = "kOk" /\ d.value = BE!AsType(U, u)
            <3>1. d = [status |-> "kOk", value |-> BE!AsType(U, BE!Or(bytes))]
                  BY Zenon, <1>3, <1>5 DEF BE!DecodeBigEndian
            <3>2. d = [status |-> "kOk", value |-> BE!AsType(U, u)]
                  BY Zenon, <2>4, <3>1
            <3> HIDE DEF u
            <3> QED BY SMT, <3>2
      <2>6. /\ BE!Lowest(U) = IF U.signed THEN -h ELSE 0
            /\ BE!Highest(U) = IF U.signed THEN h - 1 ELSE 2 * h - 1
            /\ BE!Power[U.size] = 2 * h
            BY SMT, <1>2, <1>5 DEF BE!Lowest, BE!Highest
      <2>7. d.value = IF U.signed /\ u >= h THEN u - 2 * h ELSE u
            BY SMT, <1>1, <2>3, <2>5, <2>6 DEF BE!AsType
      <2> HIDE DEF u
      <2>8. d.value \in BE!Lowest(U)..BE!Highest(U)
            BY SMT, <1>1, <2>3, <2>6, <2>7
      <2>9. (d.value - v) % (2 * h) = 0
            <3>1. d.value - v \in {0, 2 * h, -(2 * h)}
                  BY SMT, <1>1, <2>1, <2>2, <2>3, <2>7
            <3>2. 0 % (2 * h) = 0 /\ (2 * h) % (2 * h) = 0 /\ (-(2 * h)) % (2 * h) = 0
                  BY SMT
            <3> QED BY Zenon, <3>1, <3>2
      <2>10. ASSUME T = U PROVE d.value = v
            <3>1. /\ T.signed => v \in (-h)..(h - 1)
                  /\ ~T.signed => v \in 0..(2 * h - 1)
                  BY SMT, <1>1, <2>6, <2>10
            <3> QED BY SMT, <1>1, <2>2, <2>7, <2>10, <3>1
      <2> QED BY Zenon, <1>5, <1>6, <2>5, <2>6, <2>8, <2>9, <2>10
<1> QED BY Zenon, <1>4, <1>5

\* What the last call was given and what it returned.
CodecOK ==
    codec.done =>
        /\ codec.from \in BE!IntegralType /\ codec.to \in BE!IntegralType
        /\ codec.value \in BE!Lowest(codec.from)..BE!Highest(codec.from)
        /\ codec.bytes = BE!EncodeBigEndian(codec.from, codec.value)
        /\ codec.decoded = BE!DecodeBigEndian(codec.to, BE!EncodeBigEndian(codec.from, codec.value))

\* Integers survive EncodeBigEndian() and DecodeBigEndian(), for types of any size
\* and bytes with any even number of values.
THEOREM BytesSurvive == Spec => []BytesRoundTrip
<1>1. Init => CodecOK
      <2> SUFFICES ASSUME Init PROVE CodecOK
          OBVIOUS
      <2>1. codec = [done |-> FALSE]
            BY Zenon DEF Init, BE!Init, BE!NoBytes
      <2>2. codec.done = FALSE
            BY SMT, <2>1
      <2> QED BY Zenon, <2>2 DEF CodecOK
<1>2. CodecOK /\ [Next]_vars => CodecOK'
      <2> SUFFICES ASSUME CodecOK, [Next]_vars PROVE CodecOK'
          OBVIOUS
      <2>1. CASE codec' = codec
            BY Zenon, <2>1 DEF CodecOK
      <2>2. CASE BE!Used
            BY Zenon, <2>2 DEF BE!Used, BE!NoBytes, CodecOK
      <2>3. ASSUME NEW T \in BE!IntegralType, NEW U \in BE!IntegralType, BE!EncodeAndDecode(T, U)
            PROVE  CodecOK'
            <3>1. PICK v \in BE!Lowest(T)..BE!Highest(T) :
                      codec' = [done |-> TRUE, from |-> T, value |-> v, bytes |-> BE!EncodeBigEndian(T, v), to |-> U,
                                decoded |-> BE!DecodeBigEndian(U, BE!EncodeBigEndian(T, v))]
                  BY Zenon, <2>3 DEF BE!EncodeAndDecode
            <3>2. /\ codec'.from = T /\ codec'.to = U /\ codec'.value = v
                  /\ codec'.bytes = BE!EncodeBigEndian(T, v)
                  /\ codec'.decoded = BE!DecodeBigEndian(U, BE!EncodeBigEndian(T, v))
                  BY Zenon, <3>1
            <3> QED BY Zenon, <3>2 DEF CodecOK
      <2> QED BY Zenon, <2>1, <2>2, <2>3 DEF Next, vars, BE!Next
<1>3. CodecOK => BytesRoundTrip
      <2> SUFFICES ASSUME CodecOK, codec.done PROVE BytesRoundTrip
          BY Zenon DEF BytesRoundTrip, BE!BytesRoundTrip
      <2> DEFINE T == codec.from
                 U == codec.to
                 v == codec.value
                 d == codec.decoded
      <2>1. /\ T \in BE!IntegralType /\ U \in BE!IntegralType
            /\ v \in BE!Lowest(T)..BE!Highest(T)
            /\ d = BE!DecodeBigEndian(U, BE!EncodeBigEndian(T, v))
            /\ codec.bytes = BE!EncodeBigEndian(T, v)
            BY Zenon DEF CodecOK
      <2>2. /\ v = 1 => BE!EncodeBigEndian(T, v) = [i \in 1..T.size |-> IF i = T.size THEN 1 ELSE 0]
            /\ d.status = "kOk" <=> T.size = U.size
            /\ T.size = U.size => /\ d.value \in BE!Lowest(U)..BE!Highest(U)
                                  /\ (d.value - v) % BE!Power[U.size] = 0
                                  /\ T = U => d.value = v
            <3> HIDE DEF T, U, v, d
            <3> QED BY <2>1, CodecRoundTrip
      <2> QED BY Zenon, <2>1, <2>2 DEF BytesRoundTrip, BE!BytesRoundTrip
<1> QED BY <1>1, <1>2, <1>3, PTL DEF Spec
=============================================================================
