---------------------------- MODULE IamBindings ----------------------------
(***************************************************************************)
(* google::cloud::IamBindings: a std::map from roles to sets of members,   *)
(* changed one member or one IamBinding at a time (iam_bindings.h,         *)
(* iam_bindings.cc, iam_binding.h).                                        *)
(*                                                                         *)
(* A definition named Faulty... is a variant of the one that follows it    *)
(* with a plausible mistake, kept to show that a property can fail.        *)
(***************************************************************************)
EXTENDS Naturals

CONSTANTS
    Role,     \* names of roles
    Member,   \* names of members
    MaxVector \* bound: the longest std::vector<IamBinding> given to a constructor

VARIABLES
    bindings, \* bindings_
    granted,  \* history: the members that each role was given and not deprived of
    blank,    \* history: roles that were added together with no members
    repeated  \* history: roles that the vector given to the constructor names twice

vars == <<bindings, granted, blank, repeated>>

\* class IamBinding
IamBinding == [role : Role, members : SUBSET Member]

TypeOK ==
    /\ DOMAIN bindings \subseteq Role
    /\ \A r \in DOMAIN bindings : bindings[r] \subseteq Member
    /\ granted \in [Role -> SUBSET Member]
    /\ blank \in SUBSET Role /\ repeated \in SUBSET Role

\* The members for a role, none if the role is not in the map.
at(b, role) == IF role \in DOMAIN b THEN b[role] ELSE {}

\* The constructors insert() one binding after the other, which has no effect
\* on a role that is already there.
Construct(v) ==
    LET First(r) == CHOOSE i \in DOMAIN v :
                        v[i].role = r /\ \A j \in 1..(i - 1) : v[j].role # r
    IN  [r \in {v[i].role : i \in DOMAIN v} |-> v[First(r)].members]

Init ==
    \E n \in 0..MaxVector : \E v \in [1..n -> IamBinding] :
        LET Of(r) == {i \in 1..n : v[i].role = r}
        IN  /\ bindings = Construct(v)
            /\ granted = [r \in Role |-> UNION {v[i].members : i \in Of(r)}]
            /\ blank = {r \in Role : \E i \in Of(r) : v[i].members = {}}
            /\ repeated = {r \in Role : \E i, j \in Of(r) : i # j}

\* operator[] creates an empty set for a role that is not in the map.
AddMembers(role, members) ==
    /\ bindings' = [r \in DOMAIN bindings \cup {role} |->
                        IF r = role THEN at(bindings, r) \cup members ELSE bindings[r]]
    /\ granted' = [granted EXCEPT ![role] = @ \cup members]
    /\ blank' = IF members = {} THEN blank \cup {role} ELSE blank
    /\ UNCHANGED repeated

AddMember(role, member) == AddMembers(role, {member})

\* The role goes with the first of its members.
FaultyWithout(role, members) ==
    [r \in DOMAIN bindings \ {role} |-> bindings[r]]

\* The map once the members found in the role are erased, and the role too if
\* none is left.
Without(role, members) ==
    LET left == bindings[role] \ members
    IN  IF left = {} THEN [r \in DOMAIN bindings \ {role} |-> bindings[r]]
                     ELSE [bindings EXCEPT ![role] = left]

RemoveMembers(role, members) ==
    /\ bindings' = IF role \in DOMAIN bindings THEN Without(role, members) ELSE bindings
    /\ granted' = [granted EXCEPT ![role] = @ \ members]
    /\ UNCHANGED <<blank, repeated>>

RemoveMember(role, member) == RemoveMembers(role, {member})

Next ==
    \E role \in Role :
        \/ \E member \in Member : AddMember(role, member) \/ RemoveMember(role, member)
        \/ \E members \in SUBSET Member : AddMembers(role, members) \/ RemoveMembers(role, members)

Spec == Init /\ [][Next]_vars
-----------------------------------------------------------------------------
(* Properties                                                              *)

\* After any sequence of calls at() returns exactly the members that the role was
\* given and not deprived of since, by the constructor or by AddMember(s); of a
\* role that the vector names twice the constructor may lose members, and there
\* at() returns no others.  A role without members is listed only if somebody
\* added it that way: RemoveMember() and RemoveMembers() erase the role with its
\* last member and not before.
BindingsAreExact ==
    /\ \A r \in Role : /\ at(bindings, r) \subseteq granted[r]
                       /\ r \notin repeated => at(bindings, r) = granted[r]
    /\ \A r \in DOMAIN bindings : bindings[r] = {} => r \in blank
=============================================================================
