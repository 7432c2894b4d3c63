------------------------------ MODULE ClaimLimits ------------------------------
(***************************************************************************)
(* The limits on the claims of an Enroll (service/service.py): a walk over *)
(* a JSON value with one counter of members for all of it.  A value is a   *)
(* text, an object of members, a list, or something else; a text or a name *)
(* is its length.                                                          *)
(***************************************************************************)
EXTENDS Integers, Sequences, FiniteSets, SequencesExt, FiniteSetsExt

CONSTANT Limits   \* the four limits: bytes, members, depth, text

Over == -1

\* The members counted after a value, or Over.
RECURSIVE Walk(_, _, _)
Walk(value, depth, members) ==
  CASE value.kind = "text" -> IF value.length <= Limits.text THEN members ELSE Over
    [] value.kind = "object" ->
         IF depth > Limits.depth THEN Over
         ELSE FoldLeft(LAMBDA count, member :
                         IF count = Over \/ count >= Limits.members \/ member.name > Limits.text
                         THEN Over ELSE Walk(member.value, depth + 1, count + 1),
                       members, value.members)
    [] value.kind = "list" ->
         IF depth > Limits.depth THEN Over
         ELSE FoldLeft(LAMBDA count, item :
                         IF count = Over THEN Over ELSE Walk(item, depth + 1, count),
                       members, value.items)
    [] OTHER -> members

\* Claims are their size when encoded, and the object itself.
ClaimsWithinLimits(claims) ==
  claims.bytes <= Limits.bytes /\ Walk(claims.value, 1, 0) # Over
-----------------------------------------------------------------------------
(* What the limits mean *)

Parts(value) ==
  CASE value.kind = "object" -> {value.members[n].value : n \in 1..Len(value.members)}
    [] value.kind = "list" -> ToSet(value.items)
    [] OTHER -> {}

RECURSIVE Nesting(_)
Nesting(value) ==
  IF value.kind \notin {"object", "list"} THEN 0
  ELSE 1 + Max({0} \cup {Nesting(part) : part \in Parts(value)})

RECURSIVE Lengths(_)
Lengths(value) ==
  UNION {Lengths(part) : part \in Parts(value)}
    \cup (IF value.kind = "text" THEN {value.length} ELSE {})
    \cup (IF value.kind = "object"
          THEN {value.members[n].name : n \in 1..Len(value.members)} ELSE {})

RECURSIVE Members(_)
Members(value) ==
  LET values == IF value.kind = "object"
                THEN [n \in 1..Len(value.members) |-> value.members[n].value]
                ELSE IF value.kind = "list" THEN value.items ELSE <<>>
  IN FoldLeft(LAMBDA count, part : count + Members(part),
              IF value.kind = "object" THEN Len(value.members) ELSE 0, values)

\* The walk refuses a value exactly when it has too many members in all, nests too deeply,
\* or holds a text or a name that is too long, wherever in it that is.
WalkExact(value) ==
  Walk(value, 1, 0) # Over <=>
    /\ Members(value) <= Limits.members /\ Nesting(value) <= Limits.depth
    /\ \A length \in Lengths(value) : length <= Limits.text
=============================================================================
