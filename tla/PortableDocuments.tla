----------------------------- MODULE PortableDocuments -----------------------------
(***************************************************************************)
(* How an Agent reads a document of a Service (agent/documents.py,         *)
(* parse_portable_service_document in core/validation.py): the web page is *)
(* always there to fall back on, and the portable form is used if what     *)
(* answers is it, whole and within bounds.  A block is its type and the    *)
(* blocks in it.                                                           *)
(***************************************************************************)
EXTENDS ProtocolModels, FiniteSetsExt

CONSTANTS
  MaxBytes,    \* of a portable document (2^20)
  MaxBlocks,   \* in it (1024)
  MaxNesting   \* of its sections (8)

\* A block has the members that its type needs; those of other types are ignored.
RECURSIVE ValidBlock(_)
ValidBlock(block) ==
  CASE block.type = "paragraph" -> block.text \notin {None} \cup Malformed
    [] block.type = "section" ->
         /\ block.title \notin {None} \cup Malformed
         /\ Given(block.blocks) # <<>>
         /\ \A n \in 1..Len(block.blocks) : ValidBlock(block.blocks[n])
    [] block.type \in {"bulleted_list", "numbered_list"} ->
         Len(Given(block.items)) \in 1..128 /\ Formed(Listed(block.items))
    [] OTHER -> FALSE

\* The walk takes the last block of those that are pending, and adds what is in it.
RECURSIVE Bounded(_, _)
Bounded(pending, count) ==
  pending = <<>> \/
    LET top == Last(pending)
        inside == IF top.block.type = "section" THEN Given(top.block.blocks) ELSE <<>>
    IN /\ count < MaxBlocks
       /\ top.block.type = "section" => top.depth < MaxNesting
       /\ Bounded(Front(pending) \o
                    [n \in 1..Len(inside) |-> [block |-> inside[n], depth |-> top.depth + 1]],
                  count + 1)

ValidPortable(document) ==
  LET blocks == Given(document.summary) \o document.content IN
  /\ Formed({document.id})
  /\ document.content # <<>> /\ document.summary # <<>>
  /\ \A n \in 1..Len(blocks) : ValidBlock(blocks[n])
  /\ Bounded([n \in 1..Len(blocks) |-> [block |-> blocks[n], depth |-> 0]], 0)

Parsed(bytes, document, expected) ==
  bytes <= MaxBytes /\ ValidPortable(document) /\ document.id = expected

\* What answered, or None after a timeout or an error of the transport.
Usable(response, expected) ==
  /\ response # None
  /\ response.success /\ response.media = "application/json" /\ response.plain
  /\ Parsed(response.bytes, response.document, expected)

ReadDocument(descriptor, response) ==
  IF "application/json" \notin ToSet(descriptor.media)
  THEN [document |-> None, reason |-> "not_advertised"]
  ELSE IF Usable(response, descriptor.id)
       THEN [document |-> response.document, reason |-> None]
       ELSE [document |-> None, reason |-> "unavailable_or_unsupported"]
-----------------------------------------------------------------------------
(* What the bounds mean *)

RECURSIVE BlocksIn(_)
BlocksIn(blocks) ==
  FoldLeft(LAMBDA count, block :
             count + 1 + (IF block.type = "section" THEN BlocksIn(Given(block.blocks)) ELSE 0),
           0, blocks)

RECURSIVE Sections(_)
Sections(blocks) ==
  Max({0} \cup {1 + Sections(Given(blocks[n].blocks)) :
                  n \in {k \in 1..Len(blocks) : blocks[k].type = "section"}})

\* The walk over what is pending accepts exactly the documents with few enough blocks and
\* few enough sections within one another.
BoundedExact(blocks) ==
  Bounded([n \in 1..Len(blocks) |-> [block |-> blocks[n], depth |-> 0]], 0) <=>
    BlocksIn(blocks) <= MaxBlocks /\ Sections(blocks) <= MaxNesting

\* Reading ends with a document of the identifier asked for, within the bounds, or with the
\* reason why there is only the web page.
ReadSound(descriptor, response) ==
  LET result == ReadDocument(descriptor, response) IN
  /\ result.document = None <=> result.reason # None
  /\ result.document # None =>
       /\ result.document.id = descriptor.id
       /\ BlocksIn(result.document.content) <= MaxBlocks
       /\ Sections(result.document.content) <= MaxNesting
=============================================================================
