------------------------------- MODULE Answers ------------------------------
(***************************************************************************)
(* How response.c builds an answer to a request, item by item, when any    *)
(* allocation may fail, and what alloc.c counts meanwhile.                 *)
(*                                                                         *)
(* An item is one of cJSON; its blocks are the item, the text of a string, *)
(* and the key it is stored under.  create_error_response and              *)
(* create_result_response are scripts: items are made and linked in turn.  *)
(***************************************************************************)
EXTENDS Naturals, Sequences, FiniteSets

CONSTANTS
    BlockSize,      \* size of a block, without its header
    Header,         \* sizeof(size_t), in front of each block
    MaxHeap         \* CONFIG_MAX_HEAPSIZE_IN_KBYTE, in bytes

\* Assumed where this module is instantiated.
SizesAssumption == BlockSize \in Nat /\ Header \in Nat /\ MaxHeap \in Nat

VARIABLES
    kind,               \* "error" or "result"
    id,                 \* of the request: "string", "number", "other" or "missing"
    todo,               \* the step of the script that is next
    blocks,             \* the allocated blocks
    parents,            \* item -> the item it is linked to
    allocated_memory,
    missed              \* history: what there was no memory for

vars == <<kind, id, todo, blocks, parents, allocated_memory, missed>>

Block(part, item) == [part |-> part, item |-> item]
Make(item) == [make |-> item, parent |-> "none"]
Link(item, parent) == [make |-> item, parent |-> parent]

\* create_error_response: create_common_response and create_error_object.
ErrorScript ==
    <<Make("root"), Make("id"), Link("id", "root"),
      Make("error"), Make("message"), Link("message", "error"), Make("code"), Link("code", "error"),
      Make("data"), Link("data", "error"), Make("reason"), Link("reason", "data"),
      Link("error", "root")>>

\* create_success_response_from_request, create_result_response; without an id
\* the result is deleted at once.
ResultScript ==
    <<Make("result"), Make("root"), Make("id"), Link("id", "root"), Link("result", "root")>>

Script == IF kind = "error" THEN ErrorScript ELSE ResultScript

AnswerItems == {"root", "id", "error", "message", "code", "data", "reason", "result"}

\* The blocks of an item, before it is linked.
BlocksOf(item) ==
    {Block("item", item)}
        \cup IF item \in {"message", "reason"} \/ (item = "id" /\ id = "string")
             THEN {Block("text", item)} ELSE {}

\* Mutant of FreedWithout: a result is forgotten when the id cannot be copied.
FreedWithoutResult(item) ==
    CASE item = "root" -> {"result"}
      [] item = "id" -> {"root"}
      [] item = "error" -> {"root"}
      [] item \in {"message", "code"} -> {"error", "root"}
      [] item = "reason" -> {"data", "root"}

\* What has to be deleted when an item cannot be made.
FreedWithout(item) ==
    CASE item = "root" -> {"result"}
      [] item = "id" -> {"root", "result"}
      [] item = "error" -> {"root"}
      [] item \in {"message", "code"} -> {"error", "root"}
      [] item = "reason" -> {"data", "root"}

Init ==
    /\ kind \in {"error", "result"}
    /\ id \in {"string", "number", "other", "missing"}
    /\ todo = 1
    /\ blocks = {}
    /\ parents = [item \in {} |-> "none"]
    /\ allocated_memory = 0
    /\ missed = {}

-----------------------------------------------------------------------------
(* alloc.c *)

\* cjet_malloc: within the limit the system may still refuse.
Fits(new) == allocated_memory + Cardinality(new) * (BlockSize + Header) <= MaxHeap

Allocated(new) ==
    /\ Fits(new)
    /\ blocks' = blocks \cup new
    /\ allocated_memory' = allocated_memory + Cardinality(new) * (BlockSize + Header)

\* cjet_free
Freed(old) ==
    /\ blocks' = blocks \ old
    /\ allocated_memory' = allocated_memory - Cardinality(old) * (BlockSize + Header)

-----------------------------------------------------------------------------
(* response.c *)

Finished == todo > Len(Script)

Step == Script[todo]

Made(item) == Block("item", item) \in blocks

\* cJSON_Delete: the blocks of the items and of what is linked below them.
LinkedTo(items) == {item \in DOMAIN parents : parents[item] \in items}
Below(items) ==
    LET Level(found) == found \cup LinkedTo(found)
    IN  Level(Level(Level(items)))
Deleted(items) == {b \in blocks : b.item \in Below(items)}

\* No answer: the caller gets NULL.
GiveUp(items) ==
    /\ Freed(Deleted(items))
    /\ todo' = Len(Script) + 1
    /\ UNCHANGED <<kind, id, parents>>

\* An answer needs an id; that of another type is refused after root was made.
NoId ==
    /\ ~Finished
    /\ \/ id = "missing" /\ Step = Make("root")
       \/ id = "other" /\ Step = Make("id")
    /\ GiveUp({"root", "result"})
    /\ UNCHANGED missed

\* The caller gave no reason: the error goes without data.
NoReason ==
    /\ ~Finished /\ Step = Make("data")
    /\ todo' = Len(Script)
    /\ UNCHANGED <<kind, id, blocks, parents, allocated_memory, missed>>

\* The next item is made, or there is no memory for all of it: what there is of
\* it is deleted, too.  No data or result object is no reason to stop.
MakeItem ==
    /\ ~Finished /\ Step.parent = "none"
    /\ id = "missing" => Step.make # "root"
    /\ id = "other" => Step.make # "id"
    /\ LET item == Step.make
       IN  \/ /\ Allocated(BlocksOf(item))
              /\ todo' = todo + 1
              /\ UNCHANGED <<kind, id, parents, missed>>
           \/ /\ missed' = missed \cup {Block("item", item)}
              /\ IF item \in {"data", "result"}
                 THEN /\ todo' = IF item = "data" THEN Len(Script) ELSE todo + 1
                      /\ UNCHANGED <<kind, id, blocks, parents, allocated_memory>>
                 ELSE GiveUp(FreedWithout(item))

\* cJSON_AddItemToObject: without an item, or without memory for its key,
\* nothing is linked, and nobody looks at the result.
LinkItem ==
    /\ ~Finished /\ Step.parent # "none"
    /\ todo' = todo + 1
    /\ LET item == Step.make
           key == Block("key", item)
       IN  \/ /\ Made(item) /\ Allocated({key})
              /\ parents' = [i \in DOMAIN parents \cup {item} |->
                                IF i = item THEN Step.parent ELSE parents[i]]
              /\ UNCHANGED missed
           \/ /\ missed' = IF Made(item) THEN missed \cup {key} ELSE missed
              /\ UNCHANGED <<blocks, parents, allocated_memory>>
    /\ UNCHANGED <<kind, id>>

Next == NoId \/ NoReason \/ MakeItem \/ LinkItem

Spec == Init /\ [][Next]_vars

-----------------------------------------------------------------------------
\* An answer has an id and either a result or an error with message and code,
\* and without an answer nothing stays allocated, unless there was no memory
\* for a key, for the reason, or for the result; nothing that is linked has
\* lost its parent or is freed twice, and the memory in use is what the blocks
\* and their headers add up to (response.c, alloc.c).
AnswersComplete ==
    LET answered == Finished /\ Made("root")
        Members(item) == LinkedTo({item})
        KeyMissed == \E b \in missed : b.part = "key"
        Missed(item) == Block("item", item) \in missed
    IN  /\ allocated_memory = Cardinality(blocks) * (BlockSize + Header)
        /\ allocated_memory <= MaxHeap
        /\ answered /\ ~KeyMissed =>
              /\ Members("root") = {"id"} \cup IF Missed("result") THEN {} ELSE {kind}
              /\ kind = "error" => {"message", "code"} \subseteq Members("error")
        /\ Finished /\ ~answered /\ ~KeyMissed /\ ~Missed("reason") => blocks = {}
        /\ answered /\ ~KeyMissed => {b.item : b \in blocks} = Below({"root"})
        /\ answered => \A item \in Below({"root"}) : Made(item)
=============================================================================
