------------------------------ MODULE TypeScan ------------------------------
(***************************************************************************)
(* process_heap_object_recursive of gc.c: the precise search of one heap   *)
(* object for pointers.  It walks the object's uniqtype, the run-time type *)
(* that liballocs recorded for the allocation, and hands the word at each  *)
(* pointer member to valid_heap_object.  What GcHeap calls the fields of a *)
(* block are the words this walk reads.                                    *)
(*                                                                         *)
(* Types form a table, as uniqtypes do in memory: a type names its member  *)
(* or element types by their place in the table.  Offsets count words.     *)
(***************************************************************************)
EXTENDS Integers, Sequences

CONSTANTS
    Type,       \* places in the type table
    Tables      \* the type tables to be walked

(* The kinds liballocs distinguishes here; "base" stands for the types     *)
(* that have no subobjects, void and the missing type included.            *)
Kind == {"base", "pointer", "composite", "array"}

ASSUME TypeAssumption ==
    /\ Type \subseteq Nat
    /\ \A uniqtype \in Tables :
          /\ DOMAIN uniqtype = Type
          /\ \A t \in Type :
                /\ uniqtype[t].kind \in Kind
                /\ {uniqtype[t].pos_maxoff, uniqtype[t].length} \subseteq Nat
                /\ uniqtype[t].related \in Seq([type : {s \in Type : s < t}, off : Nat])
                /\ uniqtype[t].kind = "array" => uniqtype[t].related # <<>>

VARIABLES
    uniqtype,   \* the table: kind, pos_maxoff, related, length of each type
    object,     \* the type of the object that is searched
    stack,      \* the activations: object address, type and index i
    read        \* addresses of the words given to valid_heap_object, in order

vars == <<uniqtype, object, stack, read>>

Activation(address, t) == [address |-> address, type |-> t, i |-> 0]

Init ==
    /\ uniqtype \in Tables
    /\ object \in Type
    /\ stack = <<Activation(0, object)>>
    /\ read = <<>>

HasSubobjects(t) == uniqtype[t].kind \in {"composite", "array"}

(* Mutant: the last element of an array is missed.                         *)
Members_short(t) ==
    IF uniqtype[t].kind = "composite" THEN Len(uniqtype[t].related)
                                      ELSE uniqtype[t].length - 1

Members(t) ==
    IF uniqtype[t].kind = "composite" THEN Len(uniqtype[t].related)
                                      ELSE uniqtype[t].length

(* Type and offset of member i, from 0, of a composite or of an array.     *)
ElementType(t, i) ==
    IF uniqtype[t].kind = "array" THEN uniqtype[t].related[1].type
                                  ELSE uniqtype[t].related[i + 1].type

(* Mutant: array elements are taken to be one word apart.                  *)
MemberOffset_word(t, i) ==
    IF uniqtype[t].kind = "array" THEN i ELSE uniqtype[t].related[i + 1].off

MemberOffset(t, i) ==
    IF uniqtype[t].kind = "array" THEN i * uniqtype[ElementType(t, i)].pos_maxoff
                                  ELSE uniqtype[t].related[i + 1].off

-----------------------------------------------------------------------------
Top == stack[Len(stack)]
Advanced == [stack EXCEPT ![Len(stack)].i = @ + 1]

(* The innermost activation stands at a member: its type and its address.  *)
AtMember == HasSubobjects(Top.type) /\ Top.i < Members(Top.type)
Element == ElementType(Top.type, Top.i)
Address == Top.address + MemberOffset(Top.type, Top.i)

ReadPointer ==
    /\ stack # <<>>
    /\ AtMember
    /\ uniqtype[Element].kind = "pointer"
    /\ read' = Append(read, Address)
    /\ stack' = Advanced
    /\ UNCHANGED <<uniqtype, object>>

(* Mutant: the subobject is searched at the object's own address.          *)
Recurse_base ==
    /\ stack # <<>>
    /\ AtMember
    /\ uniqtype[Element].kind = "composite"
    /\ stack' = Append(Advanced, Activation(Top.address, Element))
    /\ UNCHANGED <<uniqtype, object, read>>

Recurse ==
    /\ stack # <<>>
    /\ AtMember
    /\ uniqtype[Element].kind = "composite"
    /\ stack' = Append(Advanced, Activation(Address, Element))
    /\ UNCHANGED <<uniqtype, object, read>>

(* Mutant: the loop stays at the member it passes over.                    *)
PassOver_stays ==
    /\ stack # <<>>
    /\ AtMember
    /\ uniqtype[Element].kind \notin {"pointer", "composite"}
    /\ UNCHANGED vars

(* Neither a pointer nor a composite: arrays are passed over here too.     *)
PassOver ==
    /\ stack # <<>>
    /\ AtMember
    /\ uniqtype[Element].kind \notin {"pointer", "composite"}
    /\ stack' = Advanced
    /\ UNCHANGED <<uniqtype, object, read>>

ReturnFromObject ==
    /\ stack # <<>>
    /\ ~AtMember
    /\ stack' = SubSeq(stack, 1, Len(stack) - 1)
    /\ UNCHANGED <<uniqtype, object, read>>

Next == ReadPointer \/ Recurse \/ PassOver \/ ReturnFromObject

Spec == Init /\ [][Next]_vars
FairSpec == Spec /\ WF_vars(Next)

-----------------------------------------------------------------------------
(* Reference: the words of a type at which a pointer is stored, from the   *)
(* layout alone.  A type's members come before it in the table.            *)

Shift(S, k) == {a + k : a \in S}

WordsOf(W, t) ==
    CASE uniqtype[t].kind = "base"      -> {}
      [] uniqtype[t].kind = "pointer"   -> {0}
      [] uniqtype[t].kind = "composite" ->
           UNION {Shift(W[uniqtype[t].related[k].type], uniqtype[t].related[k].off) :
                  k \in 1 .. Len(uniqtype[t].related)}
      [] uniqtype[t].kind = "array"     ->
           LET e == uniqtype[t].related[1].type IN
           UNION {Shift(W[e], k * uniqtype[e].pos_maxoff) : k \in 0 .. uniqtype[t].length - 1}

PointerWords[t \in Type] == WordsOf(PointerWords, t)

(* No array lies inside another object, and the object itself is one that  *)
(* has subobjects, as every object has that liballocs gives a precise      *)
(* type: an array of the type named at the allocation site.                *)
FlatIn(F, t) ==
    \A k \in 1 .. Len(uniqtype[t].related) :
        LET e == uniqtype[t].related[k].type
        IN  uniqtype[e].kind # "array" /\ F[e]

Flat[t \in Type] == FlatIn(Flat, t)

WordsRead == {read[k] : k \in 1 .. Len(read)}

(* Variables keep their types; activations are nested as their types are.  *)
TypeOK ==
    /\ object \in Type
    /\ \A k \in 1 .. Len(stack) :
          /\ stack[k].type \in Type /\ stack[k].address \in Nat
          /\ HasSubobjects(stack[k].type) => stack[k].i \in 0 .. Members(stack[k].type)
    /\ \A k \in 1 .. Len(stack) - 1 :
          /\ stack[k + 1].type = ElementType(stack[k].type, stack[k].i - 1)
          /\ stack[k + 1].address
                = stack[k].address + MemberOffset(stack[k].type, stack[k].i - 1)

(* The search treats no word as a pointer that the type does not say is    *)
(* one: the collector never follows an integer that looks like an address. *)
ReadsOnlyPointers == stack = <<>> => WordsRead \subseteq PointerWords[object]

(* When no array is nested in the object, the search misses no pointer.    *)
FlatObjectsSearched ==
    stack = <<>> /\ HasSubobjects(object) /\ Flat[object]
        => WordsRead = PointerWords[object]

(* gc.c:196, "Else is it a thing with structure? If so, recurse.": every   *)
(* pointer of an object that has structure is found.                       *)
ObjectsSearched ==
    stack = <<>> /\ HasSubobjects(object) => WordsRead = PointerWords[object]

(* The recursion comes to its end.                                         *)
SearchEnds == <>(stack = <<>>)

=============================================================================
