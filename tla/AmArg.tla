-------------------------------- MODULE AmArg --------------------------------
(* The variant value AmArg of src/core/AmArg.cpp and AmArg.h, as a small  *)
(* program sees it: a few AmArg variables, each holding a scalar, an      *)
(* Array or a Struct (a pointer to a ValueArray or ValueStruct the AmArg   *)
(* owns), or a Reference (a pointer to a shared, reference-counted         *)
(* ValueRef).  Arrays and structs live on a heap of objects that           *)
(* invalidate() deletes; an object keeps its contents after it is deleted  *)
(* so that a read of freed memory can be recorded (uaf).  Elements and     *)
(* members are scalars (Undef or an Int): nesting is left out.  Each      *)
(* action is one member function, with the exception it throws in exc;   *)
(* what the function changed before the throw stays, as in the code.      *)
EXTENDS Naturals, Integers, Sequences, SequencesExt, FiniteSets

CONSTANTS Vars,        \* the program's AmArg variables
          Ints,        \* int values
          Keys,        \* struct member names
          MaxLen,      \* bound on array length
          MaxAllocs,   \* bound on ValueArray/ValueStruct objects allocated
          MaxRefs      \* bound on ValueRef objects allocated

NoVar == "novar"
Undef == [t |-> "Undef", n |-> 0]
Scalars == {Undef} \cup {[t |-> "Int", n |-> i] : i \in Ints}
Container == {"Array", "Struct"}
NoMembers == [k \in {} |-> Undef]
Unborn == [live |-> FALSE, elems |-> <<>>, mem |-> NoMembers]

VARIABLES arg,     \* variable -> [t: type, n: int value, object or ValueRef]
          heap,    \* object -> [live, elems (ValueArray), mem (ValueStruct)]
          allocs,  \* objects allocated so far
          refs,    \* ValueRef -> [cnt, deleted]
          nrefs,   \* ValueRefs allocated so far
          exc,     \* the exception the last call threw, "none" or "abort"
          uaf      \* some call read or deleted a freed object or ValueRef

vars == <<arg, heap, allocs, refs, nrefs, exc, uaf>>

Init == /\ arg = [v \in Vars |-> Undef]
        /\ heap = [o \in 1..MaxAllocs |-> Unborn]
        /\ allocs = 0
        /\ refs = [r \in 1..MaxRefs |-> [cnt |-> 0, deleted |-> FALSE]]
        /\ nrefs = 0
        /\ exc = "none"
        /\ uaf = FALSE

-----------------------------------------------------------------------------
(* The calls are written as operators from a state s (a record of the     *)
(* variables) to the state after them, and an action commits one.        *)

Now == [arg |-> arg, heap |-> heap, allocs |-> allocs, refs |-> refs,
        nrefs |-> nrefs, exc |-> "none", uaf |-> uaf]

\* an aborted program makes no more calls
Commit(s) == /\ exc # "abort"
             /\ s.allocs <= MaxAllocs
             /\ arg' = s.arg
             /\ heap' = s.heap
             /\ allocs' = s.allocs
             /\ refs' = s.refs
             /\ nrefs' = s.nrefs
             /\ exc' = s.exc
             /\ uaf' = s.uaf

\* x points to an object or ValueRef that has been deleted
Freed(s, x) == \/ x.t \in Container /\ ~s.heap[x.n].live
               \/ x.t = "Reference" /\ s.refs[x.n].deleted

\* reading the value x: a freed object read is recorded
Use(s, x) == [s EXCEPT !.uaf = @ \/ Freed(s, x)]

Throw(s, e) == [s EXCEPT !.exc = e]

\* a new, empty ValueArray or ValueStruct for variable v
NewObject(s, v, t) ==
    LET o == s.allocs + 1 IN
    [s EXCEPT !.heap = [@ EXCEPT ![o] = [Unborn EXCEPT !.live = TRUE]],
              !.allocs = o, !.arg[v] = [t |-> t, n |-> o]]

\* invalidate(): an array or struct is deleted, a ValueRef loses a
\* reference (dec_ref deletes it, and its object, at zero); type = Undef
Invalidate(s, v) ==
    LET x == s.arg[v]
        s1 == Use(s, x)
    IN [s1 EXCEPT
          !.heap = IF x.t \in Container THEN [@ EXCEPT ![x.n].live = FALSE] ELSE @,
          !.refs = IF x.t = "Reference"
                   THEN [@ EXCEPT ![x.n] = [cnt |-> @.cnt - 1, deleted |-> @.cnt = 1]]
                   ELSE @,
          !.arg[v] = Undef]

\* mutant: an array or struct is copied by its pointer
CopyShallow(s, v, x) ==
    [Use(s, x) EXCEPT !.arg[v] = x,
       !.refs = IF x.t = "Reference" THEN [@ EXCEPT ![x.n].cnt = @ + 1] ELSE @]

\* mutant: a Reference is copied without inc_ref
CopyNoIncRef(s, v, x) ==
    IF x.t \in Container
    THEN LET s1 == NewObject(Use(s, x), v, x.t) IN
         [s1 EXCEPT !.heap[s1.allocs] = [live |-> TRUE, elems |-> s.heap[x.n].elems,
                                                         mem |-> s.heap[x.n].mem]]
    ELSE [Use(s, x) EXCEPT !.arg[v] = x]

\* the copying half of operator=: type and value are taken from x; an
\* array or struct is copied into a new object, a Reference shares the
\* ValueRef and takes inc_ref
Copy(s, v, x) ==
    IF x.t \in Container
    THEN LET s1 == NewObject(Use(s, x), v, x.t) IN
         [s1 EXCEPT !.heap[s1.allocs] = [live |-> TRUE, elems |-> s.heap[x.n].elems,
                                                         mem |-> s.heap[x.n].mem]]
    ELSE [Use(s, x) EXCEPT !.arg[v] = x,
            !.refs = IF x.t = "Reference" THEN [@ EXCEPT ![x.n].cnt = @ + 1] ELSE @]

\* mutant: operator= without its this != &v check
AssignValNoSelfCheck(s, v, x, self) == Copy(Invalidate(s, v), v, x)

\* operator=(x): unless x is this AmArg itself, invalidate() and copy x.
\* x is read after invalidate(), so an x stored inside this AmArg's own
\* array or struct is read from the deleted object
AssignVal(s, v, x, self) == IF self THEN s ELSE Copy(Invalidate(s, v), v, x)

\* assertArray(): Undef becomes an empty array, any type but Array throws
\* TypeMismatchException (the const overload does not convert Undef)
AssertArray(s, v) ==
    CASE s.arg[v].t = "Array" -> Use(s, s.arg[v])
      [] s.arg[v].t = "Undef" -> NewObject(s, v, "Array")
      [] OTHER                -> Throw(s, "type")

\* assertStruct(): the same for Struct
AssertStruct(s, v) ==
    CASE s.arg[v].t = "Struct" -> Use(s, s.arg[v])
      [] s.arg[v].t = "Undef"  -> NewObject(s, v, "Struct")
      [] OTHER                 -> Throw(s, "type")

\* the objects a call allocates stay within the bound
Fits(s) == s.allocs <= MaxAllocs

Elems(s, v) == s.heap[s.arg[v].n].elems
SetElems(s, v, es) == [s EXCEPT !.heap[s.arg[v].n].elems = es]
Mem(s, v) == s.heap[s.arg[v].n].mem
SetMem(s, v, m) == [s EXCEPT !.heap[s.arg[v].n].mem = m]
-----------------------------------------------------------------------------
(* Assignment and lifetime                                                 *)

\* v = w (operator=)
Assign(v, w) == Commit(AssignVal(Now, v, arg[w], v = w))

\* v = AmArg(i): the temporary's scalar is copied
MakeInt(v, i) == Commit(AssignVal(Now, v, [t |-> "Int", n |-> i], FALSE))

\* v = AmArg(obj, true): the temporary creates a ValueRef and takes
\* inc_ref, operator= takes a second, ~AmArg of the temporary drops one
MakeRef(v) ==
    /\ nrefs < MaxRefs
    /\ LET r == nrefs + 1
           s1 == [Now EXCEPT !.refs[r] = [cnt |-> 1, deleted |-> FALSE], !.nrefs = r]
           s2 == AssignVal(s1, v, [t |-> "Reference", n |-> r], FALSE)
       IN Commit([s2 EXCEPT !.refs[r].cnt = @ - 1])

\* clear(), and ~AmArg when v goes out of scope: invalidate()
Clear(v) == Commit(Invalidate(Now, v))

-----------------------------------------------------------------------------
(* Arrays                                                                  *)

\* push(a): assertArray() and push_back of a copy of a
Push(v, e) ==
    LET s == AssertArray(Now, v) IN
    /\ Fits(s)
    /\ s.exc = "none" => Len(Elems(s, v)) < MaxLen
    /\ Commit(IF s.exc # "none" THEN s ELSE SetElems(s, v, Append(Elems(s, v), e)))

\* pop(a): assertArray(); an empty array leaves a alone when it is Undef
\* and resets it otherwise; else a = front() and the front is erased
Pop(v, w) ==
    LET s == AssertArray(Now, v)
        es == Elems(s, v)
    IN Fits(s) /\ Commit(CASE s.exc # "none"       -> s
                [] es = <<>> /\ arg[w] = Undef -> s
                [] es = <<>>            -> AssignVal(s, w, Undef, FALSE)
                [] OTHER                -> SetElems(AssignVal(s, w, Head(es), FALSE), v, Tail(es)))

\* pop_back(a) and pop_back(): as pop, from the back, but the element is
\* removed with v_array->erase(v_array->end()), erasing the past-the-end
\* iterator: undefined behaviour, which libstdc++ runs as removing the
\* last element and a _GLIBCXX_DEBUG build stops with an abort
PopBack(v, w, aborts) ==
    LET s == AssertArray(Now, v)
        es == Elems(s, v)
        s1 == IF w = NoVar THEN s ELSE AssignVal(s, w, es[Len(es)], FALSE)
    IN Fits(s) /\ Commit(CASE s.exc # "none"                          -> s
                [] es = <<>> /\ (w = NoVar \/ arg[w] = Undef) -> s
                [] es = <<>>                               -> AssignVal(s, w, Undef, FALSE)
                [] aborts                                  -> Throw(s1, "abort")
                [] OTHER                 -> SetElems(s1, v, SubSeq(es, 1, Len(es) - 1)))

\* erase(idx): assertArray(), OutOfBoundsException past the end (idx is a
\* size_t, so the idx < 0 test never holds)
Erase(v, i) ==
    LET s == AssertArray(Now, v) IN
    Fits(s) /\ Commit(CASE s.exc # "none"        -> s
             [] i >= Len(Elems(s, v)) -> Throw(s, "bounds")
             [] OTHER                 -> SetElems(s, v, RemoveAt(Elems(s, v), i + 1)))

\* concat(a): assertArray(); the elements of an array a are appended one
\* by one, any other a is pushed itself
Concat(v, w) ==
    LET s == Use(AssertArray(Now, v), arg[w])
        add == IF arg[w].t = "Array" THEN heap[arg[w].n].elems ELSE <<arg[w]>>
    IN /\ Fits(s)
       /\ s.exc = "none" => Len(Elems(s, v)) + Len(add) <= MaxLen
       /\ Commit(IF s.exc # "none" THEN s ELSE SetElems(s, v, Elems(s, v) \o add))

\* mutant: the array is resized to one element more than asked for
AssertArraySizeOffByOne(s, v, n) ==
    LET s1 == AssertArray(s, v) IN
    IF s1.exc # "none" \/ ~Fits(s1) \/ Len(Elems(s1, v)) >= n THEN s1
    ELSE SetElems(s1, v, Elems(s1, v) \o [j \in 1..(n + 1 - Len(Elems(s1, v))) |-> Undef])

\* assertArray(n): assertArray(), then an array shorter than n is resized
\* to n with Undef elements
AssertArraySize(s, v, n) ==
    LET s1 == AssertArray(s, v) IN
    IF s1.exc # "none" \/ ~Fits(s1) \/ Len(Elems(s1, v)) >= n THEN s1
    ELSE SetElems(s1, v, Elems(s1, v) \o [j \in 1..(n - Len(Elems(s1, v))) |-> Undef])

\* v[i] = e through operator[](int): a negative index throws
\* OutOfBoundsException, assertArray(i+1) converts Undef and grows the
\* array, then the element is assigned
IndexSet(v, i, e) ==
    LET s == AssertArraySize(Now, v, i + 1) IN
    IF i < 0 THEN Commit(Throw(Now, "bounds"))
    ELSE Fits(s) /\ Commit(IF s.exc # "none" THEN s
                           ELSE SetElems(s, v, [Elems(s, v) EXCEPT ![i + 1] = e]))

-----------------------------------------------------------------------------
(* Structs                                                                 *)

SetMember(s, v, k, e) ==
    SetMem(s, v, [x \in DOMAIN Mem(s, v) \cup {k} |-> IF x = k THEN e ELSE Mem(s, v)[x]])

\* push(key, val), and v[key] = val through the non-const operator[](key):
\* assertStruct(), then (*v_struct)[key] = val
PushKey(v, k, e) ==
    LET s == AssertStruct(Now, v) IN
    Fits(s) /\ Commit(IF s.exc # "none" THEN s ELSE SetMember(s, v, k, e))

\* the const operator[](key): the const assertStruct() throws for any type
\* but Struct, Undef included; then (*v_struct)[key] inserts a missing
\* member as Undef, although the value is const
ConstIndexKey(v, k) ==
    LET s == Use(Now, arg[v]) IN
    Commit(CASE arg[v].t # "Struct"    -> Throw(s, "type")
             [] k \in DOMAIN Mem(s, v) -> s
             [] OTHER                  -> SetMember(s, v, k, Undef))

\* erase(name): assertStruct() and v_struct->erase(name)
EraseKey(v, k) ==
    LET s == AssertStruct(Now, v) IN
    Fits(s) /\ Commit(IF s.exc # "none" THEN s
           ELSE SetMem(s, v, [x \in DOMAIN Mem(s, v) \ {k} |-> Mem(s, v)[x]]))

-----------------------------------------------------------------------------
(* A single-threaded program calls any member function on any variable;   *)
(* an abort ends it.  A value pushed or concatenated is a scalar or an     *)
(* array, so no container holds another.  A value is never assigned an    *)
(* element of itself (v = v[0]): operator= would read the element from    *)
(* the array its invalidate() just deleted.                                *)
Next ==
    \/ \E v, w \in Vars : Assign(v, w)
    \/ \E v \in Vars, i \in Ints : MakeInt(v, i)
    \/ \E v \in Vars : MakeRef(v) \/ Clear(v)
    \/ \E v, w \in Vars : v # w /\ arg[w].t \notin {"Struct", "Reference"} /\ Concat(v, w)
    \/ \E v \in Vars, e \in Scalars : Push(v, e)
    \/ \E v, w \in Vars : v # w /\ Pop(v, w)
    \/ \E v \in Vars, w \in Vars \cup {NoVar}, aborts \in BOOLEAN :
         v # w /\ PopBack(v, w, aborts)
    \/ \E v \in Vars, i \in 0..MaxLen - 1 : Erase(v, i)
    \/ \E v \in Vars, i \in -1..MaxLen - 1, e \in Scalars : IndexSet(v, i, e)
    \/ \E v \in Vars, k \in Keys, e \in Scalars : PushKey(v, k, e)
    \/ \E v \in Vars, k \in Keys : ConstIndexKey(v, k) \/ EraseKey(v, k)

Spec == Init /\ [][Next]_vars

-----------------------------------------------------------------------------
Types == {"Undef", "Int", "Array", "Struct", "Reference"}

\* Every value has one of the modelled types, arrays stay within MaxLen
\* elements, and counts and exceptions stay in range.
TypeOK ==
    /\ arg \in [Vars -> [t : Types, n : Ints \cup 0..Max({MaxAllocs, MaxRefs})]]
    /\ \A o \in 1..MaxAllocs : /\ heap[o].live \in BOOLEAN
                               /\ heap[o].elems \in BoundedSeq(Scalars, MaxLen)
                               /\ DOMAIN heap[o].mem \subseteq Keys
    /\ allocs \in 0..MaxAllocs
    /\ refs \in [1..MaxRefs -> [cnt : 0..Cardinality(Vars), deleted : BOOLEAN]]
    /\ exc \in {"none", "type", "bounds", "abort"}

Owners(o) == {v \in Vars : arg[v].t \in Container /\ arg[v].n = o}
Holders(r) == {v \in Vars : arg[v].t = "Reference" /\ arg[v].n = r}

\* Every ValueArray and ValueStruct allocated is owned by exactly one AmArg
\* while it lives and by none once deleted: operator= copies instead of
\* sharing, invalidate() deletes what the value owned, and no sequence of
\* assignments, pops, clears and conversions by assertArray/assertStruct
\* leaks an object or leaves two values pointing to one.
OwnershipExact ==
    \A o \in 1..allocs : Cardinality(Owners(o)) = IF heap[o].live THEN 1 ELSE 0

\* The count of every ValueRef equals the AmArgs that refer to it, and its
\* object is deleted exactly when the count reaches zero: the inc_ref of
\* AmArg(obj, true) and of operator= balance the dec_ref of invalidate().
RefCountExact ==
    \A r \in 1..nrefs : /\ refs[r].cnt = Cardinality(Holders(r))
                        /\ refs[r].deleted <=> refs[r].cnt = 0

\* No call reads or deletes an object or ValueRef that was already freed:
\* operator= does not invalidate its own source (the this != &v check).
NoUseAfterFree == ~uaf
=============================================================================
