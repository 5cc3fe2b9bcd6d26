------------------------------- MODULE Objects -------------------------------
(***************************************************************************)
(* The life of MutantC's objects: the garbage-collecting allocator class   *)
(* (src/gc_allocator_class.c), the string class as an example of what it   *)
(* allocates (src/string_class.c), and the trampolines both call their     *)
(* methods through (src/curry_func.c).                                     *)
(*                                                                         *)
(* A method is a slot of the object that holds a trampoline: a page of     *)
(* collected memory, written while it is RW and run while it is RX.  A     *)
(* call through a slot runs whatever the page holds by then.  The          *)
(* collector runs inside an allocation, so it may run between any two of   *)
(* the curry_func calls of an init, which are a step each.                 *)
(***************************************************************************)
EXTENDS Integers, Sequences, FiniteSets

CONSTANTS
  Objs,      \* the instances a program can have, Root among them
  Root,      \* gc_allocator_class_base, the static one init_root_allocator returns
  Tramps,    \* the pages trampolines can be put in
  None       \* NULL, and an instance that is not allocated

Classes == {"allocator", "string"}

(* The slots in the order init curries them, and those destroy uncurries   *)
(* and sets to NULL.  The allocator's destroy never mentions alloc_atomic, *)
(* and for new and delete it sets free to NULL once more; the string's     *)
(* leaves append_cstr dangling and its own destroy to delete.              *)
SlotOrder(class) ==
  IF class = "allocator"
    THEN <<"destroy", "prealloc", "alloc", "realloc", "alloc_atomic", "free", "new", "delete">>
    ELSE <<"destroy", "get_length", "set", "insert_cstr_at", "append_cstr", "print">>

Uncurried(class) ==
  IF class = "allocator"
    THEN {"destroy", "prealloc", "alloc", "realloc", "free", "new", "delete"}
    ELSE {"get_length", "set", "insert_cstr_at", "append_cstr", "print"}

Nulled(class) ==
  IF class = "allocator"
    THEN {"destroy", "prealloc", "alloc", "realloc", "free"}
    ELSE {"get_length", "set", "insert_cstr_at", "print"}

SlotNames == {"destroy", "prealloc", "alloc", "realloc", "alloc_atomic", "free", "new",
              "delete", "get_length", "set", "insert_cstr_at", "append_cstr", "print"}
Slots(class) == {SlotOrder(class)[i] : i \in DOMAIN SlotOrder(class)}

Instances == [class : Classes, slots : [SlotNames -> Tramps \cup {None}],
              allocator : Objs, rope_free : Tramps \cup {None}]
Inits == [obj : Objs, todo : Seq(SlotNames)]

ASSUME ObjectsAssumption ==
  /\ Root \in Objs
  /\ None \notin Objs /\ None \notin Tramps /\ None \notin SlotNames
  /\ None \notin Instances /\ None \notin Inits

(* What a program may do and better does not: forget an object it has not  *)
(* deleted, initialise the root again, delete an allocator by another or   *)
(* by itself.                                                              *)
Misuses == {"drop", "reinit", "deleteAllocator", "selfDelete"}

VARIABLES
  obj,       \* [Objs -> Instances \cup {None}]
  tramp,     \* [Tramps -> [used, prot, func, param]]
  building,  \* the object being initialised and the slots left to curry, or None
  ready,     \* the objects whose init has returned
  held,      \* the objects the program still has a pointer to
  fault,     \* "none", or what crashed: an "alloc", a "call" or a "delete"
  misused    \* history: what the program did of Misuses

vars == <<obj, tramp, building, ready, held, fault, misused>>

Running == fault = "none"

-----------------------------------------------------------------------------
(* curry_func: a zeroed page of the collector's, which faults if it is     *)
(* still RX from its last use, made RX once the code is in it.  Which free *)
(* page the collector hands out is left to CHOOSE.                         *)
FreePages == {t \in Tramps : ~tramp[t].used}
Page == CHOOSE t \in FreePages : TRUE
Trampoline(func, param) == [used |-> TRUE, prot |-> "RX", func |-> func, param |-> param]

(* free_curry: the page is made RW before it is given back.                *)
Freed == [used |-> FALSE, prot |-> "RW", func |-> None, param |-> None]
free_curry_left_RX(pages) ==  \* mutant: GC_FREE and no mprotect
  [t \in Tramps |-> IF t \in pages THEN [Freed EXCEPT !.prot = "RX"] ELSE tramp[t]]

free_curry(pages) == [t \in Tramps |-> IF t \in pages THEN Freed ELSE tramp[t]]

(* A call through a slot runs the method it was curried for.               *)
Runs(tr, t, func, param) ==
  /\ t # None
  /\ tr[t].used /\ tr[t].prot = "RX" /\ tr[t].func = func /\ tr[t].param = param
Method(o, s) == obj[o].slots[s]
Callable(o, s) == Runs(tramp, Method(o, s), s, o)

NoSlots == [s \in SlotNames |-> None]

(* init_root_allocator: init on the static instance, every time.           *)
init_root_allocator ==
  /\ Running /\ building = None
  /\ misused' = IF Root \in ready THEN misused \cup {"reinit"} ELSE misused
  /\ building' = [obj |-> Root, todo |-> SlotOrder("allocator")]
  /\ UNCHANGED <<obj, tramp, ready, held, fault>>

(* new: memory through the allocator's own alloc, and the class's init.    *)
new(a, o, class) ==
  /\ Running /\ building = None
  /\ a \in held \cap ready /\ obj[a].class = "allocator" /\ obj[o] = None
  /\ IF Callable(a, "new") /\ Callable(a, "alloc")
       THEN /\ obj' = [obj EXCEPT ![o] = [class |-> class, slots |-> NoSlots,
                                          allocator |-> a, rope_free |-> None]]
            /\ building' = [obj |-> o, todo |-> SlotOrder(class)]
            /\ UNCHANGED fault
       ELSE fault' = "call" /\ UNCHANGED <<obj, building>>
  /\ UNCHANGED <<tramp, ready, held, misused>>

NextSlot ==
  /\ Running /\ building # None /\ building.todo # <<>> /\ FreePages # {}
  /\ LET o == building.obj
         s == Head(building.todo)
     IN  IF tramp[Page].prot = "RX"
           THEN fault' = "alloc" /\ UNCHANGED <<obj, tramp, building>>
           ELSE /\ tramp' = [tramp EXCEPT ![Page] = Trampoline(s, o)]
                /\ obj' = [obj EXCEPT ![o].slots[s] = Page]
                /\ building' = [building EXCEPT !.todo = Tail(@)]
                /\ UNCHANGED fault
  /\ UNCHANGED <<ready, held, misused>>

(* The last of init: a string makes its rope with the allocator's alloc,   *)
(* and the rope keeps the allocator's alloc, realloc and free for itself.  *)
(* Then the program has its object.                                        *)
ArgumentsSwapped(a) == Method(a, "realloc")  \* mutant: rope_new2(alloc, free, realloc)

RopeFreeOf(a) == Method(a, "free")

InitReturns ==
  /\ Running /\ building # None /\ building.todo = <<>>
  /\ LET o == building.obj
     IN  /\ obj' = IF obj[o].class = "allocator" THEN obj
                   ELSE [obj EXCEPT ![o].rope_free = RopeFreeOf(obj[o].allocator)]
         /\ ready' = ready \cup {o} /\ held' = held \cup {o}
         /\ fault' = IF obj[o].class = "allocator" \/ Callable(obj[o].allocator, "alloc")
                       THEN "none" ELSE "call"
  /\ building' = None /\ UNCHANGED <<tramp, misused>>

-----------------------------------------------------------------------------
(* delete, through an allocator's slot: obj->destroy(), which for a string *)
(* frees its rope through the rope's own free and then uncurries the       *)
(* methods; free_curry(obj->destroy), which is NULL by then for an         *)
(* allocator and harmless; this->free(obj), through the slot as destroy    *)
(* left it.                                                                *)
Pages(o, names) == {Method(o, s) : s \in names} \ {None}

LeavesDestroyCurried(o) ==  \* mutant: no free_curry(obj->destroy)
  free_curry(Pages(o, Uncurried(obj[o].class)))

AfterDestroy(o) == free_curry(Pages(o, Uncurried(obj[o].class) \cup {"destroy"}))

FreeSlotAfter(a, o) ==
  IF a = o /\ "free" \in Nulled("allocator") THEN None ELSE Method(a, "free")

RopeFrees(o) ==
  obj[o].class = "string" =>
    \E a \in Objs : Runs(tramp, obj[o].rope_free, "free", a)

Deletes(a, o) ==
  IF a = o THEN {"selfDelete"}
  ELSE IF obj[o].class = "allocator" THEN {"deleteAllocator"} ELSE {}

delete(a, o) ==
  /\ Running /\ building = None
  /\ a \in held \cap ready /\ obj[a].class = "allocator"
  /\ o \in (held \cap ready) \ {Root}
  /\ misused' = misused \cup Deletes(a, o)
  /\ IF ~(Callable(a, "delete") /\ Callable(o, "destroy") /\ RopeFrees(o))
       THEN fault' = "call" /\ UNCHANGED <<obj, tramp, ready, held>>
     ELSE IF ~Runs(AfterDestroy(o), FreeSlotAfter(a, o), "free", a)
       THEN fault' = "delete" /\ tramp' = AfterDestroy(o) /\ UNCHANGED <<obj, ready, held>>
     ELSE /\ tramp' = AfterDestroy(o)
          /\ obj' = [obj EXCEPT ![o] = None]
          /\ ready' = ready \ {o} /\ held' = held \ {o}
          /\ UNCHANGED fault
  /\ UNCHANGED building

(* A program that forgets an object, as it may any other collected memory. *)
drop(o) ==
  /\ Running /\ building = None /\ o \in held \ {Root}
  /\ held' = held \ {o} /\ misused' = misused \cup {"drop"}
  /\ UNCHANGED <<obj, tramp, building, ready, fault>>

(* The collector takes what the program, the static root and the object    *)
(* under construction do not reach, through the allocator an object points *)
(* to and the trampolines its slots and its rope hold.  It finds no object *)
(* through a trampoline, which has the parameter at an odd address, and    *)
(* gives a page back with the protection it had.                           *)
Roots == held \cup {Root} \cup (IF building = None THEN {} ELSE {building.obj})
Reachable ==
  {o \in Objs : \A S \in SUBSET Objs :
     Roots \subseteq S /\ (\A x \in S : obj[x] # None => obj[x].allocator \in S) => o \in S}
AllocatedAtomic(o, t) ==  \* mutant: new takes GC_MALLOC_ATOMIC memory, never scanned
  obj[o] # None /\ (obj[o].rope_free = t \/ (o = Root /\ \E s \in SlotNames : Method(o, s) = t))

Refers(o, t) == obj[o] # None /\ (obj[o].rope_free = t \/ \E s \in SlotNames : Method(o, s) = t)
ReachedPages(live) == {t \in Tramps : \E o \in live : Refers(o, t)}

collect ==
  /\ Running
  /\ LET live  == Reachable
         pages == ReachedPages(live)
     IN  /\ obj' = [o \in Objs |-> IF o \in live THEN obj[o] ELSE None]
         /\ tramp' = [t \in Tramps |-> IF t \in pages THEN tramp[t]
                                       ELSE [Freed EXCEPT !.prot = tramp[t].prot]]
         /\ ready' = ready \cap live
  /\ UNCHANGED <<building, held, fault, misused>>

-----------------------------------------------------------------------------
Init ==
  /\ obj = [o \in Objs |-> IF o = Root THEN [class |-> "allocator", slots |-> NoSlots,
                                             allocator |-> Root, rope_free |-> None]
                           ELSE None]
  /\ tramp = [t \in Tramps |-> Freed]
  /\ building = None /\ ready = {} /\ held = {} /\ fault = "none"
  /\ misused = {}

Next ==
  \/ init_root_allocator \/ NextSlot \/ InitReturns \/ collect
  \/ \E a, o \in Objs : delete(a, o) \/ \E class \in Classes : new(a, o, class)
  \/ \E o \in Objs : drop(o)

Spec == Init /\ [][Next]_vars

-----------------------------------------------------------------------------
TypeOK ==
  /\ obj \in [Objs -> Instances \cup {None}]
  /\ tramp \in [Tramps -> [used : BOOLEAN, prot : {"RW", "RX"},
                           func : SlotNames \cup {None}, param : Objs \cup {None}]]
  /\ building \in Inits \cup {None}
  /\ ready \subseteq Objs /\ held \subseteq ready
  /\ fault \in {"none", "alloc", "call", "delete"}
  /\ misused \subseteq Misuses

(* As long as no allocator is deleted, a method pointer of a live object  *)
(* runs that method on that object: no page was freed, collected or reused *)
(* under it, whatever else was deleted, forgotten or initialised again and *)
(* whenever the collector ran.                                             *)
KeepsAllocators == misused \cap {"deleteAllocator", "selfDelete"} = {}
MethodsCallable ==
  KeepsAllocators => \A o \in ready : \A s \in Slots(obj[o].class) : Callable(o, s)

(* And a string can free its rope: the allocator it came from, whose free  *)
(* the rope kept, has not lost that trampoline.                            *)
EveryRopeFrees == \A o \in ready : RopeFrees(o)
RopesFreeable == KeepsAllocators => EveryRopeFrees

(* In a program that deletes what it makes, a page that is free can be     *)
(* written by whoever gets it next.                                        *)
PagesWritable == \A t \in FreePages : tramp[t].prot = "RW"
FreePagesWritable == misused = {} => PagesWritable

(* In such a program a trampoline in use is in a slot of the object it was *)
(* curried for: init, destroy and delete leave none behind.                *)
NoneLeft ==
  \A t \in Tramps : tramp[t].used =>
    /\ obj[tramp[t].param] # None
    /\ Method(tramp[t].param, tramp[t].func) = t
NoOrphans == misused = {} => NoneLeft
=============================================================================
