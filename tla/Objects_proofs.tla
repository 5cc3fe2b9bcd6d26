---------------------------- MODULE Objects_proofs ----------------------------
(***************************************************************************)
(* What a program can rely on from Objects, for any number of objects and  *)
(* pages.  First, as long as no allocator is deleted: whatever else the    *)
(* program forgets, deletes or initialises again, the methods of the       *)
(* objects it has can be called and their ropes can be freed.  Second, a   *)
(* program that deletes what it makes loses no page.  Last, the trampoline *)
(* those calls go through.                                                 *)
(***************************************************************************)
EXTENDS Objects, CurryCall, TLAPS

(* The static root is an allocator, and an initialised object is there.    *)
Alive ==
  /\ obj[Root] # None /\ obj[Root].class = "allocator"
  /\ \A o \in ready : obj[o] # None

(* A slot that is not NULL holds the trampoline of its method.             *)
Curried ==
  \A o \in Objs, s \in SlotNames :
    obj[o] # None /\ Method(o, s) # None =>
      Callable(o, s) /\ s \in Slots(obj[o].class)

(* After init no slot of the class is NULL.                                *)
Filled == \A o \in ready : \A s \in Slots(obj[o].class) : Method(o, s) # None

(* During init, only the slots still to be curried are.                    *)
ToDo == {building.todo[i] : i \in DOMAIN building.todo}
UnderWay ==
  building # None =>
    /\ obj[building.obj] # None
    /\ ToDo \subseteq Slots(obj[building.obj].class)
    /\ \A s \in Slots(obj[building.obj].class) : Method(building.obj, s) # None \/ s \in ToDo
    /\ obj[building.obj].class = "string" =>
         /\ obj[building.obj].allocator \in ready
         /\ obj[obj[building.obj].allocator].class = "allocator"

IInv == TypeOK /\ Alive /\ Curried /\ Filled /\ UnderWay /\ EveryRopeFrees

(* The slots of the two classes.                                           *)
LEMMA SlotsAre ==
  /\ Slots("allocator") = {"destroy", "prealloc", "alloc", "realloc", "alloc_atomic",
                           "free", "new", "delete"}
  /\ Slots("string") = {"destroy", "get_length", "set", "insert_cstr_at", "append_cstr", "print"}
  /\ \A c \in Classes : Slots(c) \subseteq SlotNames
  /\ \A c \in Classes : SlotOrder(c) \in Seq(SlotNames)
<1>1. /\ SlotOrder("allocator") \in Seq(SlotNames) /\ DOMAIN SlotOrder("allocator") = 1 .. 8
      /\ SlotOrder("string") \in Seq(SlotNames) /\ DOMAIN SlotOrder("string") = 1 .. 6
  BY DEF SlotOrder, SlotNames
<1>2. Slots("allocator") = {"destroy", "prealloc", "alloc", "realloc", "alloc_atomic",
                            "free", "new", "delete"}
  BY <1>1 DEF Slots, SlotOrder
<1>3. Slots("string") = {"destroy", "get_length", "set", "insert_cstr_at", "append_cstr", "print"}
  BY <1>1 DEF Slots, SlotOrder
<1> QED BY <1>1, <1>2, <1>3 DEF Classes, SlotNames

(* The state of an object, from TypeOK.                                    *)
LEMMA ObjTypes ==
  ASSUME TypeOK, NEW o \in Objs, obj[o] # None
  PROVE  /\ obj[o] \in Instances /\ obj[o].class \in Classes /\ obj[o].allocator \in Objs
         /\ obj[o].slots \in [SlotNames -> Tramps \cup {None}]
         /\ obj[o].rope_free \in Tramps \cup {None}
         /\ \A s \in SlotNames : Method(o, s) \in Tramps \cup {None}
<1>1. obj[o] \in Instances  BY DEF TypeOK
<1> QED BY <1>1 DEF Instances, Method

(* At the start there is only the root, with no slot curried.              *)
LEMMA InitHolds == Init => IInv
<1> SUFFICES ASSUME Init PROVE IInv  OBVIOUS
<1>1. obj[Root] \in Instances
  BY ObjectsAssumption DEF Init, Instances, NoSlots, Classes
<1>2. TypeOK
  BY <1>1, ObjectsAssumption DEF Init, TypeOK, Freed
<1>3. Alive /\ Curried /\ Filled /\ UnderWay /\ EveryRopeFrees
  BY <1>1, ObjectsAssumption
     DEF Init, Alive, Curried, Filled, UnderWay, EveryRopeFrees, NoSlots, Method
<1> QED BY <1>2, <1>3 DEF IInv

(* What a ready object's methods and rope come to.                         *)
LEMMA ReadyCallable ==
  ASSUME IInv, NEW o \in ready, NEW s \in Slots(obj[o].class)
  PROVE  Callable(o, s) /\ Method(o, s) \in Tramps
<1>1. o \in Objs /\ obj[o] # None /\ TypeOK  BY DEF IInv, TypeOK, Alive
<1>2. s \in SlotNames  BY <1>1, ObjTypes, SlotsAre
<1>3. Method(o, s) # None  BY DEF IInv, Filled
<1> QED BY <1>1, <1>2, <1>3, ObjTypes DEF IInv, Curried

(* init_root_allocator leaves every slot to curry.                         *)
LEMMA RootKeeps == ASSUME IInv, init_root_allocator PROVE IInv'
<1>1. obj' = obj /\ tramp' = tramp /\ ready' = ready /\ held' = held /\ fault' = fault
  BY DEF init_root_allocator
<1>2. building' = [obj |-> Root, todo |-> SlotOrder("allocator")]
  BY DEF init_root_allocator
<1>3. building' \in Inits
  BY <1>2, SlotsAre, ObjectsAssumption DEF Inits, Classes
<1>4. TypeOK'
  <2>1. misused \subseteq Misuses => misused' \subseteq Misuses
    BY DEF init_root_allocator, Misuses
  <2> QED BY <1>1, <1>3, <2>1 DEF IInv, TypeOK
<1>5. ToDo' = Slots("allocator")  BY <1>2 DEF ToDo, Slots
<1>6. UnderWay'
  BY <1>1, <1>2, <1>5 DEF UnderWay, IInv, Alive
<1>7. (Alive /\ Curried /\ Filled /\ EveryRopeFrees)'
  BY <1>1 DEF IInv, Alive, Curried, Filled, EveryRopeFrees, RopeFrees, Callable, Runs, Method
<1> QED BY <1>4, <1>6, <1>7 DEF IInv

(* new makes an object with no slot yet.                                   *)
LEMMA NewKeeps ==
  ASSUME IInv, NEW a \in Objs, NEW o \in Objs, NEW class \in Classes, new(a, o, class)
  PROVE  IInv'
<1>1. tramp' = tramp /\ ready' = ready /\ held' = held /\ building = None /\ obj[o] = None
      /\ misused' = misused /\ a \in ready /\ obj[a].class = "allocator"
  BY DEF new
<1>2. CASE fault' = "call" /\ UNCHANGED <<obj, building>>
  BY <1>1, <1>2 DEF IInv, TypeOK, Alive, Curried, Filled, UnderWay, EveryRopeFrees,
                    RopeFrees, Callable, Runs, Method
<1>3. CASE /\ obj' = [obj EXCEPT ![o] = [class |-> class, slots |-> NoSlots,
                                         allocator |-> a, rope_free |-> None]]
           /\ building' = [obj |-> o, todo |-> SlotOrder(class)]
           /\ UNCHANGED fault
  <2>1. [class |-> class, slots |-> NoSlots, allocator |-> a, rope_free |-> None] \in Instances
    BY DEF Instances, NoSlots
  <2>2. obj \in [Objs -> Instances \cup {None}] /\ ready \subseteq Objs
    BY DEF IInv, TypeOK
  <2>3. /\ obj'[o] # None /\ obj'[o].class = class /\ obj'[o].slots = NoSlots
        /\ obj'[o].allocator = a /\ obj'[o] \in Instances
        /\ \A x \in Objs : x # o => obj'[x] = obj[x]
    BY <1>3, <2>1, <2>2, ObjectsAssumption
  <2>4. building' \in Inits
    BY <1>3, SlotsAre DEF Inits
  <2>5. TypeOK'
    BY <1>1, <1>3, <2>2, <2>1, <2>4 DEF IInv, TypeOK
  <2>6. o \notin ready /\ o # Root /\ a # o
    BY <1>1 DEF IInv, Alive
  <2>7. \A s \in SlotNames : obj'[o].slots[s] = None
    BY <2>3 DEF NoSlots
  <2>8. ToDo' = Slots(class)
    BY <1>3 DEF ToDo, Slots
  <2>9. Alive'
    BY <1>1, <2>2, <2>3, <2>6, ObjectsAssumption DEF IInv, Alive
  <2>10. Curried'
    BY <1>1, <2>3, <2>7 DEF IInv, Curried, Callable, Runs, Method
  <2>11. Filled' /\ EveryRopeFrees'
    BY <1>1, <2>2, <2>3, <2>6 DEF IInv, Filled, EveryRopeFrees, RopeFrees, Runs, Method
  <2>12. UnderWay'
    BY <1>1, <1>3, <2>2, <2>3, <2>6, <2>8 DEF UnderWay, Method
  <2> QED BY <2>5, <2>9, <2>10, <2>11, <2>12 DEF IInv
<1> QED BY <1>2, <1>3 DEF new

(* The page of a free trampoline is in nobody's slot.                      *)
LEMMA SlotKeeps == ASSUME IInv, NextSlot PROVE IInv'
<1>0. PICK o, s : o = building.obj /\ s = Head(building.todo)  OBVIOUS
<1>1. /\ building # None /\ building.todo # <<>> /\ FreePages # {}
      /\ ready' = ready /\ held' = held /\ misused' = misused
  BY DEF NextSlot
<1>2. TypeOK  BY DEF IInv
<1>3. /\ building \in Inits /\ o \in Objs /\ building.todo \in Seq(SlotNames)
      /\ s \in SlotNames /\ s \in ToDo
  BY <1>0, <1>1, <1>2 DEF TypeOK, Inits, ToDo
<1>4. obj[o] # None /\ s \in Slots(obj[o].class)
  BY <1>0, <1>1, <1>3 DEF IInv, UnderWay
<1>5. Page \in Tramps /\ ~tramp[Page].used /\ Page # None
  BY <1>1, ObjectsAssumption DEF Page, FreePages
<1>6. CASE fault' = "alloc" /\ UNCHANGED <<obj, tramp, building>>
  BY <1>1, <1>6 DEF IInv, TypeOK, Alive, Curried, Filled, UnderWay, EveryRopeFrees, ToDo,
                    RopeFrees, Callable, Runs, Method
<1>7. CASE /\ tramp' = [tramp EXCEPT ![Page] = Trampoline(s, o)]
           /\ obj' = [obj EXCEPT ![o].slots[s] = Page]
           /\ building' = [building EXCEPT !.todo = Tail(@)]
           /\ UNCHANGED fault
  <2>1. /\ obj \in [Objs -> Instances \cup {None}] /\ ready \subseteq Objs
        /\ tramp \in [Tramps -> [used : BOOLEAN, prot : {"RW", "RX"},
                         func : SlotNames \cup {None}, param : Objs \cup {None}]]
    BY <1>2 DEF TypeOK
  <2>2. obj[o] \in Instances /\ obj[o].slots \in [SlotNames -> Tramps \cup {None}]
    BY <1>2, <1>3, <1>4, ObjTypes
  <2>3. /\ obj'[o] \in Instances /\ obj'[o] # None
        /\ obj'[o].class = obj[o].class /\ obj'[o].allocator = obj[o].allocator
        /\ obj'[o].rope_free = obj[o].rope_free
        /\ obj'[o].slots = [obj[o].slots EXCEPT ![s] = Page]
        /\ \A x \in Objs : x # o => obj'[x] = obj[x]
    <3>1. obj'[o] = [obj[o] EXCEPT !.slots = [obj[o].slots EXCEPT ![s] = Page]]
      BY <1>3, <1>7, <2>1
    <3>2. [obj[o].slots EXCEPT ![s] = Page] \in [SlotNames -> Tramps \cup {None}]
      BY <2>2, <1>5, <1>3
    <3> QED BY <3>1, <3>2, <2>1, <2>2, <1>3, <1>7, ObjectsAssumption DEF Instances
  <2>4. /\ Method(o, s)' = Page
        /\ \A x \in Objs, r \in SlotNames : x # o \/ r # s => Method(x, r)' = Method(x, r)
    BY <1>3, <2>2, <2>3 DEF Method
  <2>5. /\ tramp'[Page] = Trampoline(s, o)
        /\ \A t \in Tramps : t # Page => tramp'[t] = tramp[t]
    BY <1>5, <1>7, <2>1
  <2>6. \A t \in Tramps : \A f, x : Runs(tramp, t, f, x) => Runs(tramp', t, f, x)
    BY <1>5, <2>5 DEF Runs
  <2>7. /\ building' \in Inits /\ building' # None /\ building'.obj = o
        /\ ToDo' \subseteq ToDo /\ ToDo \subseteq ToDo' \cup {s}
    <3>1. Tail(building.todo) \in Seq(SlotNames)
      BY <1>1, <1>3
    <3>2. building' = [obj |-> o, todo |-> Tail(building.todo)]
      BY <1>0, <1>3, <1>7 DEF Inits
    <3>3. /\ DOMAIN building.todo = 1 .. Len(building.todo) /\ Len(building.todo) \in Nat
          /\ Len(building.todo) # 0
          /\ DOMAIN Tail(building.todo) = 1 .. Len(building.todo) - 1
          /\ \A i \in 1 .. Len(building.todo) - 1 : Tail(building.todo)[i] = building.todo[i + 1]
      BY <1>1, <1>3
    <3>4. ToDo' \subseteq ToDo
      BY <3>2, <3>3 DEF ToDo
    <3>5. ASSUME NEW i \in DOMAIN building.todo PROVE building.todo[i] \in ToDo' \cup {s}
      <4>1. CASE i = 1
        <5>1. s = building.todo[1]  BY <1>0, <1>1, <1>3
        <5> QED BY <4>1, <5>1
      <4>2. CASE i # 1
        <5>1. i - 1 \in 1 .. Len(building.todo) - 1 /\ (i - 1) + 1 = i  BY <4>2, <3>3
        <5> QED BY <5>1, <3>2, <3>3 DEF ToDo
      <4> QED BY <4>1, <4>2
    <3>6. building' \in Inits /\ building' # None /\ building'.obj = o
      BY <3>1, <3>2, <1>3, ObjectsAssumption, SMTT(20) DEF Inits
    <3>7. \A y \in ToDo : y \in ToDo' \cup {s}
      <4> TAKE y \in ToDo
      <4>1. PICK i \in DOMAIN building.todo : y = building.todo[i]  BY DEF ToDo
      <4> QED BY <4>1, <3>5
    <3> QED BY <3>4, <3>6, <3>7
  <2>8. TypeOK'
    <3>1. tramp' \in [Tramps -> [used : BOOLEAN, prot : {"RW", "RX"},
                        func : SlotNames \cup {None}, param : Objs \cup {None}]]
      BY <1>3, <1>7, <2>1, <2>5 DEF Trampoline
    <3>2. obj' \in [Objs -> Instances \cup {None}]
      BY <1>7, <2>1, <2>3
    <3> QED BY <3>1, <3>2, <1>1, <1>2, <1>7, <2>7 DEF TypeOK
  <2>9. Alive'
    BY <1>1, <2>1, <2>3, ObjectsAssumption DEF IInv, Alive
  <2>10. Curried'
    <3> SUFFICES ASSUME NEW x \in Objs, NEW r \in SlotNames, obj'[x] # None, Method(x, r)' # None
                 PROVE  Callable(x, r)' /\ r \in Slots(obj'[x].class)
      BY DEF Curried
    <3>1. CASE x = o /\ r = s
      BY <3>1, <1>4, <1>5, <2>3, <2>4, <2>5 DEF Callable, Runs, Trampoline
    <3>2. CASE x # o \/ r # s
      <4>1. obj[x] # None /\ Method(x, r)' = Method(x, r) /\ obj'[x].class = obj[x].class
        BY <3>2, <1>4, <2>3, <2>4
      <4>2. Callable(x, r) /\ r \in Slots(obj[x].class) /\ Method(x, r) \in Tramps
        BY <4>1, <1>2, ObjTypes DEF IInv, Curried
      <4> QED BY <4>1, <4>2, <2>6 DEF Callable
    <3> QED BY <3>1, <3>2
  <2>11. Filled'
    <3> SUFFICES ASSUME NEW x \in ready, NEW r \in Slots(obj'[x].class) PROVE Method(x, r)' # None
      BY <1>1 DEF Filled
    <3>1. x \in Objs /\ obj[x] # None /\ obj'[x].class = obj[x].class
      BY <2>1, <2>3 DEF IInv, Alive
    <3>2. r \in SlotNames  BY <3>1, <1>2, ObjTypes, SlotsAre
    <3>3. Method(x, r) # None  BY <3>1 DEF IInv, Filled
    <3> QED BY <3>1, <3>2, <3>3, <2>4, <1>5
  <2>12. UnderWay'
    <3>1. /\ ToDo \subseteq Slots(obj[o].class)
          /\ \A r \in Slots(obj[o].class) : Method(o, r) # None \/ r \in ToDo
          /\ obj[o].class = "string" => /\ obj[o].allocator \in ready
                                        /\ obj[obj[o].allocator].class = "allocator"
      BY <1>0, <1>1 DEF IInv, UnderWay
    <3>2. \A r \in Slots(obj[o].class) : Method(o, r)' # None \/ r \in ToDo'
      <4> TAKE r \in Slots(obj[o].class)
      <4>1. r \in SlotNames  BY <1>2, <1>3, <1>4, ObjTypes, SlotsAre
      <4> QED BY <4>1, <3>1, <1>3, <1>5, <2>4, <2>7
    <3>3. obj[o].class = "string" => obj'[obj[o].allocator].class = "allocator"
      BY <3>1, <2>1, <2>3
    <3> QED BY <3>1, <3>2, <3>3, <1>1, <2>3, <2>7 DEF UnderWay
  <2>13. EveryRopeFrees'
    <3> SUFFICES ASSUME NEW x \in ready, obj'[x].class = "string"
                 PROVE  \E a \in Objs : Runs(tramp', obj'[x].rope_free, "free", a)
      BY <1>1 DEF EveryRopeFrees, RopeFrees
    <3>1. x \in Objs /\ obj[x] # None /\ obj'[x].class = obj[x].class
          /\ obj'[x].rope_free = obj[x].rope_free
      BY <2>1, <2>3 DEF IInv, Alive
    <3>2. PICK a \in Objs : Runs(tramp, obj[x].rope_free, "free", a)
      BY <3>1 DEF IInv, EveryRopeFrees, RopeFrees
    <3>3. obj[x].rope_free \in Tramps
      BY <3>1, <3>2, <1>2, ObjTypes DEF Runs
    <3> QED BY <3>1, <3>2, <3>3, <2>6
  <2> QED BY <2>8, <2>9, <2>10, <2>11, <2>12, <2>13 DEF IInv
<1> QED BY <1>0, <1>6, <1>7 DEF NextSlot

(* An object whose init returns has all its slots, and a string's rope the *)
(* free of an allocator that is ready.                                     *)
LEMMA ReturnKeeps == ASSUME IInv, InitReturns PROVE IInv'
<1>0. PICK o : o = building.obj  OBVIOUS
<1>1. /\ building # None /\ building.todo = <<>> /\ building' = None /\ tramp' = tramp
      /\ ready' = ready \cup {o} /\ held' = held \cup {o} /\ fault' \in {"none", "call"}
      /\ misused' = misused
      /\ obj' = IF obj[o].class = "allocator" THEN obj
                ELSE [obj EXCEPT ![o].rope_free = RopeFreeOf(obj[o].allocator)]
  BY <1>0 DEF InitReturns
<1>2. /\ TypeOK /\ building \in Inits /\ o \in Objs /\ obj[o] # None
      /\ obj \in [Objs -> Instances \cup {None}] /\ ready \subseteq Objs
  BY <1>0, <1>1 DEF IInv, UnderWay, TypeOK, Inits
<1>3. \A s \in Slots(obj[o].class) : Method(o, s) # None
  BY <1>0, <1>1 DEF IInv, UnderWay, ToDo
<1>4. obj[o].class \in {"allocator", "string"} /\ obj[o] \in Instances
  BY <1>2, ObjTypes DEF Classes
<1>5. obj[o].class = "string" =>
        /\ obj[o].allocator \in Objs
        /\ Callable(obj[o].allocator, "free")
        /\ Method(obj[o].allocator, "free") \in Tramps
  <2> SUFFICES ASSUME obj[o].class = "string"
               PROVE  /\ obj[o].allocator \in Objs
                      /\ Callable(obj[o].allocator, "free")
                      /\ Method(obj[o].allocator, "free") \in Tramps
    OBVIOUS
  <2>1. obj[o].allocator \in ready /\ obj[obj[o].allocator].class = "allocator"
    BY <1>0, <1>1 DEF IInv, UnderWay
  <2>2. "free" \in Slots(obj[obj[o].allocator].class)  BY <2>1, SlotsAre
  <2> QED BY <2>1, <2>2, <1>2, ReadyCallable
<1>6. /\ obj' \in [Objs -> Instances \cup {None}]
      /\ \A x \in Objs : obj'[x] # None <=> obj[x] # None
      /\ \A x \in Objs : obj[x] # None =>
           /\ obj'[x].class = obj[x].class /\ obj'[x].slots = obj[x].slots
           /\ x # o => obj'[x] = obj[x]
      /\ obj[o].class = "string" => obj'[o].rope_free = Method(obj[o].allocator, "free")
  <2>1. CASE obj[o].class = "allocator"  BY <2>1, <1>1, <1>2
  <2>2. CASE obj[o].class = "string"
    <3>1. obj' = [obj EXCEPT ![o] = [obj[o] EXCEPT !.rope_free = Method(obj[o].allocator, "free")]]
      BY <2>2, <1>1 DEF RopeFreeOf
    <3>2. [obj[o] EXCEPT !.rope_free = Method(obj[o].allocator, "free")] \in Instances
      BY <2>2, <1>4, <1>5 DEF Instances
    <3>3. /\ obj'[o] = [obj[o] EXCEPT !.rope_free = Method(obj[o].allocator, "free")]
          /\ \A x \in Objs : x # o => obj'[x] = obj[x]
      BY <3>1, <1>2
    <3>4. obj'[o] # None /\ obj'[o].class = obj[o].class /\ obj'[o].slots = obj[o].slots
          /\ obj'[o].rope_free = Method(obj[o].allocator, "free")
      BY <3>2, <3>3, <1>4, ObjectsAssumption DEF Instances
    <3>5. obj' \in [Objs -> Instances \cup {None}]  BY <3>1, <3>2, <1>2
    <3> QED BY <3>3, <3>4, <3>5, <1>2
  <2> QED BY <2>1, <2>2, <1>4
<1>7. \A x \in Objs, s \in SlotNames : obj[x] # None => Method(x, s)' = Method(x, s)
  BY <1>6 DEF Method
<1>8. TypeOK'
  BY <1>1, <1>2, <1>6 DEF TypeOK
<1>9. Alive' /\ UnderWay'
  BY <1>1, <1>2, <1>6, ObjectsAssumption DEF IInv, Alive, UnderWay
<1>10. Curried'
  BY <1>1, <1>2, <1>6, <1>7 DEF IInv, Curried, Callable, Runs
<1>11. Filled'
  <2> SUFFICES ASSUME NEW x \in ready \cup {o}, NEW s \in Slots(obj'[x].class)
               PROVE  Method(x, s)' # None
    BY <1>1 DEF Filled
  <2>1. x \in Objs /\ obj[x] # None  BY <1>2 DEF IInv, Alive
  <2>2. s \in Slots(obj[x].class) /\ s \in SlotNames
    BY <2>1, <1>2, <1>6, ObjTypes, SlotsAre
  <2>3. Method(x, s) # None  BY <2>2, <1>3 DEF IInv, Filled
  <2> QED BY <2>1, <2>2, <2>3, <1>7
<1>12. EveryRopeFrees'
  <2> SUFFICES ASSUME NEW x \in ready \cup {o}, obj'[x].class = "string"
               PROVE  \E a \in Objs : Runs(tramp, obj'[x].rope_free, "free", a)
    BY <1>1 DEF EveryRopeFrees, RopeFrees
  <2>1. x \in Objs /\ obj[x] # None  BY <1>2 DEF IInv, Alive
  <2>2. CASE x = o
    BY <2>1, <2>2, <1>5, <1>6 DEF Callable
  <2>3. CASE x # o
    BY <2>1, <2>3, <1>6 DEF IInv, EveryRopeFrees, RopeFrees
  <2> QED BY <2>2, <2>3
<1> QED BY <1>8, <1>9, <1>10, <1>11, <1>12 DEF IInv

(* While no allocator is deleted, delete takes a string and none of the    *)
(* pages it frees is another object's, or a rope's.                        *)
LEMMA DeleteKeeps ==
  ASSUME IInv, KeepsAllocators', NEW a \in Objs, NEW o \in Objs, delete(a, o)
  PROVE  IInv'
<1>1. /\ building = None /\ building' = building /\ TypeOK
      /\ a \in ready /\ obj[a].class = "allocator" /\ o \in ready /\ o # Root
      /\ a # o /\ obj[o].class # "allocator" /\ misused' = misused
  BY DEF delete, Deletes, KeepsAllocators, IInv
<1>2. /\ obj[o] # None /\ obj[o].class = "string" /\ obj[a] # None
      /\ obj \in [Objs -> Instances \cup {None}] /\ ready \subseteq Objs
  BY <1>1, ObjTypes DEF IInv, Alive, TypeOK, Classes
<1>3. DEFINE pages == Pages(o, Uncurried(obj[o].class) \cup {"destroy"})
<1>4. \A t \in pages : /\ t \in Tramps /\ tramp[t].param = o /\ tramp[t].func # "free"
  <2> TAKE t \in pages
  <2>1. PICK s \in Uncurried("string") \cup {"destroy"} : t = Method(o, s) /\ t # None
    BY <1>2 DEF Pages
  <2>2. s \in SlotNames /\ s # "free"  BY <2>1 DEF Uncurried, SlotNames
  <2>3. Callable(o, s) /\ Method(o, s) \in Tramps
    BY <2>1, <2>2, <1>1, <1>2, ObjTypes DEF IInv, Curried
  <2> QED BY <2>1, <2>2, <2>3 DEF Callable, Runs
<1>5. \A t \in Tramps : \A f, x : Runs(tramp, t, f, x) /\ (x # o \/ f = "free")
        => Runs(AfterDestroy(o), t, f, x)
  <2> TAKE t \in Tramps
  <2> TAKE f, x
  <2> SUFFICES ASSUME Runs(tramp, t, f, x), x # o \/ f = "free" PROVE Runs(AfterDestroy(o), t, f, x)
    OBVIOUS
  <2>1. t \notin pages  BY <1>4 DEF Runs
  <2>2. AfterDestroy(o)[t] = tramp[t]
    BY <2>1 DEF AfterDestroy, free_curry
  <2> QED BY <2>2 DEF Runs
<1>6. Runs(AfterDestroy(o), FreeSlotAfter(a, o), "free", a)
  <2>1. "free" \in Slots(obj[a].class)  BY <1>1, SlotsAre
  <2>2. Callable(a, "free") /\ Method(a, "free") \in Tramps
    BY <2>1, <1>1, ReadyCallable
  <2> QED BY <2>2, <1>1, <1>5 DEF Callable, FreeSlotAfter
<1>7. CASE fault' = "call" /\ UNCHANGED <<obj, tramp, ready, held>>
  BY <1>1, <1>7 DEF IInv, TypeOK, Alive, Curried, Filled, UnderWay, EveryRopeFrees,
                    RopeFrees, Callable, Runs, Method
<1>8. CASE /\ tramp' = AfterDestroy(o) /\ obj' = [obj EXCEPT ![o] = None]
           /\ ready' = ready \ {o} /\ held' = held \ {o} /\ fault' = fault
  <2>1. /\ obj'[o] = None /\ \A x \in Objs : x # o => obj'[x] = obj[x]
        /\ obj' \in [Objs -> Instances \cup {None}]
    BY <1>2, <1>8
  <2>2. tramp' \in [Tramps -> [used : BOOLEAN, prot : {"RW", "RX"},
                      func : SlotNames \cup {None}, param : Objs \cup {None}]]
    BY <1>1, <1>8 DEF AfterDestroy, free_curry, Freed, TypeOK
  <2>3. TypeOK'  BY <1>1, <1>8, <2>1, <2>2 DEF TypeOK
  <2>4. Alive' /\ Filled' /\ UnderWay'
    BY <1>1, <1>2, <1>8, <2>1, ObjectsAssumption DEF IInv, Alive, Filled, UnderWay, Method
  <2>5. Curried'
    <3> SUFFICES ASSUME NEW x \in Objs, NEW s \in SlotNames, obj'[x] # None, Method(x, s)' # None
                 PROVE  Callable(x, s)' /\ s \in Slots(obj'[x].class)
      BY DEF Curried
    <3>1. x # o /\ obj'[x] = obj[x] /\ Method(x, s)' = Method(x, s)  BY <2>1 DEF Method
    <3>2. Callable(x, s) /\ s \in Slots(obj[x].class) /\ Method(x, s) \in Tramps
      BY <3>1, <1>1, ObjTypes DEF IInv, Curried
    <3> QED BY <3>1, <3>2, <1>5, <1>8 DEF Callable
  <2>6. EveryRopeFrees'
    <3> SUFFICES ASSUME NEW x \in ready \ {o}, obj'[x].class = "string"
                 PROVE  \E y \in Objs : Runs(AfterDestroy(o), obj'[x].rope_free, "free", y)
      BY <1>8 DEF EveryRopeFrees, RopeFrees
    <3>1. x \in Objs /\ obj[x] # None /\ obj'[x] = obj[x]
      BY <1>2, <2>1 DEF IInv, Alive
    <3>2. PICK y \in Objs : Runs(tramp, obj[x].rope_free, "free", y)
      BY <3>1 DEF IInv, EveryRopeFrees, RopeFrees
    <3>3. obj[x].rope_free \in Tramps  BY <3>1, <3>2, <1>1, ObjTypes DEF Runs
    <3> QED BY <3>1, <3>2, <3>3, <1>5
  <2> QED BY <2>3, <2>4, <2>5, <2>6 DEF IInv
<1> QED BY <1>6, <1>7, <1>8 DEF delete

(* The collector leaves whatever a ready object, or one under              *)
(* construction, still needs.                                              *)
LEMMA RootsReachable ==
  ASSUME IInv
  PROVE  /\ Roots \subseteq Reachable
         /\ \A o \in Reachable : obj[o] # None => obj[o].allocator \in Reachable
<1>1. Roots \subseteq Objs
  BY ObjectsAssumption DEF Roots, IInv, TypeOK, Inits
<1>2. Roots \subseteq Reachable
  BY <1>1 DEF Reachable
<1>3. ASSUME NEW o \in Reachable, obj[o] # None PROVE obj[o].allocator \in Reachable
  <2>1. o \in Objs  BY DEF Reachable
  <2>2. obj[o].allocator \in Objs  BY <2>1, <1>3, ObjTypes DEF IInv
  <2>3. ASSUME NEW S \in SUBSET Objs, Roots \subseteq S,
               \A x \in S : obj[x] # None => obj[x].allocator \in S
        PROVE  obj[o].allocator \in S
    BY <2>1, <2>3, <1>3 DEF Reachable
  <2> QED BY <2>2, <2>3 DEF Reachable
<1> QED BY <1>2, <1>3

(* The collector takes only what cannot be reached, so it leaves the invariant
   as it was. *)
LEMMA CollectKeeps == ASSUME IInv, collect PROVE IInv'
<1>1. /\ obj' = [o \in Objs |-> IF o \in Reachable THEN obj[o] ELSE None]
      /\ ready' = ready \cap Reachable /\ building' = building /\ held' = held /\ fault' = fault
      /\ misused' = misused /\ TypeOK /\ ready \subseteq Objs /\ held \subseteq Reachable /\ held \subseteq ready
  BY RootsReachable DEF collect, IInv, TypeOK, Roots
<1>2. \A o \in Reachable : o \in Objs /\ obj'[o] = obj[o]
  BY <1>1 DEF Reachable
<1>3. \A o \in Objs : obj'[o] # None => o \in Reachable /\ obj[o] # None
  BY <1>1
<1>4. \A o \in Reachable, t \in Tramps : Refers(o, t) => tramp'[t] = tramp[t]
  BY DEF collect, ReachedPages
<1>5. \A o \in Reachable, s \in SlotNames : Method(o, s)' = Method(o, s)
  BY <1>2 DEF Method
<1>6. TypeOK'
  <2>1. obj' \in [Objs -> Instances \cup {None}]
    BY <1>1 DEF TypeOK
  <2>2. tramp' \in [Tramps -> [used : BOOLEAN, prot : {"RW", "RX"},
                      func : SlotNames \cup {None}, param : Objs \cup {None}]]
    <3>1. \A t \in Tramps : [Freed EXCEPT !.prot = tramp[t].prot] \in
             [used : BOOLEAN, prot : {"RW", "RX"},
              func : SlotNames \cup {None}, param : Objs \cup {None}]
      BY <1>1 DEF TypeOK, Freed
    <3> QED BY <3>1, <1>1 DEF collect, TypeOK
  <2> QED BY <1>1, <2>1, <2>2 DEF TypeOK
<1>7. Root \in Reachable  BY RootsReachable DEF Roots
<1>8. Alive' /\ Filled'
  <2>1. Alive'  BY <1>1, <1>2, <1>7 DEF IInv, Alive
  <2>2. Filled'
    <3> SUFFICES ASSUME NEW o \in ready \cap Reachable, NEW s \in Slots(obj'[o].class)
                 PROVE  Method(o, s)' # None
      BY <1>1 DEF Filled
    <3>1. obj[o] # None /\ obj'[o] = obj[o] /\ o \in Objs  BY <1>2 DEF IInv, Alive
    <3>2. s \in SlotNames  BY <3>1, <1>1, ObjTypes, SlotsAre
    <3> QED BY <3>1, <3>2, <1>5 DEF IInv, Filled
  <2> QED BY <2>1, <2>2
<1>9. Curried'
  <2> SUFFICES ASSUME NEW o \in Objs, NEW s \in SlotNames, obj'[o] # None, Method(o, s)' # None
               PROVE  Callable(o, s)' /\ s \in Slots(obj'[o].class)
    BY DEF Curried
  <2>1. o \in Reachable /\ obj[o] # None /\ obj'[o] = obj[o] /\ Method(o, s)' = Method(o, s)
    BY <1>2, <1>3, <1>5
  <2>2. Callable(o, s) /\ s \in Slots(obj[o].class) /\ Method(o, s) \in Tramps
    BY <2>1, <1>1, ObjTypes DEF IInv, Curried
  <2>3. tramp'[Method(o, s)] = tramp[Method(o, s)]
    BY <2>1, <2>2, <1>4 DEF Refers
  <2> QED BY <2>1, <2>2, <2>3 DEF Callable, Runs
<1>10. EveryRopeFrees'
  <2> SUFFICES ASSUME NEW o \in ready \cap Reachable, obj'[o].class = "string"
               PROVE  \E a \in Objs : Runs(tramp', obj'[o].rope_free, "free", a)
    BY <1>1 DEF EveryRopeFrees, RopeFrees
  <2>1. o \in Objs /\ obj[o] # None /\ obj'[o] = obj[o]  BY <1>2 DEF IInv, Alive
  <2>2. PICK a \in Objs : Runs(tramp, obj[o].rope_free, "free", a)
    BY <2>1 DEF IInv, EveryRopeFrees, RopeFrees
  <2>3. obj[o].rope_free \in Tramps  BY <2>1, <2>2, <1>1, ObjTypes DEF Runs
  <2>4. tramp'[obj[o].rope_free] = tramp[obj[o].rope_free]
    BY <2>1, <2>3, <1>4 DEF Refers
  <2> QED BY <2>1, <2>2, <2>4 DEF Runs
<1>11. UnderWay'
  <2> SUFFICES ASSUME building # None PROVE UnderWay'  BY <1>1 DEF UnderWay
  <2>0. PICK o : o = building.obj  OBVIOUS
  <2>1. o \in Reachable /\ obj[o] # None /\ o \in Objs
    BY <2>0, <1>2, RootsReachable DEF Roots, IInv, UnderWay
  <2>2. obj'[o] = obj[o] /\ obj[o].allocator \in Reachable
    BY <2>1, <1>2, RootsReachable
  <2>3. obj'[obj[o].allocator] = obj[obj[o].allocator]  BY <2>2, <1>2
  <2>4. \A s \in Slots(obj[o].class) : Method(o, s)' = Method(o, s)
    BY <2>1, <1>1, <1>5, ObjTypes, SlotsAre
  <2>5. ToDo' = ToDo /\ building' = building  BY <1>1 DEF ToDo
  <2> QED BY <2>0, <2>1, <2>2, <2>3, <2>4, <2>5, <1>1 DEF IInv, UnderWay
<1> QED BY <1>6, <1>8, <1>9, <1>10, <1>11 DEF IInv

(* What the program misused it has misused for good.                       *)
LEMMA MisusesStay == ASSUME [Next]_vars PROVE misused \subseteq misused'
BY DEF Next, vars, init_root_allocator, NextSlot, InitReturns, collect, delete, new, drop

(* Every step, while no allocator is deleted.                              *)
LEMMA StepKeeps == ASSUME IInv, KeepsAllocators', [Next]_vars PROVE IInv'
<1>1. CASE UNCHANGED vars
  BY <1>1 DEF vars, IInv, TypeOK, Alive, Curried, Filled, UnderWay, EveryRopeFrees, ToDo,
              RopeFrees, Callable, Runs, Method
<1>2. CASE \E o \in Objs : drop(o)
  BY <1>2 DEF drop, IInv, TypeOK, Misuses, Alive, Curried, Filled, UnderWay, EveryRopeFrees,
              ToDo, RopeFrees, Callable, Runs, Method
<1> QED BY <1>1, <1>2, RootKeeps, SlotKeeps, ReturnKeeps, CollectKeeps, DeleteKeeps, NewKeeps
        DEF Next

(* So the invariant holds for as long as no allocator has been deleted.    *)
LEMMA KeptInv == Spec => [](KeepsAllocators => IInv)
<1>1. Init => (KeepsAllocators => IInv)  BY InitHolds
<1>2. (KeepsAllocators => IInv) /\ [Next]_vars => (KeepsAllocators => IInv)'
  BY StepKeeps, MisusesStay DEF KeepsAllocators
<1> QED BY <1>1, <1>2, PTL DEF Spec

(* While the program deletes no allocator, whatever it deletes, forgets or *)
(* initialises again and whenever the collector runs, every method of      *)
(* every object it has runs on that object.                                *)
THEOREM MethodsStayCallable == Spec => []MethodsCallable
<1>1. (KeepsAllocators => IInv) => MethodsCallable
  BY ReadyCallable DEF MethodsCallable
<1> QED BY <1>1, KeptInv, PTL

(* And every string can free its rope.                                     *)
THEOREM RopesStayFreeable == Spec => []RopesFreeable
<1>1. (KeepsAllocators => IInv) => RopesFreeable
  BY DEF IInv, RopesFreeable
<1> QED BY <1>1, KeptInv, PTL

-------------------------------------------------------------------------------
(* Second, a program that deletes what it makes, and only strings: nothing *)
(* is left behind for the collector, so a page comes back writable.        *)
(* Nothing crashed; every object is held, under construction or the root;  *)
(* the slots still to be curried, each once, are NULL.                     *)
NothingLost ==
  /\ Running /\ ready \subseteq held
  /\ \A o \in Objs : obj[o] # None =>
       o \in held \/ o = Root \/ (building # None /\ building.obj = o)
  /\ \A t \in Tramps : tramp[t].used => tramp[t].param \in Objs /\ tramp[t].func \in SlotNames

NullToDo ==
  /\ building # None =>
       /\ building.obj \notin ready
       /\ \A i \in DOMAIN building.todo :
            /\ Method(building.obj, building.todo[i]) = None
            /\ \A j \in DOMAIN building.todo : building.todo[i] = building.todo[j] => i = j
  /\ Root \notin ready /\ (building = None \/ building.obj # Root) =>
       \A s \in SlotNames : Method(Root, s) = None

Clean == NothingLost /\ NullToDo /\ PagesWritable /\ NoneLeft

(* No slot is curried twice.                                               *)
LEMMA OrderDistinct ==
  ASSUME NEW c \in Classes, NEW i \in DOMAIN SlotOrder(c), NEW j \in DOMAIN SlotOrder(c),
         SlotOrder(c)[i] = SlotOrder(c)[j]
  PROVE  i = j /\ SlotOrder(c)[i] \in SlotNames
<1>1. CASE c = "allocator"
  <2>1. i \in 1 .. 8 /\ j \in 1 .. 8  BY <1>1 DEF SlotOrder
  <2> QED BY <1>1, <2>1 DEF SlotOrder, SlotNames
<1>2. CASE c = "string"
  <2>1. i \in 1 .. 6 /\ j \in 1 .. 6  BY <1>2 DEF SlotOrder
  <2> QED BY <1>2, <2>1 DEF SlotOrder, SlotNames
<1> QED BY <1>1, <1>2 DEF Classes

(* At the start every page is free and writable.                           *)
LEMMA InitClean == Init => Clean
<1> SUFFICES ASSUME Init PROVE Clean  OBVIOUS
<1>1. NothingLost /\ PagesWritable /\ NoneLeft
  BY DEF Init, NothingLost, Running, PagesWritable, FreePages, NoneLeft, Freed
<1>2. NullToDo
  BY ObjectsAssumption DEF Init, NullToDo, Method, NoSlots
<1> QED BY <1>1, <1>2 DEF Clean

(* The root is initialised once, with every slot NULL before.              *)
LEMMA RootClean == ASSUME IInv, Clean, misused' = {}, init_root_allocator PROVE Clean'
<1>1. /\ obj' = obj /\ tramp' = tramp /\ ready' = ready /\ held' = held /\ fault' = fault
      /\ building = None /\ Root \notin ready
      /\ building' = [obj |-> Root, todo |-> SlotOrder("allocator")]
  BY DEF init_root_allocator
<1>2. \A s \in SlotNames : Method(Root, s) = None  BY <1>1 DEF Clean, NullToDo
<1>3. "allocator" \in Classes  BY DEF Classes
<1>4. NullToDo'
  BY <1>1, <1>2, <1>3, OrderDistinct DEF NullToDo, Method
<1>5. (NothingLost /\ PagesWritable /\ NoneLeft)'
  BY <1>1 DEF Clean, NothingLost, Running, PagesWritable, FreePages, NoneLeft, Method
<1> QED BY <1>4, <1>5 DEF Clean

(* new calls a ready allocator's slots, and takes an object nothing was    *)
(* curried for.                                                            *)
LEMMA NewClean ==
  ASSUME IInv, Clean, NEW a \in Objs, NEW o \in Objs, NEW class \in Classes,
         new(a, o, class)
  PROVE  Clean'
<1>1. /\ tramp' = tramp /\ ready' = ready /\ held' = held /\ building = None
      /\ obj[o] = None /\ a \in ready /\ obj[a].class = "allocator"
      /\ obj \in [Objs -> Instances \cup {None}] /\ ready \subseteq Objs
  BY DEF new, IInv, TypeOK
<1>2. Callable(a, "new") /\ Callable(a, "alloc")
  BY <1>1, SlotsAre, ReadyCallable
<1>3. /\ obj' = [obj EXCEPT ![o] = [class |-> class, slots |-> NoSlots,
                                    allocator |-> a, rope_free |-> None]]
      /\ building' = [obj |-> o, todo |-> SlotOrder(class)] /\ fault' = fault
  BY <1>2 DEF new
<1>4. /\ obj'[o].slots = NoSlots /\ \A x \in Objs : x # o => obj'[x] = obj[x]
  BY <1>1, <1>3
<1>5. o \notin ready /\ o # Root  BY <1>1 DEF IInv, Alive
<1>6. /\ \A s \in SlotNames : Method(o, s)' = None
      /\ \A x \in Objs, s \in SlotNames : x # o => Method(x, s)' = Method(x, s)
  BY <1>4 DEF Method, NoSlots
<1>7. NullToDo'
  <2>1. /\ building'.obj \notin ready'
        /\ \A i \in DOMAIN building'.todo :
             /\ building'.todo[i] \in SlotNames
             /\ \A j \in DOMAIN building'.todo : building'.todo[i] = building'.todo[j] => i = j
    BY <1>1, <1>3, <1>5, OrderDistinct
  <2>2. \A i \in DOMAIN building'.todo : Method(building.obj, building.todo[i])' = None
    BY <1>3, <1>6, <2>1 DEF Method
  <2>3. Root \notin ready => \A s \in SlotNames : Method(Root, s)' = None
    BY <1>1, <1>5, <1>6, ObjectsAssumption DEF Clean, NullToDo
  <2> QED BY <1>1, <2>1, <2>2, <2>3 DEF NullToDo
<1>8. building' # None /\ building'.obj = o
  <2>1. building' \in Inits  BY <1>3, SlotsAre DEF Inits
  <2> QED BY <2>1, <1>3, ObjectsAssumption
<1>9. NothingLost' /\ PagesWritable'
  BY <1>1, <1>3, <1>4, <1>8 DEF Clean, NothingLost, Running, PagesWritable, FreePages
<1>10. NoneLeft'
  <2> SUFFICES ASSUME NEW t \in Tramps, tramp[t].used
               PROVE  obj'[tramp[t].param] # None /\ Method(tramp[t].param, tramp[t].func)' = t
    BY <1>1 DEF NoneLeft, Method
  <2>1. /\ tramp[t].param \in Objs /\ tramp[t].func \in SlotNames
        /\ obj[tramp[t].param] # None /\ Method(tramp[t].param, tramp[t].func) = t
    BY DEF Clean, NothingLost, NoneLeft
  <2>2. tramp[t].param # o  BY <2>1, <1>1
  <2> QED BY <2>1, <2>2, <1>1, <1>4 DEF Method
<1> QED BY <1>7, <1>9, <1>10 DEF Clean

(* curry_func finds its page writable, and the slot it fills empty.        *)
LEMMA SlotClean == ASSUME IInv, Clean, NextSlot PROVE Clean'
<1>0. PICK o, s : o = building.obj /\ s = Head(building.todo)  OBVIOUS
<1>1. /\ building # None /\ building.todo # <<>> /\ FreePages # {}
      /\ ready' = ready /\ held' = held /\ TypeOK
  BY DEF NextSlot, IInv
<1>2. Page \in Tramps /\ ~tramp[Page].used /\ tramp[Page].prot = "RW"
  BY <1>1 DEF Page, FreePages, Clean, PagesWritable
<1>3. /\ tramp' = [tramp EXCEPT ![Page] = Trampoline(s, o)]
      /\ obj' = [obj EXCEPT ![o].slots[s] = Page]
      /\ building' = [building EXCEPT !.todo = Tail(@)]
      /\ fault' = fault
  BY <1>0, <1>2 DEF NextSlot
<1>4. /\ building \in Inits /\ o \in Objs /\ building.todo \in Seq(SlotNames)
      /\ s \in SlotNames /\ obj[o] # None
      /\ obj \in [Objs -> Instances \cup {None}]
  BY <1>0, <1>1 DEF IInv, UnderWay, TypeOK, Inits
<1>5. obj[o] \in Instances /\ obj[o].slots \in [SlotNames -> Tramps \cup {None}]
  BY <1>1, <1>4, ObjTypes
<1>6. /\ obj'[o] # None /\ obj'[o].slots = [obj[o].slots EXCEPT ![s] = Page]
      /\ \A x \in Objs : x # o => obj'[x] = obj[x]
  <2>1. obj'[o] = [obj[o] EXCEPT !.slots = [obj[o].slots EXCEPT ![s] = Page]]
        /\ \A x \in Objs : x # o => obj'[x] = obj[x]
    BY <1>3, <1>4
  <2>2. [obj[o].slots EXCEPT ![s] = Page] \in [SlotNames -> Tramps \cup {None}]
    BY <1>2, <1>4, <1>5
  <2>3. obj'[o] \in Instances
    BY <2>1, <2>2, <1>5 DEF Instances
  <2> QED BY <2>1, <2>3, <1>5, ObjectsAssumption DEF Instances
<1>7. /\ Method(o, s)' = Page
      /\ \A x \in Objs, r \in SlotNames : x # o \/ r # s => Method(x, r)' = Method(x, r)
  BY <1>4, <1>5, <1>6 DEF Method
<1>8. /\ tramp'[Page] = Trampoline(s, o)
      /\ \A t \in Tramps : t # Page => tramp'[t] = tramp[t]
  BY <1>1, <1>2, <1>3 DEF TypeOK
<1>9. /\ building' = [obj |-> o, todo |-> Tail(building.todo)]
      /\ DOMAIN building.todo = 1 .. Len(building.todo) /\ Len(building.todo) \in Nat \ {0}
      /\ s = building.todo[1]
      /\ DOMAIN building'.todo = 1 .. Len(building.todo) - 1
      /\ \A i \in 1 .. Len(building.todo) - 1 : building'.todo[i] = building.todo[i + 1]
  <2>1. building' = [obj |-> o, todo |-> Tail(building.todo)]
    BY <1>0, <1>3, <1>4 DEF Inits
  <2>2. /\ DOMAIN building.todo = 1 .. Len(building.todo) /\ Len(building.todo) \in Nat \ {0}
        /\ s = building.todo[1]
        /\ DOMAIN Tail(building.todo) = 1 .. Len(building.todo) - 1
        /\ \A i \in 1 .. Len(building.todo) - 1 : Tail(building.todo)[i] = building.todo[i + 1]
    BY <1>0, <1>1, <1>4
  <2> QED BY <2>1, <2>2
<1>10. building' # None
  <2>1. Tail(building.todo) \in Seq(SlotNames)  BY <1>1, <1>4
  <2>2. building' \in Inits  BY <2>1, <1>4, <1>9 DEF Inits
  <2> QED BY <2>2, ObjectsAssumption
<1>11. NothingLost'
  <2>1. \A t \in Tramps : tramp'[t].used => tramp'[t].param \in Objs /\ tramp'[t].func \in SlotNames
    BY <1>4, <1>8 DEF Trampoline, Clean, NothingLost
  <2>2. \A x \in Objs : obj'[x] # None => x \in held \/ x = Root \/ building'.obj = x
    BY <1>0, <1>1, <1>6, <1>9 DEF Clean, NothingLost
  <2> QED BY <2>1, <2>2, <1>1, <1>3, <1>10 DEF Clean, NothingLost, Running
<1>12. NullToDo'
  <2>1. /\ o \notin ready
        /\ \A i \in DOMAIN building.todo :
             /\ building.todo[i] \in SlotNames /\ Method(o, building.todo[i]) = None
             /\ \A j \in DOMAIN building.todo : building.todo[i] = building.todo[j] => i = j
    BY <1>0, <1>1, <1>4 DEF Clean, NullToDo
  <2>2. ASSUME NEW i \in 1 .. Len(building.todo) - 1
        PROVE  /\ obj'[o].slots[building'.todo[i]] = None
               /\ \A j \in 1 .. Len(building.todo) - 1 :
                    building'.todo[i] = building'.todo[j] => i = j
    <3>1. i + 1 \in DOMAIN building.todo /\ 1 \in DOMAIN building.todo /\ i + 1 # 1
      BY <1>9
    <3>2. PICK r : r = building.todo[i + 1]  OBVIOUS
    <3>3. r \in SlotNames /\ r # s /\ Method(o, r) = None
      BY <2>1, <3>1, <3>2, <1>9
    <3>4. obj'[o].slots[r] = None /\ building'.todo[i] = r
      <4>1. Method(o, r)' = None  BY <3>3, <1>4, <1>7
      <4> QED BY <4>1, <3>2, <1>9 DEF Method
    <3>5. \A j \in 1 .. Len(building.todo) - 1 : building'.todo[i] = building'.todo[j] => i = j
      <4> TAKE j \in 1 .. Len(building.todo) - 1
      <4>1. j + 1 \in DOMAIN building.todo  BY <1>9
      <4>2. building'.todo[i] = building'.todo[j] => i + 1 = j + 1
        BY <1>9, <2>1, <3>1, <4>1
      <4> QED BY <4>2
    <3> QED BY <3>4, <3>5
  <2>3. building'.obj = o  BY <1>9
  <2>4. Root \notin ready /\ o # Root => \A r \in SlotNames : Method(Root, r)' = None
    BY <1>0, <1>1, <1>7, ObjectsAssumption DEF Clean, NullToDo
  <2>5. \A i \in DOMAIN building'.todo :
          /\ obj'[building'.obj].slots[building'.todo[i]] = None
          /\ \A j \in DOMAIN building'.todo : building'.todo[i] = building'.todo[j] => i = j
    BY <2>2, <2>3, <1>9
  <2> QED BY <1>1, <1>10, <2>1, <2>3, <2>4, <2>5 DEF NullToDo, Method
<1>13. PagesWritable'
  BY <1>8 DEF PagesWritable, FreePages, Trampoline, Clean
<1>14. NoneLeft'
  <2> SUFFICES ASSUME NEW t \in Tramps, tramp'[t].used
               PROVE  obj'[tramp'[t].param] # None /\ obj'[tramp'[t].param].slots[tramp'[t].func] = t
    BY DEF NoneLeft, Method
  <2>1. CASE t = Page
    <3>1. tramp'[t].param = o /\ tramp'[t].func = s  BY <2>1, <1>8 DEF Trampoline
    <3>2. obj'[o].slots[s] = t  BY <2>1, <1>7 DEF Method
    <3> QED BY <3>1, <3>2, <1>6
  <2>2. CASE t # Page
    <3>1. tramp'[t] = tramp[t]  BY <2>2, <1>8
    <3>2. PICK x \in Objs, r \in SlotNames : x = tramp[t].param /\ r = tramp[t].func
      BY <3>1 DEF Clean, NothingLost
    <3>3. obj[x] # None /\ Method(x, r) = t  BY <3>1, <3>2 DEF Clean, NoneLeft
    <3>4. Method(o, s) = None
      <4>1. 1 \in DOMAIN building.todo  BY <1>9
      <4> QED BY <4>1, <1>0, <1>1, <1>9 DEF Clean, NullToDo
    <3>5. Method(x, r)' = t /\ obj'[x] # None
      BY <3>3, <3>4, <1>6, <1>7, ObjectsAssumption
    <3> QED BY <3>1, <3>2, <3>5 DEF Method
  <2> QED BY <2>1, <2>2
<1> QED BY <1>11, <1>12, <1>13, <1>14 DEF Clean

(* The allocator of a new string can be called, so init returns.           *)
LEMMA ReturnClean == ASSUME IInv, Clean, InitReturns PROVE Clean'
<1>0. PICK o : o = building.obj  OBVIOUS
<1>1. /\ building # None /\ building' = None /\ tramp' = tramp
      /\ ready' = ready \cup {o} /\ held' = held \cup {o}
      /\ obj' = IF obj[o].class = "allocator" THEN obj
                ELSE [obj EXCEPT ![o].rope_free = RopeFreeOf(obj[o].allocator)]
      /\ fault' = IF obj[o].class = "allocator" \/ Callable(obj[o].allocator, "alloc")
                    THEN "none" ELSE "call"
  BY <1>0 DEF InitReturns
<1>2. /\ TypeOK /\ building \in Inits /\ o \in Objs /\ obj[o] # None
      /\ obj \in [Objs -> Instances \cup {None}]
  BY <1>0, <1>1 DEF IInv, UnderWay, TypeOK, Inits
<1>3. obj[o] \in Instances /\ obj[o].class \in {"allocator", "string"}
  BY <1>2, ObjTypes DEF Classes
<1>4. fault' = "none"
  <2>1. CASE obj[o].class = "allocator"  BY <2>1, <1>1
  <2>2. CASE obj[o].class = "string"
    <3>1. obj[o].allocator \in ready /\ obj[obj[o].allocator].class = "allocator"
      BY <2>2, <1>0, <1>1 DEF IInv, UnderWay
    <3>2. "alloc" \in Slots(obj[obj[o].allocator].class)  BY <3>1, SlotsAre
    <3> QED BY <1>1, <3>1, <3>2, ReadyCallable
  <2> QED BY <1>3, <2>1, <2>2
<1>5. \A x \in Objs : /\ obj'[x] # None => obj[x] # None
                      /\ obj[x] # None => obj'[x] # None /\ obj'[x].slots = obj[x].slots
  <2>1. CASE obj[o].class = "allocator"  BY <2>1, <1>1
  <2>2. CASE obj[o].class = "string"
    <3>1. PICK f : f = RopeFreeOf(obj[o].allocator)  OBVIOUS
    <3>2. f \in Tramps \cup {None}
      <4>1. obj[o].allocator \in ready /\ obj[obj[o].allocator].class = "allocator"
        BY <2>2, <1>0, <1>1 DEF IInv, UnderWay
      <4>2. "free" \in Slots(obj[obj[o].allocator].class)  BY <4>1, SlotsAre
      <4> QED BY <3>1, <4>1, <4>2, ReadyCallable DEF RopeFreeOf
    <3>3. obj' = [obj EXCEPT ![o] = [obj[o] EXCEPT !.rope_free = f]]
      BY <2>2, <3>1, <1>1
    <3>4. obj'[o] = [obj[o] EXCEPT !.rope_free = f] /\ \A x \in Objs : x # o => obj'[x] = obj[x]
      BY <3>3, <1>2
    <3>5. obj'[o] \in Instances /\ obj'[o].slots = obj[o].slots
      BY <3>2, <3>4, <1>3 DEF Instances
    <3> QED BY <3>4, <3>5, <1>2, ObjectsAssumption
  <2> QED BY <1>3, <2>1, <2>2
<1>6. \A x \in Objs, r \in SlotNames : obj[x] # None => Method(x, r)' = Method(x, r)
  BY <1>5 DEF Method
<1>7. NothingLost'
  BY <1>0, <1>1, <1>4, <1>5 DEF Clean, NothingLost, Running
<1>8. NullToDo'
  <2> SUFFICES ASSUME Root \notin ready \cup {o}
               PROVE  \A r \in SlotNames : Method(Root, r)' = None
    BY <1>1 DEF NullToDo
  <2>1. \A r \in SlotNames : Method(Root, r) = None
    BY <1>0, <1>1 DEF Clean, NullToDo
  <2> QED BY <2>1, <1>6, ObjectsAssumption DEF IInv, Alive
<1>9. PagesWritable'
  BY <1>1 DEF Clean, PagesWritable, FreePages
<1>10. NoneLeft'
  BY <1>1, <1>5 DEF Clean, NothingLost, NoneLeft, Method
<1> QED BY <1>7, <1>8, <1>9, <1>10 DEF Clean

(* delete can make all its calls, and the pages it frees are all the ones  *)
(* curried for the object.                                                 *)
LEMMA DeleteClean ==
  ASSUME IInv, Clean, misused' = {}, NEW a \in Objs, NEW o \in Objs, delete(a, o)
  PROVE  Clean'
<1>1. /\ building = None /\ building' = building /\ TypeOK
      /\ a \in ready /\ obj[a].class = "allocator" /\ o \in ready /\ o # Root
      /\ a # o /\ obj[o].class # "allocator"
  BY DEF delete, Deletes, IInv
<1>2. /\ obj[o] # None /\ obj[o].class = "string"
      /\ obj \in [Objs -> Instances \cup {None}] /\ ready \subseteq Objs
  BY <1>1, ObjTypes DEF IInv, Alive, TypeOK, Classes
<1>3. DEFINE pages == Pages(o, Uncurried(obj[o].class) \cup {"destroy"})
<1>4. \A t \in pages : t \in Tramps /\ tramp[t].param = o
  <2> TAKE t \in pages
  <2>1. PICK s \in Uncurried("string") \cup {"destroy"} : t = Method(o, s) /\ t # None
    BY <1>2 DEF Pages
  <2>2. s \in SlotNames  BY <2>1 DEF Uncurried, SlotNames
  <2>3. Callable(o, s) /\ Method(o, s) \in Tramps
    BY <2>1, <2>2, <1>1, <1>2, ObjTypes DEF IInv, Curried
  <2> QED BY <2>1, <2>3 DEF Callable, Runs
<1>5. /\ Callable(a, "delete") /\ Callable(o, "destroy") /\ RopeFrees(o)
      /\ Callable(a, "free") /\ Method(a, "free") \in Tramps
  BY <1>1, <1>2, SlotsAre, ReadyCallable DEF IInv, EveryRopeFrees
<1>6. Runs(AfterDestroy(o), FreeSlotAfter(a, o), "free", a)
  <2>1. Method(a, "free") \notin pages  BY <1>1, <1>4, <1>5 DEF Callable, Runs
  <2>2. AfterDestroy(o)[Method(a, "free")] = tramp[Method(a, "free")]
    BY <2>1, <1>5 DEF AfterDestroy, free_curry
  <2> QED BY <2>2, <1>1, <1>5 DEF Callable, Runs, FreeSlotAfter
<1>7. /\ tramp' = AfterDestroy(o) /\ obj' = [obj EXCEPT ![o] = None]
      /\ ready' = ready \ {o} /\ held' = held \ {o} /\ fault' = fault
  BY <1>5, <1>6 DEF delete
<1>8. /\ \A t \in Tramps : IF t \in pages THEN tramp'[t] = Freed ELSE tramp'[t] = tramp[t]
      /\ obj'[o] = None /\ \A x \in Objs : x # o => obj'[x] = obj[x]
  BY <1>2, <1>7 DEF AfterDestroy, free_curry
<1>9. NothingLost'
  BY <1>1, <1>7, <1>8 DEF Clean, NothingLost, Running, Freed
<1>10. NullToDo'
  <2>1. Root \notin ready => \A r \in SlotNames : Method(Root, r) = None
    BY <1>1 DEF Clean, NullToDo
  <2> QED BY <2>1, <1>1, <1>7, <1>8, ObjectsAssumption DEF NullToDo, Method
<1>11. PagesWritable'
  BY <1>8 DEF Clean, PagesWritable, FreePages, Freed
<1>12. NoneLeft'
  <2> SUFFICES ASSUME NEW t \in Tramps, tramp'[t].used
               PROVE  obj'[tramp'[t].param] # None /\ obj'[tramp'[t].param].slots[tramp'[t].func] = t
    BY DEF NoneLeft, Method
  <2>1. t \notin pages /\ tramp'[t] = tramp[t]  BY <1>8 DEF Freed
  <2>2. PICK x \in Objs, r \in SlotNames : x = tramp[t].param /\ r = tramp[t].func
    BY <2>1 DEF Clean, NothingLost
  <2>3. obj[x] # None /\ Method(x, r) = t  BY <2>1, <2>2 DEF Clean, NoneLeft
  <2>4. x # o
    <3> SUFFICES ASSUME x = o PROVE FALSE  OBVIOUS
    <3>1. t # None  BY ObjectsAssumption
    <3>2. r \in Slots("string")  BY <2>3, <3>1, <1>2 DEF IInv, Curried
    <3>3. r \in Uncurried("string") \cup {"destroy"}  BY <3>2, SlotsAre DEF Uncurried
    <3>4. t \in pages  BY <3>1, <3>3, <2>3, <1>2 DEF Pages
    <3> QED BY <3>4, <2>1
  <2> QED BY <2>1, <2>2, <2>3, <2>4, <1>8 DEF Method
<1> QED BY <1>9, <1>10, <1>11, <1>12 DEF Clean

(* Everything is reachable, so the collector changes nothing.              *)
LEMMA CollectClean == ASSUME IInv, Clean, collect PROVE Clean'
<1>1. \A o \in Objs : obj[o] # None => o \in Reachable
  BY RootsReachable DEF Clean, NothingLost, Roots
<1>2. obj' = obj
  <2>1. obj \in [Objs -> Instances \cup {None}]  BY DEF IInv, TypeOK
  <2>2. obj' = [o \in Objs |-> IF o \in Reachable THEN obj[o] ELSE None]  BY DEF collect
  <2> QED BY <1>1, <2>1, <2>2
<1>3. \A t \in Tramps : tramp[t].used => tramp'[t] = tramp[t]
  <2> SUFFICES ASSUME NEW t \in Tramps, tramp[t].used PROVE tramp'[t] = tramp[t]
    OBVIOUS
  <2>1. PICK x \in Objs, r \in SlotNames : x = tramp[t].param /\ r = tramp[t].func
    BY DEF Clean, NothingLost
  <2>2. obj[x] # None /\ Method(x, r) = t  BY <2>1 DEF Clean, NoneLeft
  <2>3. t \in ReachedPages(Reachable)  BY <1>1, <2>2 DEF ReachedPages, Refers
  <2> QED BY <2>3 DEF collect
<1>4. \A t \in Tramps : ~tramp[t].used => ~tramp'[t].used /\ tramp'[t].prot = "RW"
  <2> SUFFICES ASSUME NEW t \in Tramps, ~tramp[t].used PROVE ~tramp'[t].used /\ tramp'[t].prot = "RW"
    OBVIOUS
  <2>1. tramp[t].prot = "RW"  BY DEF Clean, PagesWritable, FreePages
  <2>2. tramp'[t] = tramp[t] \/ tramp'[t] = [Freed EXCEPT !.prot = tramp[t].prot]
    BY DEF collect
  <2> QED BY <2>1, <2>2 DEF Freed
<1>5. ready' = ready /\ held' = held /\ building' = building /\ fault' = fault
  <2>1. ready' = ready \cap Reachable /\ held' = held /\ building' = building /\ fault' = fault
    BY DEF collect
  <2>2. ready \subseteq Reachable  BY <1>1 DEF IInv, Alive, TypeOK
  <2> QED BY <2>1, <2>2
<1>6. NothingLost' /\ NullToDo'
  BY <1>2, <1>3, <1>4, <1>5 DEF Clean, NothingLost, NullToDo, Running, Method
<1>7. PagesWritable' /\ NoneLeft'
  BY <1>2, <1>3, <1>4 DEF Clean, PagesWritable, FreePages, NoneLeft, Method
<1> QED BY <1>6, <1>7 DEF Clean

(* Every step of a careful program.                                        *)
LEMMA StepClean == ASSUME IInv, Clean, misused' = {}, [Next]_vars PROVE Clean'
<1>1. CASE UNCHANGED vars
  BY <1>1 DEF vars, Clean, NothingLost, NullToDo, Running, PagesWritable, FreePages,
              NoneLeft, Method
<1>2. ~ \E o \in Objs : drop(o)
  BY DEF drop
<1> QED BY <1>1, <1>2, RootClean, SlotClean, ReturnClean, CollectClean, DeleteClean, NewClean
        DEF Next

(* Both invariants together, for as long as the program misuses nothing.   *)
LEMMA CarefulInv == Spec => [](misused = {} => IInv /\ Clean)
<1>1. Init => (misused = {} => IInv /\ Clean)  BY InitHolds, InitClean
<1>2. (misused = {} => IInv /\ Clean) /\ [Next]_vars => (misused = {} => IInv /\ Clean)'
  <2> SUFFICES ASSUME misused = {} => IInv /\ Clean, [Next]_vars, misused' = {}
               PROVE  IInv' /\ Clean'
    OBVIOUS
  <2>1. misused = {}  BY MisusesStay
  <2>2. KeepsAllocators'  BY DEF KeepsAllocators
  <2> QED BY <2>1, <2>2, StepKeeps, StepClean
<1> QED BY <1>1, <1>2, PTL DEF Spec

(* A program that deletes what it makes, and no allocator, never finds a   *)
(* free page that cannot be written: alloc never faults on one.            *)
THEOREM PagesComeBackWritable ==
  Spec => [](FreePagesWritable /\ (misused = {} => Running))
<1>1. (misused = {} => IInv /\ Clean) => FreePagesWritable /\ (misused = {} => Running)
  BY DEF Clean, NothingLost, FreePagesWritable
<1> QED BY <1>1, CarefulInv, PTL

(* And no trampoline outlives the object it was curried for.               *)
THEOREM NoTrampolineLeft == Spec => []NoOrphans
<1>1. (misused = {} => IInv /\ Clean) => NoOrphans
  BY DEF Clean, NoOrphans
<1> QED BY <1>1, CarefulInv, PTL

-----------------------------------------------------------------------------
(* The trampoline a slot holds, run by a call: CurryCall, for every size   *)
(* of register and every curried parameter and function.                   *)

(* What each register holds before the instruction at pc.                  *)
Holds ==
  /\ pc > 1 => reg["r9"] = called["r8"]
  /\ pc \in 1 .. 4 => reg["rdx"] = called["rdx"]
  /\ pc \in 1 .. 5 => reg["rsi"] = called["rsi"]
  /\ pc \in 1 .. 6 => reg["rdi"] = called["rdi"]
  /\ pc > 4 => reg["rcx"] = called["rdx"]
  /\ pc > 5 => reg["rdx"] = called["rsi"]
  /\ pc > 6 => reg["rsi"] = called["rdi"]
  /\ pc > 7 => reg["rdi"] = param
  /\ pc > 8 => reg["rax"] = func
  /\ pc = 1 => reg["r8"] = called["r8"]

CallInv == RegistersOK /\ Holds

(* The trampoline has nine instructions.                                   *)
LEMMA CodeIs ==
  /\ InFunction = 9
  /\ curry_tramp_x86_64_code[1] = Mov("r9", "r8")
  /\ curry_tramp_x86_64_code[2] = [op |-> "stc"]
  /\ curry_tramp_x86_64_code[3] = [op |-> "mov32", to |-> "rax", from |-> "rcx"]
  /\ curry_tramp_x86_64_code[4] = Mov("rcx", "rdx")
  /\ curry_tramp_x86_64_code[5] = Mov("rdx", "rsi")
  /\ curry_tramp_x86_64_code[6] = Mov("rsi", "rdi")
  /\ curry_tramp_x86_64_code[7] = [op |-> "movabs", to |-> "rdi", value |-> param]
  /\ curry_tramp_x86_64_code[8] = [op |-> "movabs", to |-> "rax", value |-> func]
  BY DEF InFunction, curry_tramp_x86_64_code

(* What one instruction does to the registers, by its place.               *)
LEMMA StepIs ==
  ASSUME RegistersOK, Execute
  PROVE  /\ pc \in 1 .. 8 /\ pc' = pc + 1 /\ called' = called /\ carry' \in BOOLEAN
         /\ pc = 1 => reg' = [reg EXCEPT !["r9"] = reg["r8"]]
         /\ pc = 2 => reg' = reg
         /\ pc = 3 => reg' = [reg EXCEPT !["rax"] = Low[reg["rcx"]]]
         /\ pc = 4 => reg' = [reg EXCEPT !["rcx"] = reg["rdx"]]
         /\ pc = 5 => reg' = [reg EXCEPT !["rdx"] = reg["rsi"]]
         /\ pc = 6 => reg' = [reg EXCEPT !["rsi"] = reg["rdi"]]
         /\ pc = 7 => reg' = [reg EXCEPT !["rdi"] = param]
         /\ pc = 8 => reg' = [reg EXCEPT !["rax"] = func]
<1>1. pc \in 1 .. 8 /\ pc' = pc + 1 /\ called' = called
  BY CodeIs DEF RegistersOK, Execute
<1>2. carry' \in BOOLEAN
  <2>1. PICK b : carry' = (carry \/ b)  BY DEF Execute
  <2>2. (carry \/ b) \in BOOLEAN  OBVIOUS
  <2> QED BY <2>1, <2>2
<1>3. DEFINE i == curry_tramp_x86_64_code[pc]
<1>4. \/ i.op = "mov" /\ reg' = [reg EXCEPT ![i.to] = reg[i.from]]
      \/ i.op = "mov32" /\ reg' = [reg EXCEPT ![i.to] = Low[reg[i.from]]]
      \/ i.op = "movabs" /\ reg' = [reg EXCEPT ![i.to] = i.value]
      \/ i.op = "stc" /\ reg' = reg
  BY DEF Execute
<1> QED BY <1>1, <1>2, <1>4, CodeIs DEF Mov

(* Every register the later moves read still holds what the caller put in  *)
(* it: the induction that FirstArguments needs.                            *)
LEMMA StepHolds == CallInv /\ [CallNext]_callvars => CallInv'
<1> SUFFICES ASSUME CallInv, [CallNext]_callvars PROVE CallInv'  OBVIOUS
<1>1. CASE UNCHANGED callvars
  BY <1>1 DEF CallInv, RegistersOK, Holds, callvars
<1>2. CASE Execute
  <2>1. RegistersOK  BY DEF CallInv
  <2>2. reg \in [Registers -> Values] /\ called \in [Registers -> Values]
    BY <2>1 DEF RegistersOK
  <2>3. reg' \in [Registers -> Values]
    <3>1. /\ \A r \in Registers : reg[r] \in Values /\ Low[reg[r]] \in Values
          /\ param \in Values /\ func \in Values
          /\ {"rdi", "rsi", "rdx", "rcx", "r8", "r9", "rax"} = Registers
      BY <2>2, CurryCallAssumption DEF Registers
    <3> QED BY <3>1, <2>1, <2>2, <1>2, StepIs
  <2>4. RegistersOK'
    BY <2>1, <2>2, <2>3, <1>2, StepIs, CodeIs DEF RegistersOK
  <2>5. Holds'
    BY <2>1, <2>2, <1>2, StepIs DEF CallInv, Holds, Registers
  <2> QED BY <2>4, <2>5 DEF CallInv
<1> QED BY <1>1, <1>2 DEF CallNext

(* Whatever the caller passes and whatever was curried, the function finds *)
(* the parameter and arguments one, two, three and five in their places.   *)
THEOREM FirstArgumentsArrive == CallSpec => []FirstArguments
<1>1. CallInit => CallInv
  BY CodeIs DEF CallInit, CallInv, RegistersOK, Holds
<1>2. CallInv => FirstArguments
  BY CodeIs DEF CallInv, Holds, FirstArguments
<1> QED BY <1>1, <1>2, StepHolds, PTL DEF CallSpec
===============================================================================
