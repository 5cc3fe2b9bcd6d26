------------------------------ MODULE CurryCall ------------------------------
(***************************************************************************)
(* The trampoline curry_func writes (src/curry_func.c): a call of it with  *)
(* its arguments in rdi, rsi, rdx, rcx, r8 and r9 is to reach the curried  *)
(* function with the curried parameter in rdi and every argument one       *)
(* register later.  The bytes are executed one instruction a step, as the  *)
(* processor decodes them.                                                 *)
(***************************************************************************)
EXTENDS Integers, Sequences

CONSTANTS
  Values,   \* what a register can hold
  param,    \* the curried parameter
  func,     \* the address of the curried function
  Low       \* Low[v]: v with its upper 32 bits cleared

ASSUME CurryCallAssumption ==
  param \in Values /\ func \in Values /\ Low \in [Values -> Values]

Registers == {"rdi", "rsi", "rdx", "rcx", "r8", "r9", "rax"}

VARIABLES
  reg,     \* the registers
  called,  \* the registers as the caller left them
  pc,      \* the next instruction of the trampoline
  carry    \* the carry flag

callvars == <<reg, called, pc, carry>>

Mov(to, from) == [op |-> "mov", to |-> to, from |-> from]

ForwardOrder ==  \* mutant: the moves not done backwards
  << Mov("r9", "r8"), [op |-> "stc"], [op |-> "mov32", to |-> "rax", from |-> "rcx"],
     Mov("rsi", "rdi"), Mov("rdx", "rsi"), Mov("rcx", "rdx"),
     [op |-> "movabs", to |-> "rdi", value |-> param],
     [op |-> "movabs", to |-> "rax", value |-> func], [op |-> "jmp"] >>

(* The instructions, in the order of the bytes.  The second line of bytes, *)
(* f9 89 c8, is not the mov r8, rcx of its comment, which is 49 89 c8: it  *)
(* is stc followed by mov eax, ecx.                                        *)
curry_tramp_x86_64_code ==
  << Mov("r9", "r8"),
     [op |-> "stc"],
     [op |-> "mov32", to |-> "rax", from |-> "rcx"],
     Mov("rcx", "rdx"), Mov("rdx", "rsi"), Mov("rsi", "rdi"),
     [op |-> "movabs", to |-> "rdi", value |-> param],
     [op |-> "movabs", to |-> "rax", value |-> func],
     [op |-> "jmp"] >>

InFunction == Len(curry_tramp_x86_64_code)   \* the address of the jmp: rax is where it goes

CallInit ==
  /\ reg \in [Registers -> Values] /\ called = reg
  /\ pc = 1 /\ carry \in BOOLEAN

Execute ==
  /\ pc < InFunction
  /\ LET i == curry_tramp_x86_64_code[pc]
     IN  /\ \/ i.op = "mov" /\ reg' = [reg EXCEPT ![i.to] = reg[i.from]]
            \/ i.op = "mov32" /\ reg' = [reg EXCEPT ![i.to] = Low[reg[i.from]]]
            \/ i.op = "movabs" /\ reg' = [reg EXCEPT ![i.to] = i.value]
            \/ i.op = "stc" /\ reg' = reg
         /\ carry' = (carry \/ i.op = "stc")
  /\ pc' = pc + 1 /\ UNCHANGED called

CallNext == Execute
CallSpec == CallInit /\ [][CallNext]_callvars

RegistersOK ==
  /\ reg \in [Registers -> Values] /\ called \in [Registers -> Values]
  /\ pc \in 1 .. InFunction /\ carry \in BOOLEAN

(* When the trampoline jumps it goes to the curried function, which finds  *)
(* the curried parameter first and the caller's first three arguments and  *)
(* fifth after it, unchanged: no move reads a register an earlier one has  *)
(* already overwritten.                                                    *)
FirstArguments ==
  pc = InFunction =>
    /\ reg["rax"] = func /\ reg["rdi"] = param
    /\ reg["rsi"] = called["rdi"] /\ reg["rdx"] = called["rsi"]
    /\ reg["rcx"] = called["rdx"] /\ reg["r9"] = called["r8"]
=============================================================================
