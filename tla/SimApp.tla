------------------------------- MODULE SimApp -------------------------------
(***************************************************************************)
(* The loader and who uses it: main() (sim_app.cpp), which maps the stack, *)
(* sets sp, loads the file, sets satp and starts the guest, or another     *)
(* client that calls the loader in any order and goes on after failures.   *)
(* Of the guest, the addresses it uses: MMU64 walks the mapper's tables.   *)
(* With NDEBUG the two SIM_ASSERTs on the loader's statuses let main() go  *)
(* on.                                                                     *)
(***************************************************************************)
EXTENDS ElfLoader, Mmu

CONSTANT MainElfs   \* the files main() is given

ASSUME SimAppAssumption == MainElfs \subseteq ElfFiles

VARIABLE app   \* [pc, sp, startPc]; pc is "client" if it is not main()

csrVars == <<satp, mstatus>>

vars == <<mem, mapperVars, loaderVars, app, csrVars, mmuVars>>

Init ==
    /\ LoaderInit
    /\ app \in [pc : {"start", "client"}, sp : {0}, startPc : {0}]
    /\ satp = [mode |-> "BARE", ppn |-> 0]
    /\ mstatus = [mxr |-> FALSE, sum |-> FALSE]
    /\ MmuInit

MainMapsStack ==
    /\ app.pc = "start"
    /\ mapStack
    /\ app' = [app EXCEPT !.pc = "stack"]
    /\ UNCHANGED <<csrVars, mmuVars>>

(* The status of the call that has just returned passes SIM_ASSERT. *)
Passes == ldRes = "OK" \/ NDEBUG

Asserted(next) == app' = IF Passes THEN next ELSE [app EXCEPT !.pc = "aborted"]

StackStatus ==
    /\ app.pc = "stack" /\ ld.pc = "idle"
    /\ Asserted([app EXCEPT !.pc = "file",
                            !.sp = IF ldRes = "OK" THEN STACK_BASE * PAGE_SIZE ELSE 0])
    /\ UNCHANGED <<mem, mapperVars, loaderVars, csrVars, mmuVars>>

MainLoads(elf) ==
    /\ app.pc = "file"
    /\ loadElf(elf)
    /\ app' = [app EXCEPT !.pc = "load",
                          !.startPc = IF elf.valid THEN elf.entry ELSE 0]
    /\ UNCHANGED <<csrVars, mmuVars>>

(* satp64{} and setMODE(): nothing sets the PPN. *)
satp64NoMode == [mode |-> "BARE", ppn |-> 0]   \* seeded fault: no setMODE()
satp64 == [mode |-> "PAGED", ppn |-> 0]

MainRunsBlind ==    \* seeded fault: the status is not looked at
    /\ app.pc = "load" /\ ld.pc = "idle"
    /\ app' = [app EXCEPT !.pc = "guest"]
    /\ satp' = satp64
    /\ UNCHANGED <<mem, mapperVars, loaderVars, mstatus, mmuVars>>
MainRuns ==
    /\ app.pc = "load" /\ ld.pc = "idle"
    /\ Asserted([app EXCEPT !.pc = "guest", !.startPc = IF ldRes = "OK" THEN @ ELSE 0])
    /\ satp' = IF Passes THEN satp64 ELSE satp
    /\ UNCHANGED <<mem, mapperVars, loaderVars, mstatus, mmuVars>>

MainStep ==
    \/ MainMapsStack \/ StackStatus \/ MainRuns
    \/ \E elf \in MainElfs : MainLoads(elf)

Client ==
    /\ app.pc = "client" /\ LoaderCall
    /\ UNCHANGED <<app, csrVars, mmuVars>>

Loader == LoaderStep /\ UNCHANGED <<app, csrVars, mmuVars>>

(* Simulator::translateVa: every access of the guest is a user access.  Of *)
(* RAM only the tables are in mem: a walk out of them would be a fault.    *)
GuestTranslates(access, va) ==
    /\ app.pc = "guest"
    /\ translate("USER", access, va)
    /\ UNCHANGED <<mem, mapperVars, loaderVars, app, csrVars>>

GuestWalks == WalkStep /\ UNCHANGED <<mem, mapperVars, loaderVars, app, csrVars>>

Guest ==
    \/ \E access \in AccessTypes, va \in VirtPages : GuestTranslates(access, va)
    \/ GuestWalks

Next == MainStep \/ Client \/ Loader \/ Guest

(* main() and a call once made run to their end; nothing makes the client  *)
(* call.                                                                   *)
Spec == Init /\ [][Next]_vars /\ WF_vars(MainStep \/ Loader)

-----------------------------------------------------------------------------
(* What mapper, loader, main() and MMU agree on without ever being told by *)
(* each other: with the satp that main() made, every access of the guest   *)
(* to a page that mapPage() mapped is allowed and reaches the RAM page     *)
(* that the loader copied to, and everything else is a page fault.         *)
GuestSeesLoader ==
    app.pc = "guest" /\ walk.pc = "idle" /\ res.status # "none" =>
        LET Here == {v \in mapped : Canonical(VpnFields(v)) = Canonical(walk.va)}
        IN  IF Here = {} THEN res = [status |-> "MMU64__PAGE_FAULT", page |-> 0]
            ELSE \A v \in Here : res = [status |-> "OK", page |-> mapping[v]]

(* The guest starts only with its stack below sp and its image in memory   *)
(* (sim_app.cpp:49 and :53 assert that both calls returned OK).            *)
GuestRunsLoaded ==
    app.pc = "guest" =>
        /\ app.sp = STACK_BASE * PAGE_SIZE
        /\ ldRes = "OK"
        /\ StackSeg \in loaded
        /\ \A s \in loaded : InMemory(s)

(* main() reaches the guest or aborts. *)
MainEnds ==
    app.pc = "start" ~> (app.pc \in {"guest", "aborted"} \/ ld.pc = "aborted")
=============================================================================
