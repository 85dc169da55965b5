------------------------------ MODULE MCTools -------------------------------
(***************************************************************************)
(* Small instances of the components that are checked for safety only: the *)
(* C library, the delay and the secondary cores' clock, the context        *)
(* switch, page tables, device tree reader, configuration tool and process *)
(* life cycle.                                                             *)
(*                                                                         *)
(* One behaviour is a behaviour of one component, the subject: the         *)
(* components do not step together, so the states to visit are the sum of  *)
(* theirs.  s1, s2, ... stand for the subject's variables in the order of  *)
(* their declaration; those it does not need stay 0.                       *)
(***************************************************************************)
EXTENDS Integers, Sequences

VARIABLES subject, s1, s2, s3, s4, s5, s6, s7, s8, s9, s10, s11, s12, s13, s14, s15
r10 == <<s11, s12, s13, s14, s15>>
r8 == <<s9, s10, r10>>
r6 == <<s7, s8, r8>>
r5 == <<s6, r6>>
r2 == <<s3, s4, s5, r5>>
all == <<subject, s1, s2, r2>>
z10 == s11 = 0 /\ s12 = 0 /\ s13 = 0 /\ s14 = 0 /\ s15 = 0
z8 == s9 = 0 /\ s10 = 0 /\ z10
z6 == s7 = 0 /\ s8 = 0 /\ z8
z5 == s6 = 0 /\ z6
z2 == s3 = 0 /\ s4 = 0 /\ s5 = 0 /\ z5

----------------------------------------------------------------------------
(* Instances *)

(* Integers of 4 bits, buffers of 3 bytes: see module MCLibc. *)
Lib == INSTANCE MCLibc WITH
    LONG_BITS <- 4, SHORT_BITS <- 3, SIZE <- 3, NMEMB <- 4, FMTLEN <- 4, INPUTLEN <- 4,
    call <- s1, ret <- s2

(* Delays of no count, of a few, and of all but one of the counter's. *)
Tmr == INSTANCE Timer WITH
    WRAP <- 8, CYCLES <- 3, Delays <- {0, 1, 3, 7}, LASTCOUNT <- 22,
    count <- s1, who <- s2, pc <- s3, start <- s4, target <- s5, delay <- s6,
    began <- s7, moved <- s8, cval <- s9, lastSet <- s10

ASSUME Tmr!TimerAssumption

(* No argument, all in registers, some on the stack; both alignments. *)
Ctx == INSTANCE Context WITH
    Proc <- {1, 2}, NARGS <- {0, 4, 9}, Depth <- {6, 7},
    arch <- s1, m <- s2, cur <- s3, mode <- s4, nargs <- s5

(* The heap starts inside a page; addresses on and inside pages. *)
Pag == INSTANCE Paging WITH
    PAGE <- 2, FAN <- 3, memheap <- 13, maxaddr <- 48,
    Layout <- [_start |-> 2, _ctxsws |-> 4, _interrupts |-> 6, _interrupte |-> 8,
               _datas |-> 10],
    INTERRUPTADDR <- 52, UART_BASE <- 0, Addr <- {3, 4, 19}, Length <- {0, 2, 5},
    Attr <- {"rw"}, CALLS <- 4,
    mem <- s1, pgfreelist <- s2, roots <- s3, client <- s4, last <- s5, calls <- s6

(* Device trees: two nodes, one perhaps below another, names and values of *)
(* all lengths modulo a word, 64-bit numbers with and without a high part. *)
BE(n) == <<"be", n>>
Num(h, l) == <<BE(h), BE(l)>>
Node(nm, len, inner) == <<[token |-> "FDT_BEGIN_NODE", name |-> nm, len |-> len]>> \o inner
                        \o <<[token |-> "FDT_END_NODE"]>>
Prop(pn, plen, val) == <<[token |-> "FDT_PROP", pname |-> pn, plen |-> plen, val |-> val]>>
Memories ==
    {Node("memory@", 15, Prop("reg", 16, Num(0, a) \o Num(h, 2))) : a \in {1, 2}, h \in {0, 1}}
    \cup {Node("memory@", 8, Prop("device_type", 7, <<>>) \o Prop("reg", 8, Num(0, 3)))}
Uarts ==
    {Node("uart@", 13, Prop("interrupts", 4, <<BE(9)>>) \o Prop("reg", 16, Num(0, 1) \o Num(0, 1))
                       \o Prop("clock-frequency", 4, <<BE(3)>>)),
     Node("uart@", 6, Prop("compatible", 9, <<>>) \o Prop("reg", 16, Num(0, 2) \o Num(0, 1)))}
Nodes == Memories \cup Uarts \cup {Node("cpus", 4, Prop("reg", 16, Num(0, 3) \o Num(0, 3)))}
         \cup {Node("soc", 3, Prop("model", 3, <<"x">>) \o u) : u \in Uarts}
Trees ==
    {[magic |-> TRUE, rsv |-> r,
      items |-> Node("", 0, model \o x \o nop \o y) \o <<[token |-> "FDT_END"]>>] :
        r \in {<<<<0, 0>>>>, <<<<1, 2>>, <<0, 0>>>>},
        model \in {Prop("model", 18, <<"riscv-virtio", "qemu">>), Prop("model", 5, <<"qemu">>),
                   Prop("#size-cells", 4, <<BE(2)>>)},
        x \in Nodes, nop \in {<<>>, <<[token |-> "FDT_NOP"]>>}, y \in Nodes}
    \cup {[magic |-> FALSE, rsv |-> <<<<0, 0>>>>, items |-> <<>>]}
Dt == INSTANCE Dtb WITH
    Blobs <- Trees, W <- 4,
    blob <- s1, pc <- s2, rsv <- s3, index <- s4, name <- s5, platform <- s6

(* Two long names of devices with the same first 19 characters. *)
TypeNames == {"uart", "tty"}
HwNames == {"HW", "SW"}
DevNames == {"S0", "DEVlong1", "DEVlong2"}
Cfg == INSTANCE Config WITH
    Routines <- {"f"}, Switch <- {"init"}, STATEMENTS <- 8,
    Cut <- [i \in TypeNames \cup HwNames \cup DevNames \cup {"f"} |->
               IF i = "DEVlong2" THEN "DEVlong1" ELSE i],
    symtab <- s1, ftypes <- s2, devs <- s3, currtname <- s4, doing <- s5, minor <- s6,
    decl <- s7, n <- s8

(* One creator, on one core with the processes it creates; fewer stacks    *)
(* than calls of create(), more than slots.                                *)
Life == INSTANCE Lifecycle WITH
    NPROC <- 2, Creators <- {"c1"}, Stacks <- {1, 2, 3}, SAMECORE <- TRUE,
    VICTIMS <- {"PRRECV"}, CREATES <- 4,
    state <- s1, stkbase <- s2, regs <- s3, nextpid <- s4, numproc <- s5, free <- s6,
    pc <- s7, pid <- s8, saddr <- s9, tries <- s10, run <- s11, serial <- s12,
    born <- s13, dying <- s14, lost <- s15

ASSUME Life!LifecycleAssumption /\ Life!Alone

----------------------------------------------------------------------------
On(c) == subject = c

ToolsInit ==
    \/ subject = "libc" /\ Lib!Init /\ z2
    \/ subject = "timer" /\ Tmr!Init /\ z10
    \/ subject = "context" /\ Ctx!Init /\ z5
    \/ subject = "paging" /\ Pag!Init /\ z6
    \/ subject = "dtb" /\ Dt!Init /\ z6
    \/ subject = "config" /\ Cfg!Init /\ z8
    \/ subject = "lifecycle" /\ Life!Init

ToolsNext ==
    \/ On("libc") /\ Lib!Next /\ UNCHANGED <<subject, r2>>
    \/ On("timer") /\ Tmr!Next /\ UNCHANGED <<subject, r10>>
    \/ On("context") /\ Ctx!Next /\ UNCHANGED <<subject, r5>>
    \/ On("paging") /\ Pag!Next /\ UNCHANGED <<subject, r6>>
    \/ On("dtb") /\ Dt!Next /\ UNCHANGED <<subject, r6>>
    \/ On("config") /\ Cfg!Next /\ UNCHANGED <<subject, r8>>
    \/ On("lifecycle") /\ Life!Next /\ UNCHANGED subject

ToolsSpec == ToolsInit /\ [][ToolsNext]_all
----------------------------------------------------------------------------
(* Properties: those of the components *)

(* Module MCLibc: the searching, comparing and copying functions and       *)
(* qsort() agree with their reference definitions.                         *)
LibcExact == On("libc") => /\ Lib!SearchFinds /\ Lib!CompareOrders
                           /\ Lib!CopyExact /\ Lib!QsortSorts
(* _doprnt() pads a field to its width, sscanf() and atol() read back what *)
(* sprintf() prints, and fprintf() and fputs() lose no character.          *)
PrintfExact == On("libc") => Lib!PrintfPads /\ Lib!PrintScan /\ Lib!OutputWhole
(* fscanf() and sscanf() agree, _doscan() takes the longest field, fgets() *)
(* reads a device to its end.                                              *)
ScanfExact == On("libc") => /\ Lib!ScanfSourcesAgree /\ Lib!ScanfField
                            /\ Lib!FgetsReadsAll

(* Module Timer: udelay() waits long enough. *)
UdelayWaits == On("timer") => Tmr!UdelayWaits
(* Two ticks of a secondary core are CYCLES apart, and the next one is at  *)
(* most CYCLES ahead.                                                      *)
CoreTickSpaced == [][On("timer") => Tmr!SpacedStep /\ Tmr!CoreNotSilent']_all

(* Module Context: registers and stacks survive interrupts and switches,   *)
(* and a new process finds its arguments.                                  *)
ContextKept == On("context") => /\ Ctx!RegistersKept /\ Ctx!StackKept
                                /\ Ctx!StartsWithArguments

(* Module Paging: every page is in one place. *)
PagesOnce == On("paging") => Pag!PagesOnce
(* mapAddress() and mapPage() map their range and nothing else, and        *)
(* safeKmapInit() with them the kernel.                                    *)
MapExact == [][On("paging") => Pag!MapsRange /\ Pag!KernelMapped']_all

(* Module Dtb: parseDtbNodes() stays on tokens and the platform is what    *)
(* the tree says.                                                          *)
PlatformRead == On("dtb") => Dt!OnToken /\ Dt!PlatformRead

(* Module Config: the device table is what the file declares, with dense   *)
(* minor numbers.                                                          *)
DevtabExact == On("config") => Cfg!DevtabExact /\ Cfg!MinorsDense

(* Module Lifecycle: a process starts with its own context. *)
StartsOwnContext == On("lifecycle") => Life!StartsOwnContext
(* A stack belongs to one process, and processes and stacks are accounted  *)
(* for.                                                                    *)
StacksExact == On("lifecycle") => Life!StacksExact
=============================================================================
