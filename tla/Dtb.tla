-------------------------------- MODULE Dtb ---------------------------------
(***************************************************************************)
(* The device tree reader of the RISC-V port, dtb.c.                       *)
(*                                                                         *)
(* A device tree is a sequence of items.  Flatten lays them out in words   *)
(* as the format prescribes: the first word of an item is its token, the   *)
(* others are data.  A number is stored big-endian, <<"be", n>>; a 64-bit  *)
(* one is two such words.                                                  *)
(***************************************************************************)
EXTENDS Integers, Sequences, SequencesExt

CONSTANTS Blobs,  \* device trees: [magic, rsv, items]
          W       \* the number of values of a 32-bit word

VARIABLES blob, pc, rsv, index, name, platform
vars == <<blob, pc, rsv, index, name, platform>>

NULL == "NULL"
DATA == [token |-> "data"]
be32_to_cpu(w) == w[2]
ceil4(n) == (n + 3) \div 4

(* the words of an item, with the lengths of name and value in bytes *)
WordsOf(item) ==
    <<item>> \o [i \in 1..(CASE item.token = "FDT_BEGIN_NODE" -> ceil4(item.len + 1)
                              [] item.token = "FDT_PROP" -> 2 + ceil4(item.plen)
                              [] OTHER -> 0) |-> DATA]
Flatten(items) == FlattenSeq([i \in DOMAIN items |-> WordsOf(items[i])])

(* Mutant: rounded down. *)
c2ioffDown(charoff) == charoff \div 4

(* bytes to words, rounded up *)
c2ioff(charoff) == (charoff \div 4) + (IF charoff % 4 # 0 THEN 1 ELSE 0)

(* two words, high then low: both halves of the result are computed from   *)
(* the low one, as 32-bit values, so that the low one is left              *)
dtb_read_long(data, i) == be32_to_cpu(data[2 * i + 2])

memoryHandler(plat, prop) ==
    IF prop.pname = "reg" /\ prop.plen = 16
    THEN LET min == dtb_read_long(prop.val, 0)
         IN  [plat EXCEPT !.minaddr = min, !.maxaddr = min + dtb_read_long(prop.val, 1)]
    ELSE plat

uartHandler(plat, prop) ==
    CASE prop.pname = "reg" -> [plat EXCEPT !.uart_addr = dtb_read_long(prop.val, 0)]
      [] prop.pname = "clock-frequency" -> [plat EXCEPT !.uart_clock = prop.val[1]]
      [] OTHER -> plat

(* the model string is the sequence of its parts between commas *)
baseHandler(plat, prop) ==
    CASE prop.pname = "model" /\ Len(prop.val) > 1 ->
             [plat EXCEPT !.family = Front(prop.val), !.manufacturer = <<Last(prop.val)>>]
      [] prop.pname = "model" /\ Len(prop.val) = 1 -> [plat EXCEPT !.manufacturer = prop.val]
      [] OTHER -> plat

(* the handler is chosen by what the name begins with; "" is the root *)
handleProp(plat, nm, prop) ==
    CASE nm = "memory@" -> memoryHandler(plat, prop)
      [] nm = "uart@" -> uartHandler(plat, prop)
      [] nm = "" -> baseHandler(plat, prop)
      [] OTHER -> plat

----------------------------------------------------------------------------
Nowhere == [minaddr |-> 0, maxaddr |-> 0, uart_addr |-> 0, uart_clock |-> 0,
            family |-> <<>>, manufacturer |-> <<>>]
Init == /\ blob \in Blobs /\ pc = "magic" /\ rsv = 1 /\ index = 0 /\ name = NULL
        /\ platform = Nowhere

(* parseDtb up to the reserved areas *)
parseDtb == /\ pc = "magic"
            /\ pc' = IF blob.magic THEN "rsv" ELSE "SYSERR"
            /\ UNCHANGED <<blob, rsv, index, name, platform>>

(* parseRsvMap: one area, or the first whose address or size is 0 *)
parseRsvMap == /\ pc = "rsv"
               /\ LET area == blob.rsv[rsv] IN
                  IF area[1] # 0 /\ area[2] # 0 THEN rsv' = rsv + 1 /\ UNCHANGED pc
                  ELSE pc' = "nodes" /\ UNCHANGED rsv
               /\ UNCHANGED <<blob, index, name, platform>>

Tok == Flatten(blob.items)[index + 1]

(* parseDtbNodes: one iteration *)
BeginNode == /\ Tok.token = "FDT_BEGIN_NODE"
             /\ name' = Tok.name
             /\ index' = index + 1 + c2ioff(1 + Tok.len)
             /\ UNCHANGED <<pc, platform>>
Prop == /\ Tok.token = "FDT_PROP"
        /\ index' = index + 1 + c2ioff(8 + Tok.plen)
        /\ platform' = handleProp(platform, name, Tok)
        /\ UNCHANGED <<pc, name>>
EndNode == /\ Tok.token = "FDT_END_NODE"
           /\ name' = NULL /\ index' = index + 1
           /\ UNCHANGED <<pc, platform>>
Nop == /\ Tok.token = "FDT_NOP"
       /\ index' = index + 1
       /\ UNCHANGED <<pc, name, platform>>
(* the result of parseDtbNodes is ignored: parseDtb returns OK *)
End == /\ Tok.token \notin {"FDT_BEGIN_NODE", "FDT_PROP", "FDT_END_NODE", "FDT_NOP"}
       /\ pc' = "OK"
       /\ UNCHANGED <<index, name, platform>>

parseDtbNodes == /\ pc = "nodes"
                 /\ BeginNode \/ Prop \/ EndNode \/ Nop \/ End
                 /\ UNCHANGED <<blob, rsv>>

Next == parseDtb \/ parseRsvMap \/ parseDtbNodes
Spec == Init /\ [][Next]_vars
----------------------------------------------------------------------------
(* Properties *)

(* While it reads a tree of the format, the reader is always at a token,   *)
(* never inside the data of an item, though it advances by its own         *)
(* rounding of lengths; and a property is never handled without a node.    *)
OnToken == pc = "nodes" => /\ index < Len(Flatten(blob.items)) /\ Tok # DATA
                           /\ Tok.token = "FDT_PROP" => name # NULL

(* the node that item i belongs to, by the nesting of the tree *)
Opens(i) == blob.items[i].token = "FDT_BEGIN_NODE"
Closes(i) == blob.items[i].token = "FDT_END_NODE"
NodeOf(i) == CHOOSE b \in 1..i : /\ Opens(b)
                                 /\ \A c \in b + 1..i : ~Opens(c) /\ ~Closes(c)
Props(nm, pname) == {i \in DOMAIN blob.items :
                        /\ blob.items[i].token = "FDT_PROP" /\ blob.items[i].pname = pname
                        /\ blob.items[NodeOf(i)].name = nm}
LastOf(S) == blob.items[CHOOSE i \in S : \A j \in S : j <= i].val
Long(val, i) == W * val[2 * i + 1][2] + val[2 * i + 2][2]

(* At the end the platform holds what the tree says: the bounds of the     *)
(* last memory node (with one 64-bit address and size), the address of the *)
(* last UART, the model's maker; every address and size is below 2^32,     *)
(* since only the low word is read.  A node of another name, however       *)
(* nested, changes nothing.  The UART clock stays in the byte order of the *)
(* tree.                                                                   *)
PlatformRead ==
    pc = "OK" =>
        LET mems == {i \in Props("memory@", "reg") : blob.items[i].plen = 16}
            regs == Props("uart@", "reg")
            clocks == Props("uart@", "clock-frequency")
            models == Props("", "model")
            small(v) == \A i \in 1..Len(v) \div 2 : Long(v, i - 1) < W
        IN  /\ mems = {} => platform.maxaddr = 0
            /\ mems # {} /\ small(LastOf(mems)) =>
                  /\ platform.minaddr = Long(LastOf(mems), 0)
                  /\ platform.maxaddr = Long(LastOf(mems), 0) + Long(LastOf(mems), 1)
            /\ regs = {} => platform.uart_addr = 0
            /\ regs # {} /\ small(LastOf(regs)) =>
                  platform.uart_addr = Long(LastOf(regs), 0)
            /\ platform.uart_clock = IF clocks = {} THEN 0 ELSE LastOf(clocks)[1]
            /\ models # {} => platform.family \o platform.manufacturer = LastOf(models)
            /\ \A i \in 1..rsv - 1 : blob.rsv[i] # <<0, 0>>
=============================================================================
