----------------------------- MODULE PageTable -----------------------------
(***************************************************************************)
(* MMU_setup_pagetable (mmu.cpp): asks the VideoCore through the mailbox   *)
(* where its memory begins and builds the tables both roots start from.    *)
(* Then MMU_enable: what enable_mmu_tables (utils.S) does to the tables'   *)
(* stores and to the system registers, whose writes take effect at an isb  *)
(* or at any time before it.                                               *)
(* Addresses are block numbers, msg[3] is in MB.                           *)
(***************************************************************************)
EXTENDS Mailbox

CONSTANTS Entries,       \* of a table: 512
          BlockSize,     \* LEVEL1_BLOCKSIZE in MB: 2
          DeviceBlocks   \* at the end of the first gigabyte: 8

ASSUME PageTableAssumption ==
  /\ Entries \in Nat /\ BlockSize \in Nat \ {0}
  /\ DeviceBlocks \in 1 .. Entries
  /\ \A mb \in VCBase : mb > 0 /\ mb <= (Entries - DeviceBlocks) * BlockSize

VARIABLES Stage2map1to1, page_table_map1to1, page_table_virtualmap, Stage2virtual,
          line,      \* of enable_mmu_tables
          drained,   \* the stores to the tables are in memory
          posted,    \* registers written, with the old value in effect
          effective  \* registers whose new value is in effect

tables == <<Stage2map1to1, page_table_map1to1, page_table_virtualmap, Stage2virtual>>
enabling == <<line, drained, posted, effective>>
vars == <<pc, mailboxVars, tables, enabling>>

Invalid == [type |-> "invalid"]
Block(base, attr, sh) == [type |-> "block", address |-> base, attr |-> attr, sh |-> sh]

\* A table entry with the name of the next table and the index it starts at.
TableAt(table, index) == [type |-> "table", table |-> table, index |-> index]

Attr == {"MT_NORMAL", "MT_NORMAL_NC", "MT_DEVICE_NGNRNE"}
BlockEntry == {Invalid} \union
  [type : {"block"}, address : 0 .. 2 * Entries - 1, attr : Attr,
   sh : {"inner", "none"}]
TableEntry == {Invalid} \union
  [type : {"table"}, table : {"Stage2map1to1", "Stage2virtual", "Stage3virtual"},
   index : {0, Entries}]

\* Mistake: the last isb, before the MMU is switched on, is missing.
EnableUnsynchronised ==
  << "dsb", "mair_el1", "ttbr0_el1", "ttbr1_el1", "isb", "tcr_el1", "sctlr_el1" >>

\* enable_mmu_tables: barriers, and the register each msr writes.
EnableMmuTables ==
  << "dsb", "mair_el1", "ttbr0_el1", "ttbr1_el1", "isb", "tcr_el1", "isb", "sctlr_el1" >>

Register == {"mair_el1", "ttbr0_el1", "ttbr1_el1", "tcr_el1", "sctlr_el1"}

TypeOK ==
  /\ pc \in {"call", "write", "read", "answered", "true", "false", "done"}
  /\ MailboxTypeOK
  /\ Stage2map1to1 \in [0 .. 2 * Entries - 1 -> BlockEntry]
  /\ page_table_map1to1 \in [0 .. Entries - 1 -> TableEntry]
  /\ page_table_virtualmap \in [0 .. Entries - 1 -> TableEntry]
  /\ Stage2virtual \in [0 .. Entries - 1 -> TableEntry]
  /\ line \in 1 .. Len(EnableMmuTables) + 1
  /\ drained \in BOOLEAN
  /\ posted \subseteq Register /\ effective \subseteq Register

Init ==
  /\ MailboxInit
  /\ Stage2map1to1 = [b \in 0 .. 2 * Entries - 1 |-> Invalid]
  /\ page_table_map1to1 = [i \in 0 .. Entries - 1 |-> Invalid]
  /\ page_table_virtualmap = [i \in 0 .. Entries - 1 |-> Invalid]
  /\ Stage2virtual = [i \in 0 .. Entries - 1 |-> Invalid]
  /\ line = 1 /\ drained = FALSE /\ posted = {} /\ effective = {}

-----------------------------------------------------------------------------
\* Where the loop variable base is after a loop up to limit.
After(base, limit) == IF base < limit THEN limit ELSE base

\* Mistake: the VideoCore's memory goes on to the end of the gigabyte.
VCLimitTooFar == Entries

VCLimit == Entries - DeviceBlocks

\* Mistake: the RAM is left without its shareability, as the other parts are.
RamUnshared(split) == [b \in 0 .. split - 1 |-> Block(b, "MT_NORMAL", "none")]

\* The four parts of Stage2map1to1, each from the base the one before left.
Ram(split) == [b \in 0 .. split - 1 |-> Block(b, "MT_NORMAL", "inner")]

VCRam(base) == [b \in base .. VCLimit - 1 |-> Block(b, "MT_NORMAL_NC", "none")]

Devices(base) ==
  [b \in base .. Entries - 1 |-> Block(b, "MT_DEVICE_NGNRNE", "none")]

Mailboxes == [b \in {Entries} |-> Block(b, "MT_DEVICE_NGNRNE", "none")]

\* Mistake: the second gigabyte starts at the beginning of the same table.
RootOfOne == [i \in {0, 1} |-> TableAt("Stage2map1to1", 0)]

Root == [i \in {0, 1} |-> TableAt("Stage2map1to1", i * Entries)]

\* The last entry of a table of the upper half: Stage3virtual, whose entries
\* stay invalid, is behind Stage2virtual and that behind the root.
VirtualEntry(table) == [i \in {Entries - 1} |-> TableAt(table, 0)]

\* The table after these stores to it.
Stored(table, stores) ==
  [i \in DOMAIN table |-> IF i \in DOMAIN stores THEN stores[i] ELSE table[i]]

\* The number of whole blocks below the VideoCore's memory, or the 0 msg[3]
\* began with when there was no answer.
Split == IF pc = "true" THEN msg[3] \div BlockSize ELSE msg[3]

SetupPageTable ==
  /\ pc \in {"true", "false"}
  /\ pc' = "done"
  /\ LET device == After(Split, VCLimit)
         ram == Stored(Stage2map1to1, Ram(Split))
     IN  Stage2map1to1' =
           Stored(Stored(Stored(ram, VCRam(Split)), Devices(device)), Mailboxes)
  /\ page_table_map1to1' = Stored(page_table_map1to1, Root)
  /\ Stage2virtual' = Stored(Stage2virtual, VirtualEntry("Stage3virtual"))
  /\ page_table_virtualmap' =
       Stored(page_table_virtualmap, VirtualEntry("Stage2virtual"))
  /\ UNCHANGED <<mailboxVars, enabling>>

-----------------------------------------------------------------------------
(***************************************************************************)
(* MMU_enable.                                                             *)
(***************************************************************************)
At(instructions) ==
  /\ pc = "done" /\ line <= Len(EnableMmuTables)
  /\ EnableMmuTables[line] \in instructions
  /\ line' = line + 1
  /\ UNCHANGED <<pc, mailboxVars, tables>>

Dsb ==
  /\ At({"dsb"})
  /\ drained' = TRUE
  /\ UNCHANGED <<posted, effective>>

Msr ==
  /\ At(Register)
  /\ posted' = posted \union {EnableMmuTables[line]}
  /\ UNCHANGED <<drained, effective>>

Isb ==
  /\ At({"isb"})
  /\ effective' = effective \union posted
  /\ posted' = {}
  /\ UNCHANGED drained

\* A register write takes effect, and the stores reach memory, with no barrier.
TakesEffect(register) ==
  /\ register \in posted
  /\ posted' = posted \ {register}
  /\ effective' = effective \union {register}
  /\ UNCHANGED <<pc, mailboxVars, tables, line, drained>>

StoresDrain ==
  /\ pc = "done" /\ ~drained
  /\ drained' = TRUE
  /\ UNCHANGED <<pc, mailboxVars, tables, line, posted, effective>>

Enable == Dsb \/ Msr \/ Isb

Finished ==
  /\ effective = Register /\ toVC = <<>> /\ vc = "idle"
  /\ UNCHANGED vars

Next ==
  \/ ARM /\ UNCHANGED <<tables, enabling>>
  \/ VideoCore /\ UNCHANGED <<tables, enabling>>
  \/ \E channel \in Channel \ {Tags} :
       VCPostForeign(channel) /\ UNCHANGED <<tables, enabling>>
  \/ SetupPageTable
  \/ Enable
  \/ \E register \in Register : TakesEffect(register)
  \/ StoresDrain
  \/ Finished

\* The ARM runs, the VideoCore works on what it is sent, and a register write
\* takes effect in the end.
Spec ==
  /\ Init
  /\ [][Next]_vars
  /\ WF_vars(ARM /\ UNCHANGED <<tables, enabling>>)
  /\ WF_vars(VideoCore /\ UNCHANGED <<tables, enabling>>)
  /\ WF_vars(SetupPageTable)
  /\ WF_vars(Enable)
  /\ WF_vars(\E register \in Register : TakesEffect(register))

-----------------------------------------------------------------------------
\* What the processor finds for a block of each half of the address space.
Walk1to1(block) ==
  LET entry == page_table_map1to1[block \div Entries]
  IN  IF entry.type = "table"
        THEN Stage2map1to1[entry.index + (block % Entries)] ELSE Invalid

WalkVirtual(block) ==
  LET entry == page_table_virtualmap[block \div Entries]
      second == Stage2virtual[block % Entries]
  IN  entry.type = "table" /\ second.type = "table"

AddressSpace == 0 .. Entries * Entries - 1

\* The lower half maps the first gigabyte and the mailboxes one to one and
\* nothing else; the upper half has one block whose pages are all invalid
\* (mmu.cpp:118, 260-309).
MapsOneToOne ==
  pc = "done" =>
    /\ \A block \in AddressSpace :
         IF block <= Entries
           THEN Walk1to1(block).type = "block" /\ Walk1to1(block).address = block
           ELSE Walk1to1(block).type = "invalid"
    /\ {block \in AddressSpace : WalkVirtual(block)} = {Entries * Entries - 1}

\* No block that holds VideoCore memory or a device register is cached, and
\* the peripherals are devices wherever the split is (mmu.cpp:194-278).
SharedMemoryIsNotCached ==
  pc = "done" =>
    \A block \in 0 .. Entries :
      /\ (block + 1) * BlockSize > vcBase => Walk1to1(block).attr # "MT_NORMAL"
      /\ block >= Entries - DeviceBlocks <=> Walk1to1(block).attr = "MT_DEVICE_NGNRNE"

\* "Ram from 0x0 to start of VC4 RAM" is normal, cached and shared between the
\* cores (mmu.cpp:152).
RamIsCached ==
  pc = "done" =>
    \A block \in 0 .. Entries :
      (block + 1) * BlockSize <= vcBase =>
        Walk1to1(block).attr = "MT_NORMAL" /\ Walk1to1(block).sh = "inner"

\* The same where the VideoCore answered.
RamIsCachedOnAnswer == message[1] = Answered => RamIsCached

\* The MMU never translates with tables that are still on their way to memory
\* or with a root, an attribute or a size from before: each is waited for
\* before the write that switches it on (utils.S:84-110, mmu.cpp:314-318).
WalksAreReady ==
  "sctlr_el1" \in effective => drained /\ effective = Register

\* The boot core gets through, whatever is in the mailbox, and its MMU comes
\* on (rpi-SmartStart.cpp:31, 40-43, utils.S:84-110).
MmuComesOn == <>("sctlr_el1" \in effective)
=============================================================================
