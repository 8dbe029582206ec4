# TLA+ models of libdwarf: ELF section-group setup and the API usage examples

This directory holds TLA+ specifications, TLC model-checking runs and TLAPS
proofs for two parts of libdwarf: the section-group setup of the ELF
object reader (`src/unnamed/part_001`, `dwarf_elf_load_headers.c`), and the
code examples of the documentation (`src/doc/checkexamples.c`), whose
memory and handle protocols are modelled example by example.

## The system and its parts

`dwarf_elf_load_headers.c` reads an ELF object into a
`dwarf_elf_object_access_internals_t`. Its steps run in this order:

1. `_dwarf_load_elf_header`, `validate_struct_sizes`: the ELF header.
2. `_dwarf_load_elf_sectheaders`, which calls in turn:
   - `elf_load_sectheaders32/64`: the section header table, `f_shdr` with
     `f_loc_shdr.g_count` entries;
   - `_dwarf_elf_load_sectstrings` and `_dwarf_elf_load_sect_namestring`:
     the section names;
   - `_dwarf_elf_find_sym_sections`: the symbol-table indices;
   - `_dwarf_elf_setup_all_section_groups`, the part modelled here. It
     gives every section a group number (`gh_section_group_number`) and
     marks the DWARF sections (`gh_is_dwarf`).
3. The symbol, string and relocation loaders. They are called later by the
   object reader. The relocation loader reads `gh_is_dwarf`
   (`this_rel_is_a_section_dwarf_related`, line 1404).

Everything is single-threaded. The hard behaviour lies in the data: a
section header table read from an untrusted file, with group sections
whose 32-bit words may be written in either byte order.

### Section-group setup

`_dwarf_elf_setup_all_section_groups` (lines 1881-1958) makes two passes
over the table.

- **Pass A** (lines 1895-1913) skips empty sections (`is_empty_section`).
  It counts `SHF_GROUP` flags on data sections. For every group section
  (`elf_sht_groupsec`: `SHT_GROUP`, or the name `.group`) it calls
  `read_gs_section_group` (lines 1735-1857), which does the following:
  - checks the size, the entry size, the word count and the flag word, in
    that order; the flag word must be `GRP_COMDAT` in either byte order.
    Three mallocs and a read can also fail;
  - for each member word, refuses 0. When the word exceeds `g_count` it
    takes the byte swap instead, and refuses that if it also exceeds
    `g_count`;
  - refuses a section that already has a group;
  - gives each member the next COMDAT number, `f_sg_next_group_number`;
  - when at least one member was listed, advances the number and
    `f_sht_group_type_section_count`.
- **Pass C** (lines 1917-1949) handles every data section as follows:
  - a name ending in `.dwo` gets `DW_GROUPNUMBER_DWO` (2), or an error if
    a group already listed the section;
  - a DWARF name (`_dwarf_load_elf_section_is_dwarf`) gets
    `DW_GROUPNUMBER_BASE` (1) if it has no group yet;
  - both kinds are marked `gh_is_dwarf`.

Any error returns `DW_DLV_ERROR` at once. Earlier assignments stay in
place.

## Modules

| Module | Models |
|---|---|
| `ElfGroupDefs` | The section header records and the pure helpers: `is_empty_section` (`IsEmptySection`), `elf_sht_groupsec` (`IsGroupSec`), `_dwarf_load_elf_section_is_dwarf` (`IsDwarfName`), the ordered header checks of `read_gs_section_group` (`GroupHeaderError`), the byte swap of `ASNAR(_dwarf_memcpy_swap_bytes, ...)` (`Swap32`), and the member-word checks (`MemberTarget`, `BadMemberWord`). |
| `ElfSectionGroups` | The routine itself. Its variables carry the names of the struct fields and locals they model. `pc` is the position: `passA`, `member` (the member loop of `read_gs_section_group`), `passC`, `done` or `error`. There is one action per loop iteration and per branch, and every `return DW_DLV_ERROR` is a `Fail(code)` disjunct. |
| `SectionGroupsAbs` | What the routine promises, in one step. From the table it either fails, or it produces the group number and DWARF mark of every section and the number of COMDAT groups. |
| `MCElfSectionGroups` | The candidate sections for TLC. |
| `ElfSectionGroupsProofs` | TLAPS proofs of the invariants. |
| `ElfRefinementProofs` | The TLAPS proof that `ElfSectionGroups` implements `SectionGroupsAbs`. |

### How the model abstracts the data

- **Names.** A section name is reduced to the literal the code compares it
  with (`NameStems`: `.debug_*`, `.rela.*`, `.rel*` which the code rejects,
  a name `_dwarf_ignorethissection` rejects, and so on), plus whether it
  ends in `.dwo`.
- **Group contents.** A group section's contents are the words
  `ASNAR(memcpy, ...)` yields. The field `io` says which of the
  allocations and the read fails, if any.
- **Flags.** `elf_flagmatches(flags, SHF_GROUP)` is the Boolean
  `shfGroup`.
- **Out-of-table reads and writes.** The section table is allocated with
  exactly `g_count` entries. `gh_section_group_number` has one extra slot,
  index `Count`, which stands for the heap word just past the table. Init
  gives it a value from `HeapJunk`. This lets the model show what the code
  does with a member word equal to `g_count`.

## Runs

Both runs use `MCElfSectionGroups` with `Count = 4`: the `SHT_NULL`
section 0 and three chosen sections.

- **`groups_ref`** (expected to pass). Each of sections 1..3 is one of 29
  candidates:
  - `.debug_*` in a COMDAT group, `.debug_*.dwo`, `.text` in a COMDAT
    group, and `.bss`;
  - every group listing one or two of sections 1..3, including
    repetitions;
  - an empty group;
  - a group written in the other byte order;
  - a group recognised by its name only;
  - a group whose size has a trailing byte;
  - one malformed group for each of the nine error paths.

  The run explores 155,624 distinct states in about 10 seconds, and every
  action and every branch fires. It checks three properties:
  - `GroupNumberStable` (action property): no step changes a non-zero
    group number. It fails if the multi-assignment check at line 1837 is
    dropped: the mutant `MemberAcceptedNoMultiCheck`.
  - `ComdatNumbersDense` (invariant): on success the COMDAT numbers in use
    are exactly `3..f_sg_next_group_number-1`, and
    `f_sg_next_group_number = 3 + f_sht_group_type_section_count`. It fails
    if an empty group uses up a number: the mutant `EndGroupAlwaysCounts`.
  - `ImplementsAbs` (refinement). The routine implements
    `SectionGroupsAbs`. The mapping shows the group numbers, DWARF marks
    and group count only once `pc = "done"`, and maps `done` and `error`
    to the abstract status. It fails if pass C marks only ungrouped DWARF
    sections as DWARF: the mutant `PassCDwarfMarksUngrouped`.

  Deadlock checking is off because the routine terminates: `done` and
  `error` are final states of a single call.

- **`groups_oob`** (expected violation). The candidates are a group
  listing section 4 (= `g_count`), the same group byte-swapped, and a
  DWARF data section. The heap word past the table is 0 or 1. The
  invariant `GroupMembersInTable` says every member index lies in
  `0..g_count-1`. TLC finds it violated: the checks at lines 1821 and 1826
  use `>` where `>=` is needed, so the member loop dereferences and writes
  `f_shdr + g_count`, past the table. When the heap word happens to be
  non-zero, the routine fails with a spurious multi-assignment error. The
  relocation code's own check (line 1398, `oksecnum >= g_count`) is
  correct. PROJECT.json records this as a finding.

### Why these bounds are enough

Three sections after the null section are enough to contain:

- two groups listing the same section;
- a group listing itself or another group;
- a `.dwo` section in a group;
- a DWARF section inside and outside a group.

Group sizes go up to 5 words, one more than `g_count` allows, so the
`count > g_count` check fires. Every error path and both byte orders are
included. A larger table only repeats these patterns, and the proofs
below hold for every `Count`.

No fairness is assumed and no liveness is checked. The routine is a pair
of bounded loops with no waiting, and termination is evident from `i`
increasing to `Count`.

## Proofs (`ElfSectionGroupsProofs`)

The theorems hold for every `Count \in Nat \ {0}` and every set of
candidate sections that satisfies `ChoicesAssumption`.

- **`TypeCorrect`**: `Spec => []TypeOK`. It needs the inductive
  invariant `Inv = TypeOK /\ TableOK /\ MemberLoopOK`:
  - `TableOK`: the table is the one Init built;
  - `MemberLoopOK`: inside the member loop, the section is a non-empty
    group section and `j` lies in `1..WordCount`.

  Together they give that `Word` is a defined 32-bit value, and then
  `MemberTarget` of an accepted word lies in `0..Count` (lemma
  `MemberTargetRange`). So the out-of-table write is bounded to the one
  slot `Count`.
- **`GroupNumberStableThm`**: `Spec => GroupNumberStable`. Lemma
  `KeptStep` shows every step of `Next` satisfies `GroupNumbersKept`,
  given `Inv`.
- **`ComdatNumbersDenseThm`**: `Spec => []ComdatNumbersDense`, under the
  hypothesis `NoTableEndMembers`: no candidate member word names the slot
  `Count`. That is exactly the case the finding above excludes. Without
  the hypothesis a write to the slot past the table does not show in
  `ComdatNumbersInUse`, so the theorem would be false. The invariant is
  not inductive as it stands. The strengthening `DenseInv` adds two
  facts:
  - inside the member loop, or after an error, the current number is in
    use exactly when `foundone` holds;
  - `foundone` is false between groups.

  TLC checked `DenseInv` before it was proved.

### The refinement (`ElfRefinementProofs`)

**`ImplementsAbsThm`** proves `Spec => ImplementsAbs` under the hypothesis
`NoTableEndMembers`, for every `Count` and every table. So every run of the
two passes does one of two things:

- it stops in `error` only on a table for which `SectionGroupsAbs!SetupFails`
  holds;
- it returns with exactly `RefGroupNumber`, `RefIsDwarf` and the number of
  COMDAT groups.

Every step before the return maps to a stutter of the abstract state. A
step to `error` maps to `Fail`, and `EndPassC` maps to `Succeed`. The
inductive invariant is `Inv /\ RefA /\ RefC`. It states what the passes
have computed so far, in terms of the slots read (`SlotDone`, `AssignedBy`):

- **`RefA`** holds in pass A:
  - every group before `i`, and the words read of group `i`, passed the
    checks;
  - no two slots read name the same section;
  - a section carries the COMDAT number of the group that listed it, and
    0 if no group did;
  - the two counters count the COMDAT groups before `i`.
- **`RefC`** holds in pass C:
  - pass A found nothing wrong;
  - the sections before `i` carry their reference number and mark;
  - the sections from `i` on still carry what pass A gave them;
  - no `.dwo` data section before `i` is listed by a group.

TLC checked `RefInv` on the `groups_ref` instance before it was proved. The
proof needs these invariant facts:

- a rejected member word is one of the abstract failures. Either the word
  is bad, or the target already carries a number, which `RefA` turns into a
  slot read earlier that names the same section;
- `EndPassC` is `Succeed`. `RefC` gives the reference values, and
  `NoTableEndMembers` (lemma `MemberInTable`) shows that every member lies
  in the table.

The hypothesis is needed: when a member names slot `Count` the routine
writes past the table and accepts the group, while `SetupFails` rejects it
(the `groups_oob` finding).

What stays with TLC: the violation run.

## The API usage examples (`src/doc/checkexamples.c`)

`checkexamples.c` holds the code examples of the libdwarf documentation.
Each example is a function that calls the library and then frees what the
library handed over. It is the code users copy, so the question the models
ask is whether each example uses the memory and handles the library gives it
correctly on every path. That includes the failure paths, which a test rarely
reaches. The library is not under `src/`: what a call may return
(`DW_DLV_OK`, `DW_DLV_NO_ENTRY`, `DW_DLV_ERROR`) is taken from spec.md
(`DwarfApiDefs`, marked `spec_modelled` in the map).

### Modules

| Module | Examples | State and actions |
|---|---|---|
| `DwarfApiDefs` | all | The three return codes, and `IndexedResults`: what an accessor by index may return below and past the count. |
| `DocLocLists` | `example_loclistcv5`, `example_locexprc`, `examplea` | `live` holds the handles the caller owns (`"head"`, `"error"`). There is one action per call and loop pass: `GetHead`, `Cv5Entry`, `Cv5Op`, `Cv5Final` (the common exit), `ExprEntry`, `ExprOp`, `AEntry` and the loop exits. |
| `DocMacroImports` | `examplep5` | The offset list of `dwarf_macro_context_*` imports (`list`, `examined`) and the macro context `ctx`. Units import units (`ops`), possibly in cycles. `PrimaryContext` and `ByOffsetContext` are the two context calls, `MacroOp` is one operator and `OpsDone` the dealloc. |
| `DocMacinfo` | `examplep2` | The section is cut into CU blocks (`starts`, `bad`). `FirstDetails` and `FirstUse` read the CU's own block; `ScanDetails` and `ScanUse` walk the section, restarting one byte past the last entry. |
| `DocLineTables` | `examplec`, `exampled` | The line context `ctx` (`none`, `live`, `freed`) and the number of `dwarf_srclines_dealloc_b` calls. There is one action per branch on `table_count`, per loop pass and per exit. |
| `DocCallerBuffers` | `examplesecgroup`, `exampledebuglink` | `heap`, the caller's `calloc`'d arrays, and `printed`, the path indices printed. The loops share one `i`, as in the code. |
| `DocRangeLists` | `example_raw_rnglist`, `example_rnglist_for_attribute` | The context, offset and RLE loops of the raw walk, and the head of the attribute's range list. |
| `DocListDealloc` | `example1`, `examplee`, `examplef`..`exampleo` | `listLive` for the array and `elems` for the records not yet freed. There are two styles: a bulk `dwarf_*_dealloc`, or a `dwarf_dealloc` per record and then the list. |
| `MCDoc*` | | The constants for TLC. |
| `Doc*Proofs` | | TLAPS proofs. |

### The library as data

A behaviour is one call of one example. The library is deterministic: what
it answers is a function of the object file. So each model chooses the
file's data in `Init`:

- the counts;
- the index of the first entry or operator the library cannot read;
- the macro units and their imports;
- the CU blocks of `.debug_macinfo`;
- whether each `calloc` succeeds.

Each call then answers from that data. For RLE lengths the answers are
chosen on first use and remembered (`rle` in `DocRangeLists`). This keeps
two things faithful:

- a loop that asks for the same index twice gets the same answer;
- a walk that stops advancing really loops. It does not escape through an
  error answer the library would not give.

Values the examples only print (addresses, names, descriptor fields) are
left out.

### Fairness

Every example is sequential code that runs until it returns. So each
`Spec` is `Init /\ [][Next]_vars /\ WF_vars(Next)`. `Terminates` then
fails exactly when the code has a loop that does not end. `"returned"` is
final, so the cfgs say `CHECK_DEADLOCK FALSE`.

### Runs

| Run | Expect | What it shows |
|---|---|---|
| `loclists_ref` | pass | `MaxCount = 2`: lists of 0-2 entries with 0-2 operators, and every first failing entry and operator (9000 states). The head is never used after its release (`NoUseAfterRelease`). It is released on every return, and `example_loclistcv5` leaves no error object (`HandlesReleasedOnReturn`). Each example returns. |
| `macro_ref` | pass | Three units with up to two operators each, so every import graph: cycles, self-imports, imports of the CU's own unit, and bad operators (485,624 states). Under the assumption that every import offset is found or fails, the walk ends (`Terminates`). On an OK return every unit the CU reaches was examined (`ImportsExamined`); `ListExamined`, the same promise for the list itself, fails only in `macro_noentry`. A context is held only while its operators are read (`ContextReleased`). |
| `macro_noentry` | violation | `ListExamined`: an OK return leaves no offset of the list unexamined. The by-offset call may answer `NO_ENTRY` here (finding below). |
| `macinfo_ref` | pass | Every way of cutting a 4-byte section into blocks, some unreadable. The walk ends, and each list is freed before the next call. |
| `lines_ref` | pass | Both examples, every `table_count`, every failing call, up to 2 files and lines. The context data is not read after the dealloc. The dealloc is called once (`DeallocOnce`). |
| `lines_loop` | violation | `Terminates` in `exampled` (finding). |
| `secgroup_leak` | violation | `BuffersFreedOnReturn` in `examplesecgroup` (finding). |
| `debuglink_paths` | violation | `AllPathsPrinted` in `exampledebuglink` (finding). |
| `rnglists_ref` | pass | Contexts, offsets and RLE spans up to 3 bytes, with entries of 1 or 2 bytes, so an entry can run past the end. The walk ends, and the attribute's head is freed on every return. |
| `lists_ref` | pass | All twelve array examples with up to 3 records. No record is used after it or its array is freed. An OK return of the eight supported examples has freed everything. The four obsolete per-record examples (`examplei`, `k`, `m`, `o`; the source marks them "what not to do" or "OBSOLETE") free records with a dealloc kind the library no longer honours. The model lets each such dealloc release the record or not, and the property excludes them. |

The bounds are two or three of everything. That is enough for the cases the
properties turn on to happen:

- a loop that runs more than once;
- a failure at the first index and at a later index;
- an import cycle of length 1 and of length 2;
- an RLE that runs past the end.

Every property has a mutant that breaks it under the run's own cfg, for
example a dropped `return`, a missing dealloc, a missing `+ 1` or a missing
mark.

### Findings

1. **`exampled` never ends** (line 993). The loop is
   `for (i = 0; i < count; ++line)`: it increments `line`, not `i`.
2. **`examplesecgroup` frees the wrong array** (line 268). When the second
   `calloc` fails, it frees `group_nums` (NULL) instead of `sec_nums`.
3. **`exampledebuglink` skips paths** (line 2025). The paths loop
   `for ( ; i < paths_count; ++i)` starts at the `i` the crc loop or the
   build-id loop left.
4. **`examplep5` stops early** (line 1276). A `NO_ENTRY` from the
   by-offset context call ends the whole walk, and the example returns OK
   with imports unexamined. This contradicts the purpose the example's
   header states (lines 1211-1214). In TLC's trace, the CU's unit `u1`
   imports `u3` and then `u1` itself. The lookup of `u3` answers
   `NO_ENTRY`, and the walk returns OK with `u1` still in the list and
   unexamined. With `continue` in place of the `break`, `u1` would be
   examined.

### Proofs

Six modules prove properties for every value of the constants. In each,
a TLC-checked run shows the property on a small instance, and the proof
covers every instance. Each proof finds an inductive invariant, proves
`Init => Inv` and `Inv /\ [Next]_vars => Inv'`, and concludes with PTL.

- **`DocLocListsProofs`** proves `NoUseAfterReleaseThm` and
  `HandlesReleasedOnReturnThm`. The invariant `HandleInv` adds three facts:
  - `live` holds only the head and the error, which is why the `live' = {}`
    cleanups release everything;
  - nothing is live at `start`;
  - only `example_loclistcv5` reaches `final`.
- **`DocLineTablesProofs`** proves `NoUseAfterDeallocThm` and
  `DeallocOnceThm`. `LineInv` adds that the context is live at `table` and
  `lines`, where the freeing steps start, and `none` at `start`. The lemma
  `DeallocLive` shows that a dealloc of a live context is its first.
- **`DocListDeallocProofs`** proves `NoUseAfterDeallocThm` and
  `ReleasedOnSuccessThm`. `ListInv` says which records are pending inside
  the loop: all of them in the bulk style, and `i..count-1` in the
  per-record style. For the obsolete examples it says only that the pending
  records are still allocated. Leaving the loop with `i >= count`
  therefore frees everything in a supported example.
- **`DocRangeListsProofs`** proves `HeadReleasedOnReturnThm`. It uses the
  stronger invariant `HeadOnlyInLoop`: the head is held only inside the
  entry loop. The loop is entered only by the step that gets the head, and
  every step out of it frees the head.
- **`DocMacinfoProofs`** proves `ListFreedBeforeNextCallThm`. The property
  is inductive as it stands: a successful call enters an entry loop, and the
  only step out of the loop frees the list.
- **`DocMacroImportsProofs`** proves two theorems:
  - `ContextReleasedThm`, which is inductive as it stands;
  - `ImportsExaminedThm`, under the hypothesis `ByOffsetFinds`: the
    by-offset call never answers `NO_ENTRY`, as in the run `macro_ref`.
    `ImportedUnits` is defined without recursion, as the intersection of
    all import-closed sets that contain the CU's imports, so an inclusion
    in it needs no induction. The strengthening `WalkInv` says:
    - every unit read to the end has put all its imports into the list;
    - the unit being read has put in the imports of its first `k`
      operators.

    At an OK return the list lies inside `examined`. So `examined` is
    import-closed and contains `ImportedUnits`.

What stays with TLC:

- every `Terminates`, because liveness is beyond TLAPS;
- `ListExamined` once `NO_ENTRY` is possible, which is false (run
  `macro_noentry`);
- the violation runs.

### Examples not modelled

These examples are one call followed by a loop that keeps no state between
passes and frees nothing of its own, or they only print:

- `exampleinit` and `exampleinit_dl`: opening a file;
- `example2`..`example8`;
- `exampleoffset_list` and `example_discr_list`;
- the frame examples `exampleq`..`examples`;
- `examplestrngoffsets`;
- `examplev`..`exampley` and `examplez`..`examplezb`;
- `exampledebugnames`, which is empty.

Their memory protocol, one dealloc after the loop, is the one
`DocListDealloc` checks.

Two early returns leave library-owned memory allocated until
`dwarf_finish`, which releases everything of the session (spec.md,
section 5). The models keep these paths, and the hazards list them:

- `examplec` returns without `dwarf_srclines_dealloc_b` when
  `dwarf_srclines_files_indexes` or `dwarf_srclines_files_data_b` fails
  (lines 867 and 884);
- `example1` returns on a `dwarf_whatattr` failure without freeing the
  remaining attributes or the list (line 151).

No run checks them, because the session bounds these leaks. The leak in
`examplesecgroup` is of the caller's own `calloc` memory, which nothing
reclaims, so a run does check that one.

## Not modelled

| Part | Why |
|---|---|
| Section-header pipeline before group setup | Sequential reads and validations of file data. The model starts from any table they can produce. |
| Relocation loading | Its ordering hazard with pass C depends on the object reader, which is not under `src/`. |
| Symbol and string tables | Sequential reads with cleanup on error, and no shared state. |
| Header conversion, object construction and destruction | Field copies and allocation only. |
| `part_000` (README) and `part_002` (CMake lists and `showsectiongroups.c`) | The build files have no behaviour to model. `showsectiongroups.c` is a command-line dump of section groups, outside the documentation examples covered here. |

## Further work

- Model `_dwarf_load_elf_relx` and `this_rel_is_a_section_dwarf_related`
  together with the group setup, to check the order hazard on
  `gh_is_dwarf`.
- Model the bounds checks of `_dwarf_elf_load_sectstrings`,
  `validate_links` and `_dwarf_elf_find_sym_sections`.
