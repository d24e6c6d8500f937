# TLA+ models of libsxe

Model-checking specifications of the concurrent and stateful parts of
libsxe. The covered parts are the per-thread memory tracker, the jitson
build stack, the JSON parser with its string loader and source reader,
the dictionary and the operator registry. The modules are
translated from the C sources under `src/`. `PROJECT.json` maps every
definition to the lines it models, and it lists the runs, the mutants,
the findings and the hazards.

## The system

| Part | Source | State | Operations | Interacts with |
|---|---|---|---|---|
| Per-thread memory tracker | `lib-sxe-thread/sxe-thread-memory.c` | global lock-free list `trackers` of `{memory, free, next, tid}`; thread-local `tid` | `sxe_thread_malloc` (push by CAS), `sxe_thread_realloc`, `sxe_thread_memory_free` (detach the whole list, free trackers of dead threads, relink the rest by CAS) | any thread; the per-thread jitson stack |
| Per-thread jitson stack | `sxe-jitson-stack.c` `get_thread` | thread-local `sxe_jitson_stack_per_thread` | `sxe_jitson_stack_get_thread` (allocated through the tracker on first use) | the memory tracker, which frees it |
| Jitson stack | `lib-sxe-jitson/sxe-jitson-stack.c` | `maximum`, `count`, `jitsons` (cell block or NULL), `open` | `new`/`make`, `expand`, the builder calls, `close_collection`, `get_jitson`, `clear` | the parser, the identifier hook, the type registry's size function |
| String loader | `sxe-jitson-stack.c` `load_string` | the head cell's `len`; the cells reserved | one step per decoded character; close quote; error | the stack (`expand`), the source reader |
| JSON parser | `sxe-jitson-stack.c` `load_json`, `parse_json` | recursion over the stack | one case per character class | source reader, constants, identifier hook |
| Source reader | `lib-sxe-jitson/sxe-jitson-source.c` | cursor, end, flags | `get_char`, `push_char`, `get_nonspace`, `get_identifier`, `get_number` | parser |
| Identifier type | `lib-sxe-jitson/sxe-jitson-ident.c` | the registered type id | `push_ident_at_index`, `ident_size`, `register` | parser hook, type registry |
| Operator registry | `lib-sxe-jitson/sxe-jitson-oper.c` | `opers`, `num_opers`, `type_opers`, `num_types` | `register`, `add_to_type`, `apply_unary`, `apply_binary`, `fini` | type ids |
| Dictionary | `lib-sxe-dict/sxe-dict.c` | `table`, `size`, `count`, `load`, `growth` | `new`, `add` (with resize), `find`, `forEach`, `delete` | none |
| Type registry | `sxe-jitson.c` (not in this tree) | type descriptors | size, clone, free | everything above |
| fnmatch shim | `lib-port/any-winnt/fnmatch.c` | none | pattern match | none |

### Hard behaviours

- **Interleaving of threads.** Workers push trackers with a CAS. The main
  thread detaches the whole list, walks it, and relinks the trackers it
  keeps with another CAS loop. A tracker address is reused after the
  reaper frees it (ABA). A thread may exit and its tid may be reused.
- **Partial failure.** Allocation fails inside `sxe_thread_malloc` and
  inside the multi-cell builder calls: `push_string`, `add_member_name`,
  `add_dup_members` and `load_string`.
- **Numeric edges.**
  - The half-cell edge test in `load_string`.
  - `expand`'s rounding and the division by `maximum`.
  - `realloc(p, 0)` in `get_jitson`.
  - The dictionary's `count * 100 / size` load computation.
- **Protocol sequences.**
  - Builder calls in any order: `no_value`, `partial.collection`, span sizes.
  - A document truncated after `[` in a length-bounded buffer.
  - `oper_fini` followed by further use of the registry.
  - Dictionary `add` of a key that is already present.

## Modules

### `ThreadMemory` (composed for TLC by `MCThreadMemory`)

- **State.** The variables correspond to the code as follows:
  - `trackers` is the global head.
  - `next`, `tid` and `mem` are the tracker fields, and `allocated` is the
    set of tracker addresses that are live.
  - `alive` is the set of threads with a `/proc` task entry.
  - Each thread has a `pc` and the `node` it is pushing. `pc` is "idle",
    "push" (inside `sxe_thread_malloc` called by the application) or
    "push_stack" (called by `sxe_jitson_stack_get_thread`). `held` is the
    trackers whose memory the thread owns. `jitson_stack` is the
    thread-local pointer of `sxe-jitson-stack.c` (line 45).
  - The reaper's locals are `rpc`, `mode`, `cur`, `keepers`, `last`,
    `unfreed` and `seen` (`seen` is the value of the head that the relink
    CAS compares against).
- **Actions.**
  - `MallocStart(t, p)` covers lines 45-55. `MallocCasOk` and `MallocCasRetry`
    cover the loop at 59-60. `MallocNoMemory` covers the failure at line 47.
  - `GetThread` is `sxe_jitson_stack_get_thread` (stack.c 142-158). A
    thread's first call runs `sxe_thread_malloc` with
    `sxe_jitson_stack_free` as the tracker's free function. The
    successful CAS stores the tracker in `jitson_stack`. If
    `sxe_thread_malloc` fails, the call returns NULL and leaves
    `jitson_stack` NULL (`MallocNoMemory`). A failed
    `sxe_jitson_stack_make` keeps the stack and `expand` allocates the
    cells later, so the tracker sees no difference. `Exit` drops the
    thread-local pointer; the stack stays tracked.
  - `Realloc` covers lines 77-86. It never reallocates the jitson stack,
    because `get_thread` does not ask for a `tracker_out`.
  - `ReapDetach` covers lines 114-115. It is one exchange, because the
    CAS loop amounts to one.
  - The walk is `Reap`, `ReapKeep` and `ReapFree` (lines 117-155).
  - The relink is `ReapRelinkStart`, `ReapRelinkCas` and
    `ReapRelinkRetry` (157-164). `ReapReturn` covers 166-167.
  - `Exit` and `Spawn` are the operating system's side.
- **No abstract specification.** The tracker's promise, written as an
  abstract specification, would have the same release condition as
  `Reap`, so a refinement check would hold by construction.
  `LiveMemoryNotFreed` states the part of that promise that can fail.
- **Fairness.** A thread inside `sxe_thread_malloc`, and the main thread
  inside `sxe_thread_memory_free`, keeps running until the call returns,
  so their steps get weak fairness. Nothing forces the application to
  allocate, exit or reap, so those steps are not fair.

### `JitsonString` (operators only)

- **What it models.** The reservation loop of `load_string`, lines
  212-334. `LoadStep` is one iteration for a character of width 1 to 3
  bytes: a UTF-8 encoded `\uXXXX` escape is 1 to 3 bytes, and everything
  else is 1. `LoadString` folds it over a string's widths and returns
  the length and the `expand` calls made. `LoadTable` and `AllLoads`
  enumerate every string of up to `MaxLen` bytes.
- **Layouts.** `PushStringCells`, `PushIdentCells` and
  `sxe_jitson_ident_size` are the three layouts the code uses for a
  string of known length.

### `JitsonParser` (composed by `MCJitsonParser`)

- **What it models.** `sxe_jitson_stack_load_json` (stack.c 383-539) and
  `parse_json` (541-559), on the stack of `JitsonStack`, which it extends.
- **Input.** The input is a sequence of tokens that `JitsonSource`
  reads:
  - a string token has the character widths of its text;
  - `AnyString` stands for any text up to `MaxLen` bytes, chosen in Init
    through the variable `text`;
  - every other token is one byte (`Ascii` gives its code), except
    `AnyIdent`, a run of identifier bytes of length `identLen`.
  Numbers, keywords and identifiers are read byte by byte by
  `GetNumber` and `GetIdentifier`, and the value of a number by the C
  library's `strtoul` (`StrToUL`) in the base of line 475 (`Base`).
  `consumed` is what `sxe_jitson_source_get_consumed` reports.
- **Registration.** `StackInit` (`sxe_jitson_stack_init`) and
  `IdentRegister` (`sxe_jitson_ident_register`) set `constantsSet`,
  `pushIdent` and the global `jitsonFlags` (`sxe_jitson_flags`), in
  either order, before the call. `StackFini` (`sxe_jitson_stack_fini`,
  stack.c 67-72) clears the constants again between calls, after which
  a parse with ALLOW_CONSTS finds none. A call is either `load_json` on a source
  the application made with its own flags, or `parse_json`, whose source
  takes `jitsonFlags` (`CallFlags`). The constants and the identifier hook
  are used only when both the flag and the registration are there.
- **Build.** `build` is "debug" or "release": the `SXEA6` at line 476
  (strtoul stopped before the end of the lexeme) aborts a debug build
  only, and so does the `SXEA6` at line 480 (strtod). strtoul can stop
  early only in base 0, with ALLOW_HEX. strtod reads the source past
  the lexeme (`StrToDOverruns`): for `-0x1`, which `get_number` ends after
  `-0`, it reads a hexadecimal float of 4 bytes. So Init offers the
  debug build when ALLOW_HEX is set or the input has an `x`.
- **Parser.** `ParseValue`, `Members` and `Elements` are mutually
  recursive operators, like the C recursion. Their result records:
  - the cells a successful call appends;
  - the sizes of the `expand` calls, in order;
  - whether `push_char` aborts: `PushCharAborts`, the end of a buffer
    source.
- **The call.** The action `LoadJson` is one whole call. `JitsonStack`'s
  `Outcomes`/`Expands`/`Crash` choose which expand fails. The ERROR exit
  cuts the stack back (`Truncate`). `get_jitson` and `clear` run
  between calls.
- **Reference.** `RefValue` is the JSON grammar of spec section 4.1,
  with constants and identifiers as the flags allow, and its lexical
  rules: `IsNumber`/`IsUint` take the longest prefix that is a number,
  and the value is converted in the base spec 4.5.2 prescribes,
  independently of `Base`. `RefIdentChars` is spec 4.1's identifier set
  (letters, digits, '_') plus the constant `IdentExtra`. `Decode` reads a
  value back from the cells through the size function.

### `JitsonSource` (operators only)

- **What it models.** The byte-level part of `sxe-jitson-source.c`:
  `get_char`/`get_nonspace` past the end (`Tok`, `Eof`), the
  `identifier_chars` bitmap (line 31, each 64-bit word as four 16-bit
  parts) and `get_identifier` (118-129), `get_number` (160-224) with
  its hexadecimal, fraction and exponent branches and the
  `h - i <= 2` test, and `jitson_class` (stack.c 347-371), the classes
  `load_json` switches on.
- **Why operators.** These functions move only the cursor, which the
  parser's token index stands for; `JitsonParser` calls them inside its
  one `LoadJson` action.
- **strtoul.** `StrToUL` is the C library's conversion: base 0 takes
  `0x` followed by a hex digit as hexadecimal and a leading `0` as
  octal, and reports how many bytes it used.
- **strtod.** `StrToDOverruns` says whether glibc's `strtod`, started
  at a non-integer lexeme of `get_number`, reads past it. Its decimal
  reading stops where `get_number` stopped. A hexadecimal float (`-0x1`)
  is the exception: `get_number` never reads an `x` after a `-`. Only
  whether the lexeme is overrun is modelled, not the value.

### `JitsonStack` (composed by `MCJitsonStack`)

- **State.** The variables correspond to the stack as follows:
  - `cells` is the first `count` cells. Each cell is abstracted to its
    type, `IS_KEY`, `len`, `integer`, `partial.no_value` and
    `partial.collection`.
  - `maximum`, `jitsons` (the block is non-NULL) and `open` are the
    stack's fields.
  - `ok` is the result of the last call. `crashed` records a division
    by zero.
- **Actions.** There is one action per builder call:
  - `OpenCollection`, `AddMemberName`, `AddString`, `AddScalar`,
    `AddDup`, `AddDupMembers`, `CloseCollection`, `GetJitson` and
    `Clear`.
  - `AddMember(n, v)` is the inline helpers of `sxe-jitson.h` (120-161):
    `add_member_name` followed by the value's add, joined by `&&`. When
    the name fails, the value is never added; when the value fails, the
    name stays on the stack.
  - Each action contains every `expand` call its C function makes.
    `Outcomes` lists where a series of expands can stop when an
    allocation fails, and `Crash` is the division by zero at line 182.
- **Guards.** The `SXEA1` assertions on how the interface is used are
  the actions' guards.
- **Parameters.**
  - `JITSON_STACK_MAX_INCR` is the constant `MaxIncr`, set to 4 so that
    both growth branches happen within a few cells.
  - Dups are small finished values: a scalar, an empty object, and
    `{"k": scalar}`.

### `DictAbstract` and `Dict` (composed by `MCDict`)

`DictAbstract` is what the dictionary promises callers: a map from keys to
non-NULL values with `Put` (of an absent key), `Get`, `Iterate` (every
entry once) and `Clear` (the dictionary deleted and a new one made). `Dict` is `sxe-dict.c` at pointer level: `table` (bucket heads
over `0..size-1`, or no table after `sxe_dict_new(0)`), `count`, and the
node fields `key`, `val`, `next` over a set of node addresses. `Add` is the
whole of `sxe_dict_add` plus the caller's store through the returned
pointer: the lazy one-bucket table, the load check (`Overloaded`), the
resize (`Resize` = `BucketOrder` walk + `ReinsertOne` prepends), the bucket
recomputation and the append at the chain's tail. `Find` and `ForEach` are
the two readers. `Delete` is `sxe_dict_delete` with the recursive
`sxe_dict_node_delete` (`NodeDelete`, the rest of a chain), and `New(s)` a
new `sxe_dict_new(s)` after it; the flag `live` says a dictionary exists.
Nodes a delete did not free stay allocated, so `NodesOwned` (every
allocated node at exactly one place on the live table's chains) catches a
leak or a double free. The hash is a variable chosen once in `Init` from all
functions `Keys -> 0..3`, so every collision pattern is checked; meiyan's
bit mixing itself is not modelled. `Dict` implements `DictAbstract` under
the mapping `map <- [k |-> what find returns for k]`
(`ImplementsMap == Abstract!AbsSpec`).

### `OperAbstract` and `OperRegistry` (composed by `MCOperRegistry`)

- **Abstract.** `OperAbstract` is section 4.4 of the spec:
  - a sequence of operators, each with a name, an arity, a governing side
    and an optional default;
  - a matrix of overrides indexed by operator and type;
  - dispatch takes the override, else the default, else NULL;
  - `Reset` is teardown.
- **State.** `OperRegistry` holds the C globals `num_opers`, `opers`,
  `num_types` and `type_opers`:
  - each array is a function over its possible indices;
  - each has a block state: "null", "live", or "freed" once `fini` has run;
  - `type_opers[t]` holds `num_opers` and the per-type slot array.
  Functions are model values; argument types are type ids.
- **Actions.** `Register`, `AddToType`, `ApplyUnary`, `ApplyBinary` and
  `Fini` are the five functions. The `SXEA1` assertions are the guards.
  `AddToType` includes both growth loops: new types, and intervening
  slots (`GrowSlots`).
- **Faults.** Applying through the NULL `opers` is the `fault` state.
  Only operation 0 before the first `register` can do it.
- **Refinement.** `ImplementsOperSpec` checks `OperRegistry` against
  `OperAbstract`:
  - `ops` is mapped to the registered entries `1..num_opers`;
  - `overrides` is mapped to the slot when the type and operation are
    within the allocated arrays, else NULL.
- **Teardown.** The spec allows it only at shutdown, so nothing runs after
  `Fini`, and the run says `CHECK_DEADLOCK FALSE`.

## Runs

| Run | Bounds | Checks | Result |
|---|---|---|---|
| thread_memory_safety | 3 threads (main + 2), 3 addresses; symmetry over workers and addresses; a VIEW that ignores fields of freed trackers and locals of idle actors (they are rewritten before being read) | TypeOK, TrackerPartition, LiveMemoryNotFreed | pass, 2M-5.5M distinct states after symmetry in under 3 minutes (TLC's symmetry reduction is not canonical, so the count varies between runs) |
| thread_memory_liveness | 2 threads, 2 addresses, failing allocations, no symmetry or view (both are unsound for liveness) | ReapReturns | pass |
| thread_memory_oom | as safety with failing allocations | TrackerPartition | violation: the tracker leaks |
| parser | after any registrations: every sequence of up to 5 structural tokens with no flags; every input of up to 3 pieces through `parse_json`; 20 numbers covering every branch of `get_number` and 5 words (`x.1`, `a_9`, `x`, `true.5`, `_1`), alone, in an array and before a string, with and without ALLOW_HEX / ALLOW_IDENTS, in debug and release builds; `AnyString` of up to 60 bytes and `AnyIdent` of up to 60 bytes in a few positions; stacks holding 0 or 1 values, capacities 0-2, allocation failing at any expand; string sources | LayoutsAgree, ParsedAsGrammar | pass, about 345K distinct states (a VIEW leaves out the registrations where nothing reads them) |
| string_utf8 | one string of widths 1-3 | ParsedAsGrammar | violation: len 8 with 1 cell reserved |
| parser_buffer | up to 3 tokens of `[`, `]`, a string; buffer sources | InputErrorsRecoverable | violation: input `[` aborts in push_char |
| stack_builder | up to 6 cells, initial sizes 0, 1 and 3, `MaxIncr` 4 | TypeOK, StackConsistent, WithinCapacity | pass, about 98K distinct states |
| stack_oom | failing allocations | FailedCallLeavesStack | violation: in an open object, `add_member_name` whose first expand fails pushes nothing but leaves the object's `no_value` set, so the stack has changed |
| stack_zero | initial size 0 | NoDivideByZero | violation |
| dict_map | 4 keys (one empty), 4 nodes, hash range 0..3, initial sizes 0, 1, 2; symmetry over nodes, values and non-empty keys | TypeOK, LoadBounded, NodesOwned, ImplementsMap | pass, about 215K distinct states (a delete and new return to initial states) |
| dict_zero_keyn | as dict_map, callers may pass keyn 0 | ImplementsMap | violation: find(k, 0) returns NULL after add(k, 0) |
| oper_registry | 2 operator names, 2 functions, types 2 and 4, operations 1..2 | TypeOK, ImplementsOperSpec | pass, about 141K distinct states |

### Why the bounds are enough

- **ThreadMemory.** Three addresses let an address be freed and reused
  while another thread still holds the old head value. Two workers plus
  the main thread let a push race a relink while a second push races
  both.
- **JitsonParser.**
  - Five structural tokens give nesting two deep (`[[]]`, `[{}]`), an
    object with a member (`{ s1 : s1 }`, s1 a string token)
    and every misplaced comma, colon and bracket.
  - Sixty bytes cross the half-cell edge four times, for both strings
    and identifiers.
  - A 3-cell constant and an 8-byte identifier make multi-cell values
    inside arrays and objects.
  - Capacities 0-2 with a value already on the stack make the growth
    policy run mid-parse.
  - Registering neither, either or both extensions before `parse_json`
    gives all four values of `sxe_jitson_flags`, so an identifier meets
    every combination of constant, hook and keyword. `MCView` drops the
    registration state after the call and before a call whose source
    flags allow neither extension; nothing reads it there.
  - The numbers reach every exit of `get_number`: `0x`, `0x1a`, `0xE`,
    `-0x1`, `00x1`, `1.`, `1.5`, `1.5.`, `1e`, `1e-`, `1e+2`, `1E2`, `0e1`,
    `-`, `-x`, `-1`, `010`, `09`; with ALLOW_HEX the leading-zero ones reach
    strtoul's octal reading and the debug assertion.
  - The words put '.' and a digit inside an identifier and after a
    keyword. With `IdentExtra = {}` (spec 4.1's set exactly)
    ParsedAsGrammar fails on `x.1` under ALLOW_IDENTS: the code takes
    `x.1` as one identifier of 3 bytes. The cfg sets `IdentExtra =
    {"."}` to check everything else; the disagreement is a hazard.
- **JitsonStack.**
  - Six cells hold an object inside an array with a 2-cell member name.
  - Six cells take the growth policy through both the doubling branch
    and the `MaxIncr` branch.
- **Dict.** Four nodes and sizes 0, 1 and 2 force a lazy table and up to
  two resizes (1 to 2 to 4 buckets). Four hash values over four keys give
  every collision pattern, including chains that a resize reverses.
- **OperRegistry.** Type 4 registered first initialises types 0 to 3 in
  one growth, and type 2 registered first leaves 3 to 4 for a second
  growth. Operation 2 added before operation 1 makes a type grow over an
  intervening slot. Two names allow a unary and a binary operator, with
  either governing side.

The stack builder run may stop, and its cfg says
`CHECK_DEADLOCK FALSE`, because the division by zero kills the process.
The parser runs also say `CHECK_DEADLOCK FALSE`: the model makes one
`load_json` call, and after an abort or a division by zero the process
has stopped.

## Findings

See `PROJECT.json` "findings". In summary:

- `load_string` under-reserves cells for multi-byte characters.
- `sxe_thread_malloc` leaks a tracker.
- Builder calls that fail for lack of memory are not rolled back, which
  the spec's section 7 requires.
- A capacity-0 stack divides by zero.
- `sxe_dict_find` with keyn 0 looks up the empty key, although the
  comment and `sxe_dict_add` treat it as a string whose length `strlen`
  gives.
- A length-bounded buffer that ends just after `[` makes `load_json`
  push back a NUL that `get_char` never consumed, and the assertion in
  `push_char` aborts the process. Spec section 7 says malformed input is
  a recoverable error.

These disagreements are listed as hazards without a run:
- `sxe_dict_add` of a present key appends a duplicate instead of
  returning the existing value's pointer, as its comment says. Its run
  was retired to make room for the parser runs.
- A truncated nested document reports ENODATA, which the spec reserves
  for input that is only whitespace.
- `get_jitson` on an empty stack returns freed memory.
- `sxe_thread_memory_free` returns the number of kept trackers, not the
  number remaining, as its header comment says. An action property
  taking the header's word fails on `MCThreadMemory.cfg` as soon as a
  worker pushes during the call; there is no run for it.
- Mode ALL frees the main thread's jitson stack but leaves its
  thread-local pointer set, so the next `get_thread` on the main thread
  returns freed memory. A property saying the pointer is always tracked
  fails on `MCThreadMemory.cfg`; there is no run for it.
- A failed `add_string` (after `add_member_name`) leaves a name without
  a value that the enclosing collection does not count.
- The operator assertions accept operation 0, which line 49 calls invalid.
- `identifier_chars` admits '.', which spec 4.1 does not list (see
  "Why the bounds are enough" for how to see it).

## Plan for the rest

Done: the parser (`JitsonParser`), with `load_string` folded into it,
the byte-level source reader (`JitsonSource`), the registration of the
constants and identifier extensions, the dictionary's `sxe_dict_delete`
and the per-thread jitson stack. Next:

1. **Dangling per-thread stack.** `get_thread` is now part of
   `ThreadMemory`; the dangling pointer after mode ALL needs a violation
   run of its own.
2. **Clone failures.** `sxe_jitson_clone` and
   `sxe_jitson_object_clone_members` live in `sxe-jitson.c`, outside this
   tree. With their failure modes, the ignored result at `stack.c` line
   511 and the half-done `add_dup_members` could be checked.

## Not modelled

- meiyan's bit mixing (`sxe-dict.c` 14-35). It changes no state, and
  `Dict` checks every function from keys to hash values instead, which
  covers every collision pattern meiyan can produce on the keys used.
- The type registry and accessors in `sxe-jitson.c`, which are not in
  this tree. Their size function is used as the spec states it.
- The Windows fnmatch shim.
- `sxe_jitson_oper_get_name`, which changes no state.
- Reuse of the operator registry after `sxe_jitson_oper_fini`, which the
  spec rules out (teardown happens once, at shutdown).
- Logging, and which input errno (EINVAL or ENODATA) a failed parse
  sets: the parser model tells only ENOMEM from input errors.
- Registration while a parse runs: the spec and `ident.c` line 75 have
  registration at initialization only.
- A `sxe_dict_forEach` callback that changes the dictionary: the walk
  re-reads the table on each bucket and a resize frees no node, and
  the model's callback only reads.
- The depth of `load_json`'s recursion, which has no limit in the code.
- `load_json` while a builder collection is open: the model's caller
  does not do it.
- The byte values of strings and numbers: only their lengths and widths
  matter to the properties.
