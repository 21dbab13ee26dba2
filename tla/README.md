# A verification development for the Spresense VSCode IDE

TLA+ models of the parts of the Spresense VSCode IDE (a Visual Studio Code
extension for building, configuring and flashing Spresense boards) whose
behaviour is hard to see through: the Kconfig library that computes a
configuration and the script that turns it into a tree, the Kconfig engine of the
configuration view and the panels around it, and the serial terminal beside the
tasks that flash. TLC checks the models on small instances; TLAPS proves the
theorems for every value of the constants.

Line numbers refer to the files of this repository.

## 1. Inventory

### The parts and what they keep

| Part | Code | State | Operations |
|---|---|---|---|
| Kconfig widget engine (webview) | `resources/config/main.js` | per widget `_active`, `_value`, `user_value`; `propagateCallstack`; the referrer lists; the `.config` content | construct the tree, user edits, `propagate`, `evaluate`, `select`, `invalidateTristate`, `loadConfig`, `generateConfigFileContent` |
| Kconfig library, values | `helper/kconfiglib.py` (a copy kept in the repository) | `user_value`, `user_selection`, `_was_set` of symbols and choices; the cached attributes `_cached_*`; `_dependents` | the value, visibility, assignable and selection properties, `set_value`, `unset_value`, `load_config`, `write_config`, `write_min_config` |
| Kconfig library, builds | the same | `auto.conf`, the touched files; `.config` and `.config.old` | `sync_deps`, `_write_if_changed`, `_save_old` |
| Kconfig library, files | the same | menu nodes with `next`, `list`, `parent`; the properties of symbols and choices | `_parse_block`, `_parse_properties`, `_parse_expr`, `_finalize_tree`, `_build_dep`, `_check_dep_loop_sym`, `expr_str` |
| Tree builder | `helper/kconfig2json.py` | none: one pass from the menu nodes to JSON | `build_nodetree`, `is_skip_node`, `make_default_list` |
| Config view host | `src/configview/sdkconfigview2.ts` (SDK 2 and later), `sdkconfigview.ts` (SDK 1), `util.ts` | static `currentPanel`; `_currentProcess`; the project's and nuttx's `.config` | `createOrShow`, `_generateMenu` (a chain of processes), message handlers, `dispose` |
| Defconfig dialog | `resources/config/defconfig.js`, `progress.js` | the selection, the overlay | select, tweak, apply |
| Serial terminal, extension side | `src/serial_terminal.ts` | `serialTerminal`, `flashtaskExitCode` | open, close, task and terminal events |
| Serial terminal program | `helper/src/serialTerminal.c` | `enable`, the serial line, two threads | read loop, write loop, signal handling |
| Project setup | `src/settings.ts`, `src/common.ts` | `.vscode/*.json`, the project's conf file, copied scripts | `spresenseEnvSetup` per folder, `updateSettings`, platform change |
| Bootloader install | `src/settings.ts` 400-560 | the firmware directory and its `stored_version.json` | `prepareBootloader`, `installBootloader`, `burnBootloader` |
| Build scripts | `scripts/*.sh` | the project's configuration and the SDK's one `.config` | `build_kernel`, `build_sdk`, `build_worker`, clean |
| Wizards | `src/wizard*.ts`, `resources/wizard/*/script.js` | fields, validation replies, created files | validate, create |
| Tasks, targets, activation | `src/tasks.ts`, `launch.ts`, `sdk_config.ts`, `extension.ts` | `tasks.json`, `launch.json` | registration, one-pass edits |

### How they interact

* The host runs `make olddefconfig`, `make preconfig` and `kconfig2json.py` one
  after the other and posts the resulting JSON to the webview (`init`). From then
  on the widget engine owns the configuration; the host sees it again only as
  the text in a `save` message.
* `save` writes the project's `.config`; the build task copies that file over the
  SDK's `.config` and runs `make`. Every project built with one SDK shares that
  file.
* A flash task and the serial terminal want the same serial line. The task
  events close the terminal and open it again afterwards.
* The bootloader directory is written by the install and read by the flash
  script.
* `kconfig2json.py` reads the Kconfig files and the `.config` with
  `kconfiglib.py`, and writes the conditions out as the text `expr_str()` prints;
  the widget engine evaluates that text again.

### What is hard

* **Nested propagation** (engine). A value change calls the referrers'
  `evaluate()`, which changes values and propagates from inside: widgets are read
  half way through somebody else's change, choices reevaluate the options that
  are just being selected, and a choice and its options refer to each other, a
  cycle which only `propagateCallstack` cuts.
* **Two computations of one thing** (engine). Visibility and values are first
  computed by Python with Kconfig's semantics and afterwards by JavaScript with
  its own `&&`, `||` and `!`, from a text that was printed in between.
* **Caching** (library). A value is computed when asked for and kept; a change
  drops what depends on it, and stops at the first item that has nothing cached,
  which is right only if whatever was computed from it would have cached it.
* **Pointers while walking** (library). `_finalize_tree()` propagates conditions,
  makes submenus, flattens promptless symbols and removes ifs in one recursive walk
  over the lists it rearranges.
* **Crashes between files** (library). A run that compares, touches files and
  then writes what it compared with; a configuration replaced in place.
* **Histories** (engine and library). What is saved depends on `user_value`s that edits,
  loads, MODULES and imply leave behind.
* **Awaits and callbacks** (extension). Handlers check, wait for the user, and
  act on what they checked; process callbacks fire after their panel is gone.
* **Partial failure**. Copies of several files whose marker of completion is one
  of them; scripts interrupted between copy and make.

`PROJECT.json` lists each of these at its line, with the properties that cover
it, or a note when none does yet.

### What makes each part correct

| Part | Correct when |
|---|---|
| Widget engine | every propagation ends; no widget but an option propagates from within its own propagation; at rest, what is shown and what is written follow from the conditions, the defaults and the user's values; a choice has one option, the one that was chosen; save then load is the identity |
| Expressions | JavaScript's result is Kconfig's; the text of an expression means that expression |
| Kconfig library, values | nothing stale is ever read; what is written leads back to what was written; what `assignable` offers is respected; a choice has one selection |
| Kconfig library, builds | make compiles all that has changed, whatever was interrupted; a crash leaves one complete configuration |
| Kconfig library, files; tree builder | every node is kept, in order, with exactly the conditions and properties it was written with, and no dependency loop passes |
| Config view host | at most one live panel; a disposed panel touches nothing; a half-made `.config` is never taken for a configured kernel; every `save` is answered |
| Serial terminal | the line has one user; after a successful flash the terminal is back |
| Project setup, bootloader | a marker of completion implies completion; two setups do not lose each other's updates |
| Build | what is built is the project's own configuration |
| Wizards | what is created was validated |

## 2. Modules

| Module | What it is |
|---|---|
| `KconfigExpr` | expressions as token sequences in postfix order; `evaluateExpr`/`evaluateCond` as JavaScript computes them and `KconfigValue` as `kconfiglib.expr_value` does |
| `KconfigNodes` | shorthands for the nodes `kconfig2json.py` writes |
| `Configurator` | the widget engine: state, one action per call, the user's operations, the properties |
| `KconfigExpr_proofs` | what is to be known of its recursive functions: they exist, keep to numbers and depend on the symbols mentioned only |
| `Configurator_proofs` | theorems about `Configurator` for every tree: the calls, what is shown and valued at rest |
| `Selection_proofs` | theorems about its choices, and about saving and loading |
| `KconfigGrammar` | generates the expressions of the Kconfig language in postfix order |
| `KconfigGrammar_proofs` | for expressions of any length, JavaScript's value beside Kconfig's |
| `MCKconfigExpr` | the operands and a bound on the length, for TLC |
| `MCMenu`, `MCChoice`, `MCOptions` | three Kconfig trees for TLC |
| `PanelLife` | what a configuration panel promises: abstract, with fairness |
| `ConfigView` | the panels of the SDK 2 view, their chains of processes, the `.config` files, and a build |
| `ConfigView_proofs` | theorems about `ConfigView` for any number of panels, among them the safety half of the refinement of `PanelLife` |
| `KconfigTerms` | expressions as terms, and the names in them |
| `KconfigText` | `expr_str()` and the expression parser, on sequences of tokens |
| `KconfigSymbols` | the symbols and choices of `kconfiglib.py`: values, cache, assignments, files |
| `KconfigCache` | what that cache promises, for any dependencies: abstract |
| `KconfigCache_proofs` | nothing cached is ever stale in `KconfigCache` |
| `KconfigSync` | `sync_deps()` with edits, builds and crashes |
| `KconfigFiles` | `write_config()` replacing `.config`, killed between any two system calls |
| `KconfigSync_proofs` | theorems about the two for any symbols and configurations |
| `KconfigTree` | from lines of Kconfig files through the menu tree to the JSON tree |
| `MCKconfigSymbols`, `MCKconfigSync`, `MCKconfigTree` | trees, symbols and sets of lines for TLC |
| `SerialTerminal`, `SerialTerminal_proofs` | the serial terminal beside the tasks that flash; theorems for any terminals and tasks |

`MCKconfigExpr` EXTENDS `KconfigGrammar` and INSTANCEs `KconfigText` for the text of
the same expressions. `KconfigSymbols` and `KconfigTree` EXTEND `KconfigTerms`;
`KconfigSymbols` INSTANCEs `KconfigCache` as what it implements. `MCKconfigSync`
EXTENDS `KconfigSync` and `KconfigFiles`, one process doing either.

`Configurator` EXTENDS `KconfigExpr`; the MC modules EXTEND `Configurator` and
define the tree, and the `.cfg` files give them to the constants. `ConfigView`
INSTANCEs `PanelLife` with `life <- lives`; its only constants are the panels,
which the `.cfg` files list.

### How `Configurator` corresponds to `main.js`

| In the model | In the code |
|---|---|
| `active`, `value`, `user_value` | `_active`, `_value`, `user_value` of a widget (an option has its `_value` and its `user_value`) |
| `chosen` | `user_value` of a `ChoiceWidget`: the name of an option |
| `propagateCallstack` | the global of that name |
| `work` | the JavaScript call stack, cut where `propagateCallstack` grows: `work[k]` lists the calls still to be made while that stack has length `k - 1` |
| `Referrers` | the `referrers` lists that `depend()` and the constructors build |
| `saved`, `edited` | the last file written, and whether anything happened since it was loaded |
| `EvaluateWidget`, `EvaluateOption`, `EvaluateChoice`, `SelectOption` | the bodies of `evaluate()` in `BaseWidget` (262-294) with the type's `setValue()`, `ChoiceOption` and `ChoiceWidget`, and `select()` |
| `PropagateVisit`, `PropagateSkip`, `PropagateReturn`, `PropagateEnd` | the loop of `propagate()` (246-260), one referrer per step |
| `ModulesChange` | `invalidateTristate()` and `modulesChange()` |
| `LoadOption`, `LoadFails`, `EvaluateGuarded`, `Load` | `loadConfig()`: one option per step, the exception of a malformed string, the choices at the end |
| `ClickBool`, `ClickTristate`, `EditText`, `PickOption`, `Save` | the event handlers |

JavaScript is single threaded: the user's actions are enabled only when `work` is
empty (`Quiescent`). The interleaving is inside one event, between nested calls,
and it is deterministic; that is why each call is a step of its own and the
properties hold at every step or, where they say so, at rest.

Data are abstract: n, m, y are 0, 1, 2; an int or hex is a natural, or `Blank` when
its field has been emptied; a string is an index with two distinguished members (the
empty text, and the text `"0"` which `evaluateExpr` substitutes for a quoted word).
`ReadBack` says of a text what `loadConfig()` makes of it: `parseConfig()` splits a line
at its last `=` (1484), so that a text with a `=` in it is a value of no symbol and is
lost (`Unset`), and the unescaping (1529) takes backslashes away. `CONFIG_N=`, which is
how an emptied number is written, is read as `""`: no user value (1520), and yet the
value that is set (1533). Layout, search, help texts and the colouring of values out of
range are left out; of a range only its condition matters, which `depend()` collects
(229).

A relation in `KconfigGrammar` has operands of one type. An int or a string, symbol or
literal, may also stand by itself, as `_parse_factor()` admits (3314-3331); it has a
token kind of its own (`LoneNumber`, `LoneText`) since both languages treat it by its
type: Kconfig takes it for n (4305-4314), JavaScript for the number or for a text in
quotes, which is true unless it is empty (1176-1186). A number of two digits behind a
`!` makes a text that JavaScript cannot read, and the whole expression n (1212, 1223).

### How `ConfigView` corresponds to `sdkconfigview2.ts`

| In the model | In the code |
|---|---|
| `currentPanel` | the static member (35) |
| `open`, `invoking` | the webview exists; the progress notification is shown, i.e. its promise (233) is not resolved |
| `overlay` | the progress window over the webview (`progress.js`) |
| `chain` | which callback the panel's chain waits for: the timer (226), `olddefconfig` (523), `preconfig` (590), `copyFile` (609), `kconfig2json.py` (627); `end` once it is over |
| `toView`, `toHost` | `init` and `saved` on their way to the webview, `loading` and `save` on their way back |
| `target` | `_isUserConfig`: whose configuration is edited |
| `dotconfig`, `project` | the kernel's `.config` and the project's: absent, the bare defconfig, completed by olddefconfig, or saved by the user |
| `build` | the build task of `scripts/build.sh`, before and after it copies the configuration (111-115) |
| `Create` | `createOrShow()` past its guards, the constructor and `_generateMenu()` |
| `InitKernelKconfig`, `InitFails`, `OldDefconfig`, `OldDefconfigFails` | `_initKernelKconfig(false)`, its two failures and the callback |
| `Preconfig`, `CopyConfig`, `Parse`, `StepFails` | the steps of `_genKernelConfigMenuData()` and their rejection |
| `Dispose`, `Rejected`, `CloseTab` | `dispose()`; the `catch` that calls it; the tab closed or the notification cancelled |
| `ReceiveInit`, `ReceiveSaved`, `ClickSave` | `main.js` 1594-1601, 1620-1653 |
| `ReceiveLoading`, `ReceiveSave` | the host's handlers (141-161) with `_saveConfigFile()` |

Between callbacks JavaScript runs to its end, so a callback with the promise
reactions it triggers is one step. `kill()` only asks a process to end: its
callback comes later, with or without an error, and `dispose()` leaves the chain
where it is. A second `dispose()` of a panel still clears `currentPanel`, which is
what `Dispose` says. Posting to a disposed webview throws inside a process
callback, which nobody catches: `Parse` then only ends the chain. The webview's
tree is `Configurator`'s business and opaque here.

### How `KconfigSymbols` corresponds to `kconfiglib.py`

| In the model | In the code |
|---|---|
| `tree` | what the parser leaves: properties with their propagated conditions |
| `dependents` | `_dependents`, filled by `_build_dep()` and `_add_choice_deps()` (3354-3427) |
| `config.user`, `.picked`, `.was_set` | `user_value`, `user_selection`, `_was_set` |
| `cache` | the attributes `_cached_str_val`, `_cached_tri_val`, `_cached_vis`, `_cached_assignable`, `_cached_selection` that are set |
| `reads` | no variable of the code: what the cached values were computed from |
| `Look`, `Read`, `Compute` | a property without and with its cache |
| `Text`, `PlainTri`, `MemberTri`, `Mode`, `Selection`, `Visibility`, `SymbolAssignable`, `ChoiceAssignable` | `str_value` (4176-4295), `tri_value` (4298-4375, 5010-5028), `_selection` (5233-5262), `_visibility()` (6101-6128), `assignable` (4650-4694, 5214-5231) |
| `Get` | the program asks for an attribute, and all that is read on the way is cached |
| `Reached`, `Invalidated` | `_rec_invalidate()` (4702-4731), with its early stop |
| `SetValue`, `SetMode`, `UnsetValue`, `UnsetChoice`, `UnsetValues` | the methods of those names |
| `LoadConfig`, `LoadLine` | `load_config()` and the body of its loop (1217-1325) |
| `WriteConfig`, `WriteMinConfig`, `_config_contents`, `_min_config_contents` | the values the two writers read, and what they write |

A value is computed by a recursion that returns the value with the set of
attributes it read; evaluation is short-circuited as in `expr_value()`, so a value
depends on what was read, not on what is mentioned. n, m, y are 0, 1, 2; a string
or number is its rank in a small ordered set with the empty text below.

### How `KconfigCache` relates to it

An item is cached when its visibility is; `Compute` may cache any items with
whatever they read; `Change` may drop more than it has to. `KconfigSymbols`
implements it with `stale` always empty: a step that left something out of date
in the cache would be a `Change` with a nonempty `stale'`, which no step of
`KconfigSymbols` can be.

### How `KconfigSync` and `KconfigFiles` correspond to the code

| In the model | In the code |
|---|---|
| `now` | the value of a symbol: without a definition, without an assignment in the configuration, or n, m, y, a text |
| `auto`, `touched`, `built` | the lines of `auto.conf`, the files touched and not compiled for, what the object files were built with |
| `LoadOldVals`, `Compare`, `WriteOldVals`, `WriteLine`, `CloseAuto` | `_load_old_vals()` (1734-1775), one pass of the loop (1693-1725), `_write_old_vals()` and `_write_if_changed()` (2154-2166) |
| `Crash` | the process dies while it compares, or, with `TornWrites`, while it writes |
| `Edit`, `Compile`, `Leave` | the user, and make, which need not finish |
| `SaveOld`, `Copied`, `Open`, `Close`, `Killed` | `_save_old()` (6207-6236) renaming or copying, `write_config()` opening and closing the file, the process dying in between |

### How `KconfigTree` corresponds to `kconfiglib.py` and `kconfig2json.py`

| In the model | In the code |
|---|---|
| `nodes`, `items` | `MenuNode`s with their pointers (0 for None); `Symbol`s and `Choice`s |
| `blocks`, `filestack` | the nested calls of `_parse_block()` with their `end_token`, `parent`, `prev`; `_filestack` |
| `Config`, `Comment`, `If`, `Menu`, `Choice`, `End`, `Source`, `LeaveFile`, `ParseError` | the branches of `_parse_block()` (2798-2989) |
| `Finalize` | `_finalize_tree()` and all it calls (3444-3609, 6258-6375) as one recursive operator over the nodes |
| `Dependents`, `CheckDepLoops` | `_build_dep()`, `_check_dep_loop_sym()`, `_check_dep_loop_choice()` and `_found_dep_loop()` |
| `WriteJson`, `BuildNodetree`, `EntryOf`, `IsSkipNode` | `kconfig2json.py` 78-189 |

The files are not given: they come into being line by line, every continuation
being possible, so that all files up to a length are read. A loop is searched in a
set, whose order Python does not fix: `SetOrders` are two opposite ones.

### How `SerialTerminal` corresponds to `serial_terminal.ts`

| In the model | In the code |
|---|---|
| `serialTerminal`, `flashtaskExitCode` | the variables of those names (195, 265) |
| `choosing`, `updating` | an `open` command waits for the quick pick (165), or for the setting to be stored (175) |
| `window` | a terminal: none, open, or disposed while `onDidCloseTerminal` is on its way |
| `task` | a task: idle, launched and not yet told, running, or ended as a process |
| `OpenCommand`, `PickPort`, `DismissSelector`, `PortStored`, `OpenPort` | the open command (201-240), cut where it waits |
| `CloseCommand` | 242-246 |
| `DidCloseTerminal`, `DidStartTask`, `DidEndTaskProcess`, `DidEndTask` | the four events (252-276) |

A command that an event executes runs to its first await in the same step. Only
one quick pick is shown at a time: a second takes the first away, as VS Code does,
but any number of commands may wait for the setting.

## 3. The runs

| Run | Shows |
|---|---|
| `Expressions` | every expression of at most five tokens over two tristates, an int and a string: `ExactOnBooleans` - over y and n JavaScript's value is Kconfig's; `ConditionsDecided` - with m, and without a negated parenthesis, the condition is decided alike; both where every int or string that stands by itself is 0 or empty (`LonesAreZero`); `TextKeepsMeaning` - the text `expr_str()` prints is read back to an expression of the same value in both languages |
| `Menu` | bool, tristate, int and string symbols, select, all three kinds of default, a conditional range, a promptless symbol, a menu, a number that may be emptied, a text with a `=` in it: `VisibilitySettled`, `ValuesSettled`, `RoundTrip` |
| `Choice` | two nested choices and a symbol inside the inner one: `TypeOK`, `NoLoop`, `OneOption`, `ChosenStands` - the option that was chosen is the one selected - the settling properties, `RoundTrip`, and under fairness `Settles` |
| `Options` | an option with its own dependency, imply, a tristate under MODULES, inactive options selectable, a file that ends `loadConfig()` half way: `OneSelected`, `Settles` |
| `ConfigView` | three panels opened one after the other, every process able to fail, a build at any time: `OneOldDefconfig`, `TrackedIsOpen`, and under fairness `LivesAsPromised`, the refinement of `PanelLife` |
| `KconfigValues` | six trees, any sequence of reads, assignments, loads and writes: `CacheFresh` - what is cached is what would be computed; `StopIsSafe` - why invalidation may stop early; `FileRoundTrip`; `AssignableRespected`; `OneMemberSelected`; `ImplementsCache`, the refinement of `KconfigCache` |
| `KconfigSync` | `SyncComplete` - make compiles all that has changed, whatever was interrupted; `Recoverable` - one crash of `write_config()` leaves a complete configuration; `SyncTypeOK` |
| `KconfigTree` | all files of up to five lines out of four sets: `DefinitionOrder`, `DependenciesExact`, `PropertiesGathered`, `SubmenusJustified`, `LoopsFound`, `JsonComplete` |
| `SerialTerminal` | `FlashUndisturbed` - the terminal the extension knows is not open while it knows of a flash task; `TypeOK`; under fairness `LineFreed` - the terminal known when a task is, goes |
| `HalfMade`, `MemberLoops`, `LoadForgets` | disagreements between code and comment, see section 6 |

**Bounds.** The trees have seven symbols at most. That is enough for what nested
propagation can do: a chain of three dependencies whose first and last element
are also linked directly (so a widget is reached on two paths, before and after
its other dependencies have changed), a select against a dependency, a default
that refers forward in the database order, and two choices of which one is
conditional on an option of the other (the deepest nesting in the repository's
own test trees). `Entries` bounds what is typed in a field to two values, one of
them the empty text; `Files` are one or two foreign files besides the one saved;
`Saving` switches saving off where no property reads `saved`. `MaxTokens`, five,
admits three operands with two connectives between them, a comparison with a negated
operand beside it, and negations of negations; the theorems about expressions hold for
any length. `Numbers` are 0, which is false in JavaScript too, and 12, which has two
digits.

`ValuesSettled` excepts a number that a file gave no value (`Emptied`): it stays empty
until its next evaluation gives it its default. `RoundTrip` is about a saved file that
reads as it was written (`Readable`). `Menu` meets both cases, since a user may empty
DEPTH and one of the texts has a `=`; that the exceptions are needed is in section 6.
`ChosenStands` holds under `Choice.cfg` only: under `Options.cfg` a file that ends half way
leaves the option it chose unselected until the choice is evaluated again.

`ConfigView` has three panels: an old one whose chain is still running, the one
opened since, and a third that the old one's late `dispose()` makes possible. A
fourth has nothing new to meet; a panel has one life, so the number of panels is
the number of times the view is opened. The message queues need no bound: a panel
loads once and saves only when not covered.

The trees of `KconfigValues` each put together what can interfere: a select and
an imply on one symbol, both under MODULES; a choice whose default may be hidden; a
symbol that depends on a member of a choice no expression of which mentions it; an
optional tristate choice, and one with a bool member; a range whose bound is another
symbol. `asked` limits which attributes are read on their own, so that caches of
every shape arise without all combinations; writing reads every value anyway.
`MCFiles` are foreign files: with an unknown symbol, a repeated one, values that do
not fit, and a member switched off. The text values are the empty text, a smallest
and two others, one of them above every range.

`KconfigTree` reads every sequence of lines, so that five lines are enough for an if
in a menu around a symbol with a submenu, a choice in two places, or a file sourced
within a file. Four lines suffice for a loop through three symbols. `KconfigSync`
has a tristate, for which n means no line, and an int, which has no such value; the
symbols are compared one by one and do not meet, so that two are enough for a run
to be killed between them.

`SerialTerminal` has three terminals, since the extension may forget one that is
still open, then know another, and open a third; two tasks, of which one opens the
terminal afterwards; and two commands at a time that wait for the setting
(`MaxUpdating`), which is what it takes for them to meet.

**Fairness.** `FairSpec` of `SerialTerminal` adds `WF_vars(DidCloseTerminal(t))` and
`WF_vars(DidStartTask(k))`: VS Code delivers the events of what has happened. The
user, who may leave the selector unanswered, and the processes owe nothing.
`KconfigSymbols`, `KconfigSync`, `KconfigFiles` and `KconfigTree` are sequential
programs with no promise about time. `FairSpec` of `ConfigView` adds `WF_vars(Due(p))` for each panel:
processes end, timers fire and messages of one panel are delivered whatever other
panels do (they are separate events of the host's loop). The user and the build
owe nothing. `FairSpec` of `Configurator` adds `WF_vars(Engine)`: a JavaScript event handler that
has a call to make makes it, since nothing can interrupt it. Nothing is assumed of
the user.

## 4. What is proved

The proofs are checked by TLAPS to the last leaf. Those about the engine hold for
every tree that satisfies the assumptions of `Configurator`, which are named and
which TLC evaluates for the trees of the runs: the shape of the data (`TreeTyped`,
`DefaultsTyped`, `ExpressionsTyped`, `InputsTyped`), a symbol has one type and is
not a choice (`WidgetsDisjoint`), an option is laid out in one choice
(`ChoicesApart`), every widget is collected (`AllCollected`), and no widget is in its
own referrer list (`NoSelfReference`), which kconfiglib ensures by rejecting
dependency loops.

### The calls of the engine

`Configurator_proofs`:

* `TypeCorrect`: `Spec => []TypeOK`. Its conjunct `Len(work) =
  Len(propagateCallstack) + 1` is what makes the two stacks one call stack.
* `LoopsAreCut`: `Spec => []NoLoop`, no widget but an option is entered twice in
  `propagateCallstack`.

**The argument.** `NoLoop` is not inductive: it says nothing about *who*
enters the call stack next. `IInv` adds to it that the calls waiting at each level
are *well called*: an `evaluate` is about a widget outside the stack (or the choice
just entered on its own behalf), a `propagate` or `select` at a level is about a
widget whose own evaluation is not pending below it, and a `guarded` call or a load
waits only at the bottom. Each action keeps this: `PropagateVisit` enters the caller
and evaluates a referrer that is, by its guard, not in the stack and, by
`NoSelfReference`, not the caller; `PropagateReturn` pops what was pushed; the rest
replaces one call by others about the same widget or its options. An option is
exempt in `NoLoop` since its choice evaluates it from inside its propagation and it
propagates again. The module has one lemma per action and one per operation on the
call stack.

### What is shown at rest

`Configurator_proofs`, the second half, with these hypotheses on the tree:

* `Layered(rank)`: an expression of a widget is about symbols of a lower rank, save
  that a choice may default to an option of its own; a choice and its options have
  one rank. A tree without such a ranking has a dependency loop, which kconfiglib
  reports.
* `PlainOptions`: no option has a condition but its choice's.
* `ModulesUnheard`: no expression is about a tristate when there is a MODULES
  symbol, since `modulesChange()` tells no referrer (`main.js:717`).

`MenuSettles` and `ChoiceSettles` have TLC evaluate these, and the further ones named
below, for the trees of `Menu` and `Choice`. `MCOptions` breaks the last two on
purpose.

* `VisibilitySettles`: `Spec /\ Shown => []VisibilitySettled`. `Shown` of the
  initial state is what kconfiglib has computed; after that, whatever the user
  does, at rest every widget is shown or hidden as its condition says under the
  values now shown.
* `ValuesSettle`: `Spec /\ Shown /\ Valued => []ValuesSettled`, where moreover
  `UserDecides` (nothing is implied, only bools are selected, no tristate changes
  with MODULES) and no file has a malformed string, which ends `loadConfig()` half
  way. An int or hex that a file gave no value is excepted (`Emptied`).
  Section 6 shows what happens with implied symbols and under MODULES.

**The argument.** In the middle of an event a widget may well not be as its
condition says. `VInv` says that it then is *heeded*: some call that waits
promises to have it evaluated. Whatever changes the value shown of a symbol puts
in wait, in the same step, a propagation to all that mention it (`Careful`, one lemma
per action), or it is a call of the kind that does so next (an option whose choice
has changed hands is still to be selected). The promise is lost in one place only,
`PropagateSkip`, where the referrer is in the call stack already. `Orderly` says why
nothing is lost there: what enters the call stack is never above, in rank, what waits
beyond it, so the widget in the stack is not above the one that propagates and does
not need it. For a choice that defaults to one of its options, which it does
mention, `Needs` leaves the defaults out: its condition is not about them. At rest
nothing waits, so every widget is as it should be. The lemmas about expressions that
this rests on (`EvalAgrees`: the value of an expression depends on the symbols in it
only) are in `KconfigExpr_proofs`.

For the values, `WInv` adds that a symbol not at the value of its evaluation is
heeded or is still to be set by `loadConfig()` (`Awaits`), and that all options still
to be set come from one file and have no user value yet but from it (`LoadsOne`): a
database may list a symbol twice. An evaluation in between, before the file's value
is known, is one on the way to it. That a default has the type of what it is given to
(`ReferencesAlike`, of which kconfiglib warns) keeps an emptied number out of the bools
and texts, whose evaluation would not give it back. `OptionsShown`, that the options of a shown choice
are shown, is inductive by itself.

### Choices

`Selection_proofs`:

* `OneOptionStaysSelected`: `Spec => []OneSelected`, without further hypotheses: at
  rest every choice has exactly one of its options at y, also after a file that
  ended half way, and whatever the conditions of the options.
* `OneOptionShown`: `PlainOptions => (Spec => []OneOption)`.

**The argument.** `SInv` adds to `IInv` that a choice remembers options of its own
only (`ChosenOK`) and, for each choice, `Decided`: its options agree on one that is
selected, or it is being evaluated, and where this stands is known. A choice in
`propagateCallstack` is the first entry there and the selections it has still to make
wait at level 2, in order; nothing below evaluates it again. Any other choice hears
at once of an option that is told to change, since an option tells its parent first,
so only the top of the call stack matters. When an outer evaluation goes on with the
selections it had planned, the inner one has settled the choice, perhaps on another
option; the outer one starts from a settled choice again and ends in one.
`OneSelected` says nothing about the middle of an evaluation and is not inductive.

### Saving and loading

`Selection_proofs`, the second half:

* `SavedComesBack`: `Spec /\ Shown /\ Valued => []RoundTrip`. Whatever the user did
  since a `.config` was saved, when it has been loaded and the engine is at rest,
  `getConfigFileContent()` would write the same lines again. The hypotheses are
  those of `ValuesSettle` and `OptionsUnselected`: no option is selected or implied, which
  kconfiglib says has no effect. `RoundTrip` itself is about files that are `Readable`:
  no number is empty and no text is changed by `parseConfig()` or the unescaping.
  Section 6 shows what happens to the others, and to an implied symbol.

**The argument.** `RoundTrip` relates the state to one that is gone, of which the file
keeps what was shown only. Two facts bridge the gap:

* *The file determines the rest* (`Determined`). `AtRest(r, u)` says that symbols read
  as `r` when nothing waits and the user set `u`; `OptionsShown`, `VisibilitySettled`,
  `ValuesSettled` and `OneSelected`, all proved before, are what makes it true. If
  `f` was written of one such `r`, any `q` at rest with the values of `f` shows the same
  lines: by `LayerDetermined`, they agree on a symbol if they agree on all of lower
  rank, and so, layer by layer, on all of them. A file is silent about what is
  hidden, so that the user's values do differ there; that a hidden symbol reads as
  the default of its type is why this does not matter.
* *Loading ends with the values of the file* (`RInv`). From `Load(saved)` on, the
  user's value of a symbol is the file's or that is still to be set (`FileRead`), a
  choice has chosen the option of the file or no option that the file denies
  (`ChoicesRead`), and such an option is on its way to y (`Underway`) unless its
  choice has still to be evaluated at the end of `loadConfig()` (`OptionsRead`). Options
  are set in the order of `optiondb`, amid the values of the configuration before, and
  one that is hidden at that moment is chosen all the same; hence the evaluation of
  every choice at the end is needed. As long as a readable file is being loaded, and
  until something is edited, no number is emptied (`NoneEmptied`), so that the exception
  of `ValuesSettled` does not apply. `RInv` also says that whatever is saved was at
  rest (`Written`). It is inductive beside `WInv` and `SInv`; the engine's own steps
  change no user value but through the calls of the load (`EngineMovesOn`), and any
  click or edit sets `edited`.

### Expressions

`KconfigGrammar_proofs`, for expressions of any length over any symbols and values:

* `ExactOverBooleans`: `Spec => []ExactOnBooleans`; `DependenciesDecided`: `Spec =>
  []ConditionsDecided`; where a literal is the empty text. The hypothesis
  `Literals \subseteq {EmptyText}` is what the code needs: `evaluateExpr` takes the
  words of any other literal for names of symbols. So is `LonesAreZero`, in the two
  properties: an int or a string that stands by itself must be 0 or empty, or the two
  languages disagree about it (section 6).

**The argument.** `KconfigGrammar` appends a token at a time, and `shape` has an
entry for each operand that the expression so far leaves on the stack. `GInv`
compares the stack of JavaScript's evaluation with that of Kconfig's, entry by entry:
over y and n they are the same; else, as long as no parenthesis is negated, the
same entries are n, and those of lone symbols are the same, which is what makes the
negation of a symbol and a comparison come out alike. What a token does to either
stack is a lemma each. That the recursive functions of `KconfigExpr` are defined on
every sequence is proved by induction over the length, through a set of the lengths
for which it fails (`SetInduction` from the library's `WFMin`), since the library's
induction theorems take an operator as a parameter.

### The view, the cache, the files, the terminal

`ConfigView_proofs`, for any set of panels, from the only assumption that `None` is
not one:

* `TypeCorrect`: `Spec => []TypeOK`.
* `OldDefconfigAlone`: `Spec => []OneOldDefconfig`.
* `NeverRevealsDisposed`: `Spec => []TrackedIsOpen`.
* `PanelsLive`: `Spec => Lives!Safe`. Every step is `Open`, `Ready` or `Close` of
  `PanelLife`, or changes no panel's life.

**The argument.** The four are one induction. `IInv` adds `Unborn` (a panel not
yet created has no webview and is not tracked, so a tab that closes is not
counted as one never opened) and `Silent` (a disposed panel shows no notification
and has no message on its way, so no late message changes its life or writes a
file for it). `OneOldDefconfig` is kept by `InitKernelKconfig` because it starts
`olddefconfig` only when `.config` is absent, and then, by the invariant, nobody
is running one; no step removes `.config` but the callback of the only
`olddefconfig`. The refinement needs a lemma about what a step may do to one
panel's life while the others' stay (`LifeSteps`), and one about disposing
(`ChainSteps`).

`KconfigCache_proofs`, for any items and dependencies: `NeverStale` (`Spec =>
[]NothingStale`) and `MayStop` (`Spec => []ReadsCached`). `NothingStale` alone is
not inductive; with `ReadsCached` it is. The lemma behind the step is that what was
changed or dropped is closed under reading: a kept item that reads a member of it
would be among that member's dependents, of which `Change` keeps none. So nothing
kept was computed, through however many others, from what changed. TLC shows by
`ImplementsCache` that `kconfiglib.py` keeps to `Change`.

`KconfigSync_proofs`, for any symbols in any order: `SyncTypeCorrect`, without
further assumptions, and `SyncDepsComplete` (`Spec => []SyncComplete`) when neither
`TornWrites` nor `StillReferenced`. `SyncInv` says for each phase what connects the
four copies of a value: when idle, every symbol's sources are built with what
`auto.conf` says or its file is touched; while comparing, that and that the symbols
passed are caught up with; while writing and when done, that everything is up to
date, and the lines written are the present ones. A crash while comparing leaves
`auto.conf` as it was, which is why it is written last.

In the same module, `OneCrashLosesNothing` (`FilesSpec => []Recoverable`) for any
configurations. `FilesInv` adds where the complete one is in each stage.

`SerialTerminal_proofs`, for any terminals and tasks: `TypeCorrect` and `NeverDisturbed`
(`Spec => []FlashUndisturbed`). `FlashUndisturbed` is inductive on top of `TypeOK`: a task
becomes known only in `DidStartTask`, which disposes of the known terminal, and a
terminal becomes known only in `Create`, behind the check for tasks. That `DidEndTask`
checks against the executions without the task that ended is where the two meet.

### Only model-checked

* `KconfigSymbols`, `KconfigTree` and `KconfigText`: their operators are recursive
  over trees of nodes and terms (RECURSIVE, out of the provers' reach), and what
  they compute for every input is an induction over data.
* `TextKeepsMeaning` of `MCKconfigExpr`, which is about `KconfigText`.
* The liveness properties `Settles`, `LineFreed` and the fairness half of
  `LivesAsPromised`, since TLAPS does not prove liveness. For the same reason
  `VisibilitySettles` and `ValuesSettle` speak of the engine at rest and leave it to
  `Settles` that it comes to rest.

## 5. Not modelled, and why

* Of `kconfiglib.py`: the characters of tokens and macro expansion (their effect on a
  symbol is a token or a value), headers such as `autoconf.h` (their lines are those
  of `auto.conf`), warnings, help texts and the printing of definitions, which no
  part of the extension reads; `allconfig` files, environment symbols and hex
  numbers, which go the way of ints.
* Layout, styles, localisation, templates and makefiles: no state that the
  properties could be about.
* `evaluateExpr` substitutes symbol values textually (`String.replace` of the
  first occurrence, `main.js:1204`). The model substitutes by token. The two differ
  when a string whose value has just been put in, quotes and all, holds a name that
  stands later in the expression, or when the name stands inside an earlier, longer one;
  that would take a model of characters.
* Hex and negative numbers in expressions, relations between a number and a text, and
  what else than a natural or nothing a user may type in the field of an int (the view
  colours it and keeps it): the model's numbers are naturals.
* In the configuration view: `load`, `saveas` and the default configurations go
  through dialogs and do not touch the state of the panel; the header files made
  on saving; the SDK 1 view, a second copy of the same design.
* A symbol defined at two places has two widgets of which `optiondb` keeps the
  first (`main.js:87`). `Configurator`'s trees define each symbol once;
  `KconfigTree` has symbols defined several times up to the JSON.
* `serialTerminal.c`: two loops over one file descriptor which share a flag that is
  set once. Which ports exist is left open in `SerialTerminal`.
* Project setup, the bootloader, the build scripts (beyond `BuildConfigures` of
  `ConfigView`) and the wizards: planned, section 7.
* `launch.ts`, `tasks.ts`, `sdk_config.ts`, `extension.ts`: one synchronous pass
  each over a file or a table.

## 6. Disagreements found

Each run below has one property, which states what a comment of the code says, and
TLC's counterexample is a sequence of legal steps.

* `HalfMade` (`sdkconfigview2.ts:515`): when adapting the bare `.config` fails after it was
  copied, the `catch` leaves it there, and the next panel goes on with it without
  `olddefconfig`; only a failure of `olddefconfig` removes the file (530). TLC's trace is
  `Create(p1)`, `InitFails(p1)`, `Create(p2)`, `InitKernelKconfig(p2)`.
* `MemberLoops` (`kconfiglib.py:6463`): a symbol that depends on another member of
  its choice passes the search for dependency loops if the choice is entered through
  a third member; its evaluation does not end.
* `LoadForgets` (`kconfiglib.py:1335`): loading a file in place of the configuration
  keeps the user's selection in a choice whose mode the file implies.

Others have their property in a module and no run of their own. To see one, make it
the only INVARIANT (`SaveAnswered`: PROPERTY) of the configuration named, with the
values said:

| Property | Configuration | What happens |
|---|---|---|
| `NothingLost` of `MCOptions` | `Options.cfg` as below | enabling MODULES assigns `user_value` to `_value`, so that a tristate at its default loses its value and is left out of the `.config` (`main.js:720`) |
| `OneOption` | `Options.cfg` as below | a choice keeps the option the user chose after that option's own dependency has failed; no option then reads y (`main.js:843`) |
| `VisibilitySettled`, `ValuesSettled` | `Options.cfg` as below | `modulesChange()` gives the tristates other values and tells no referrer (`main.js:717`): a symbol that depends on one is left as it was |
| `RoundTrip` of `Configurator` | `Options.cfg`, `Spec`, `ShowInactive = FALSE`, `Saving = TRUE`, `Files <- NoFiles`, `Entries = {}` | an implied symbol follows its `imply` over what the user set, so that the saved file does not lead back (`main.js:288`) |
| `SavesComeBack` of `Configurator` | `Menu.cfg` | a text with a `=` is lost when the saved file is loaded (`main.js:1484`), one with a backslash loses it (`1453`, `1528`), and an emptied number comes back as one without a user's value (`1520`, `1533`) |
| `LonesDecided` of `KconfigGrammar` | `Expressions.cfg` | a condition that is an int or a string by itself holds in the view unless that is 0 or empty (`main.js:1176-1186`); "It will always evaluate to n", says `kconfiglib.py:4310` |
| `ChosenStands` of `Configurator` | `Options.cfg` | a malformed string ends `loadConfig()` between choosing an option and selecting it (`main.js:1525`) |
| `OneTab` | `ConfigView.cfg` | the late `dispose()` of a closed panel clears `currentPanel` although another panel is open, and a third opens beside it (`sdkconfigview2.ts:481`) |
| `SaveAnswered` | `ConfigView.cfg` | a save during a build is answered by an error message only, and the webview stays covered (`sdkconfigview2.ts:148`) |
| `LineUndisturbed` | `SerialTerminal.cfg` | two commands wait for the setting; the second terminal replaces the first, which stays open while a task flashes (`serial_terminal.ts:231`; the comment at 223 says "Avoid to conflict common resource") |
| `SyncComplete` | `KconfigSync.cfg`, `TornWrites = TRUE` | a run killed while it writes `auto.conf` loses lines; a symbol then set to n is not noticed (`kconfiglib.py:2162`) |
| `SyncComplete` | `KconfigSync.cfg`, `StillReferenced = TRUE` | a symbol that loses its definition while others refer to it is not noticed (`kconfiglib.py:1765`) |
| `MinRoundTrip` | `KconfigValues.cfg`, `Trees <- MCMinTrees` | a minimal configuration leaves out the member from which the mode of its choice would be inferred (`kconfiglib.py:1612`) |
| `SubmenusJustified` | `KconfigTree.cfg`, `Grammars <- MCNotY` | `A != y` counts as depending on A (`kconfiglib.py:6276`) |
| `EmptyChoicesRemoved` | `KconfigTree.cfg` | `build_nodetree()` removes a choice without children by keys it may not have (`kconfig2json.py:186`) |

Met on the way, in the same code: `m || y`, `y && m` and `m && y` have JavaScript's
values, not Kconfig's (1215); a comparison with a quoted word compares with `"0"`
(1200); a click sets a selected tristate to n (678); a tristate loaded after MODULES
may be m while MODULES is n (1235); a promptless symbol keeps the value it had in the
file (279); a symbol with a condition on its prompt is first shown by its dependency
alone (375). In the view, `saved` is sent although the file could not be written
(`sdkconfigview2.ts:299`).

## 7. Plan

Done: the Kconfig library and the tree builder, the widget engine, the SDK 2 view,
the serial terminal. Next, in this order:

1. `ProjectSetup`: setups of several folders and `updateConfiguration()`
   (`settings.ts:165-197`), which reads the tasks, awaits two updates and keeps what
   it read of the user's; the marker `spresense_prj.json` and the makefiles after
   it; a setup interrupted in between.
2. `Bootloader`: installation, version check and flashing.
3. `Workspace`: build scripts of several projects over one SDK `.config`, composed
   with `ConfigView`'s files.
4. `Wizard`: asynchronous validation against creation; `HostConfig`, the switch of
   the host platform as a pure function.
5. An abstract specification of the engine - a configuration that changes in one
   step per user event - implemented by `Configurator`.
6. Theorems: the operators of `KconfigTerms` and `KconfigSymbols` as recursive functions, so
   that `ImplementsCache` can be proved; the inductive invariants of 1 and 2.
