# A TLA+ model of battery-pack

`cargo bp` installs *battery packs*, curated sets of crates, into a user's Rust
project, keeps them up to date and removes them, and renders their templates.
This directory holds TLA+ modules of it, TLC configurations that check them on
small instances and TLAPS proofs of what holds for every instance. Paths below
are relative to the repository; `bphelper-*` crates are under
`src/battery-pack/`.

## The system

| Part | State | Operations | Hard behaviour | What makes it correct |
|------|-------|------------|----------------|-----------------------|
| pack specs (`bphelper-manifest`) | a parsed pack: crates, features, hidden globs, categories | parse, validate, `resolve_crates`, `resolve_for_features` | cyclic and nested features, weak references, order of insertion; categories that take one item | the walk computes the closed set; selections add up; cycles are found; a pack that passes opens without a conflict |
| `add`, `sync`, `rm` (`bphelper-cli/src/commands.rs`, `manifest.rs`) | `Cargo.toml`, the workspace root's `[workspace.dependencies]`, `battery-pack.toml` | the three commands, the preflight of every command | three files written in turn without a transaction, user edits while a picker or a prompt waits, packs sharing crates, new pack revisions | a rerun completes an interrupted command; sync only adds and leaves every pack satisfied; nothing dangles; other packs' and the user's crates stay |
| reports: `status`, `show`, `list`, `check` | none | read, print | run the preflight, so they write `battery-pack.toml`; compare versions by rules of their own | status warns of what sync changes |
| registry (`registry.rs`) | a spec cache for completions | fetch a spec or a crate, list packs, rewrite `bp-managed` rows | network failures, a failing `cargo metadata` | the spec a command uses is that of one revision; a manifest is rewritten whole or not at all |
| template engine (`template_engine.rs`) | rendered files, a process-wide cache of pinned actions | resolve placeholders, render, write a project, preview | prompts, failures half-way, prefetch threads, rustfmt behind two pipes | nothing that exists is touched; what is recorded is whole; a pin is the same everywhere; no deadlock |
| template merge (`merge.rs`) | the project's files | apply rendered files one by one | conflicts, batch answers, an editor, quitting half-way | nothing of the user's is lost without his answer; a rerun converges |
| validation (`validate.rs`) | temporary projects | lint, package, render and build each template | templates that pass here and fail for the user | what is built renders for the user |
| sectioned picker (`src/sectioned-picker`) | cursor, checked rows, collapsed sections, scroll offset | key presses | empty and collapsed sections, radio sections | cursor on a row that is shown; no second mark in a radio section |
| terminal screens (`bphelper-cli/src/tui`) | one screen, a pending command | key presses, loading, running commands | copies of a pack carried from screen to screen, a byte cursor, 16-bit line counts | positions exist; commands name what is shown; every fetch ends |
| completions (`completions.rs`) | the spec cache | print candidates | a stale cache | advisory |
| `bphelper-build`, `mdbook-battery-pack`, `cargo-bp`, `cargo-bp-script` | none | generate documentation, dispatch, read JSON | | |
| `battery-packs/*` | data; the generated service example | | | |

Commands call the manifest library through `fetch_bp_spec` and
`load_installed_bp_spec`; they share nothing with each other but the three
files. `add` reads the pack's spec, decides on crates and features (flags, the
stored selection or the picker), then reads the files, edits them in memory and
writes the workspace root, `Cargo.toml` and `battery-pack.toml` in this order.
`sync` does the root and the state for each pack, and `Cargo.toml` once at the
end. `rm` reads `Cargo.toml` before its prompt and the root after it.
`new`, `show -t`, `validate` and `add -t` render with the same engine, which asks
the registry for `bp-managed` rows; `add -t` hands the files to the merge. The
terminal screens start `add`, `new` and `add -t` as processes.

PROJECT.json lists the hazards this gives rise to, each at its line with the
properties aimed at it.

## Modules

| Module | Models |
|--------|--------|
| `Pack` | a pack and the resolver, in closed form: which crates a selection yields, with which Cargo features; `--all-features`; exclusive categories; decoding a confirmed picker |
| `PackSelection` | selections that grow and shrink by one feature, and what must hold along them |
| `PackExpansion` | the same resolver as it is written, a depth-first walk with a `visiting` guard and deferred weak references, and the cycle search of `validate_features`: calls made between the steps of `PackSelection` |
| `Rows` | one row of a dependency table, and what add, sync and merge make of it |
| `Project`, `ProjectSafety` | a project's files under `add`, `sync`, `rm` and the user; what they owe him |
| `Reports` | what `status` and `check` warn of, over `Project` |
| `PickerContract` | what the picker promises its caller: marks change section by section, and the answer is the marks |
| `Picker`, `PickerSafety` | the picker's list as it is written: entries, stops, cursor, scroll offset, keys; its invariants, and that it implements `PickerContract` |
| `Lint`, `LintSafety` | categories from the author's manifest through `validate` to the sections of the user's picker and the decoding of his answer; composes `Pack` and `PickerContract` |
| `Managed` | `bp-managed` rows: the scan, the packs in use, the rewrite |
| `Template`, `TemplateSafety` | `new`, `show -t` and `validate`, on top of `Managed` |
| `Threads`, `ThreadsSafety` | the pin cache with its prefetch threads, and rustfmt with its pipes |
| `Merge`, `MergeSafety` | `add -t`: rendered files applied to a project, with prompts |
| `Tui`, `TuiSafety` | the full-screen interface |
| `PackProofs`, `ProjectProofs`, `PickerProofs`, `TemplateProofs`, `MergeProofs`, `ThreadsProofs`, `TuiProofs` | theorems about these components, and their proofs (`PackProofs` holds those about `Lint`) |
| `ListProofs` | lemmas about numbers, sequences and folds that several of them cite |
| `MC*` | the instances TLC checks |

### Pack

A reference is `[form, name, feature]`; forms are `feature` (`foo`), `dep`
(`dep:foo`), `strong` (`foo/bar`) and `weak` (`foo?/bar`). `Expanded(p, F)` is
the least set of features closed under local references, `Selected` the crates,
`Resolve` their rows. Two details of the code show in the closed form. Weak
references act last, on what is there by then. And the default set of a pack
without a `default` feature is *inserted*: it overwrites what features sorted
before the string "default" had added (`Surviving`, `BeforeDefault`).
`WellFormed` is what cargo has checked before `package_to_spec` runs.

### PackExpansion

A call of `resolve_crates` or of the cycle search runs in small steps. `frames`
is the stack of calls of `add_feature_crates` (or `dfs_feature`), each with the
references its loop has yet to take; `todo` is what the outermost loop has left,
`result`, `pending` and `visited` are the code's own variables.

| Action | Code |
|--------|------|
| `Selects` | the user's next selection, only between calls |
| `ResolvesSelection`, `TakesFeature`, `Resolved` | `resolve_crates`: the call, one active feature (`add_default_crates` included), the base dependencies and the weak references |
| `Expands`, `Defers`, `Adds` | `add_feature_crates`, one reference: a local feature, a weak one, `add_dep` |
| `Validates`, `StartsAt`, `Passes` | `validate_features`: the search, one start, no cycle |
| `Follows` | `dfs_feature`, one edge (`DfsFeature`: on the stack, seen, or entered) |
| `Returns`, `Answers` | a call returns to its loop; the outermost one to its caller |

The selection comes sorted, which matters for what precedes "default" (`Comes`).
In which order a loop takes its references is left open: the answer must not
depend on it. `CallsSelectNothing` says that the calls are stutters of
`PackSelection`, so what is proved of selections holds here.

### Project

`disk` holds the files: `deps` (the three sections of `Cargo.toml`), `packs`
(the battery packs in `[build-dependencies]`), `root` (the workspace table) and
`saved` (`battery-pack.toml`). `rev` is the published revision of each pack.
`cmd` is the running command with its drafts: `deps`, `packs`, `root`, `entry`
are what it will write, and `pc` says what it does next:

    add:  [picker ->] root -> manifest -> state       (no root outside a workspace)
    sync: load -> state -> load -> ... -> manifest    (a pack's load writes the root)
    rm:   [prompt ->] root -> manifest -> state       (root only when it drops crates)

| Action | Code |
|--------|------|
| `Begins`, `OtherCommand` | `main`: the preflight `sync_state_with_current_manifest`, then a command |
| `Add`, `AddInteractive`, `Pick` | `add_battery_pack`, `resolve_add_crates`, `pick_crates_interactive` |
| `Sync`, `SyncPack`, `SyncFails` | `sync_battery_packs`, `load_installed_bp_spec` |
| `Rm`, `RmAsk`, `RmAnswer` | `remove_battery_pack`, `deps_safe_to_remove` |
| `WriteRoot`, `WriteManifest`, `WriteState` | the `fs::write` calls of add and rm; the last two also those of sync |
| `Quit` | a killed process, a failed write, a cancelled picker |
| `UserWrites`, `UserWritesRoot`, `RegisterPack`, `Publish` | the user's editor, `cargo add --build`, the registry |

A row is `[form, ver, req, feats, extra]` (module `Rows`): absent, a reference
to the workspace or a row of its own; its version (0: none); whether the version
is a requirement semver cannot parse; its features; whether the user wrote more
(a path, `default-features`). Names, versions and features are the only data
kept; TOML layout is not. A pack's crate has a text of the same kind,
`Text(spec)`: cargo's caret is stripped, any other requirement (`=1.2.3`, `~1.2`,
`*`) is not, so `should_upgrade_version` meets a text it cannot parse from either
side and then replaces whatever differs (`Upgrades`).

The picker is one action here (`Pick`): any set of items it allows is confirmed.
`PickerAllows` says which: each at-most-one category is a radio section of its
own, so an item of two of them is marked in each separately. `Picker` models the
keys in between, `Lint` the sections it is opened with.

The user edits only while no command runs or one waits for him. Commands do not
overlap.

`Reports` reads the same state: `StatusWarns` follows `build_status_report`
(the first section with a version wins, then `should_upgrade_version`),
`CheckWarns` follows `check_battery_packs`, which compares by other rules.

### Picker

`entries` is the flattened list of headers and rows, `visible` and `stops` what
a fold recomputes, `cursor` the entry the code's index into `nav_stops` stands
for, `scroll` and `height` the viewport. One pass of the loop is `Draw`, which
sets `height` from the terminal and moves `scroll`, and then at most one key;
a poll that times out draws again. `Up`, `Down`, `Toggle`, `ToggleSection`,
`Backspace`, `Collapse`, `Expand`, `Enter` and `Cancel` are the picker's keys,
`Preview` the one `add` binds, `Ignored` any other.

`PickerContract` knows only the list, the marks and the outcome. `Picker`
implements it (`KeepsContract`) with the marks of the rows by section and
position and the outcome of the loop; moving, folding and drawing are stutters.

### Lint

`Edits` are the author's: he declares and withdraws categories and puts
features, crates and templates into them. `Validate` applies the rules of
`validate_spec`, `validate_categories` and `validate_on_disk` in the order
`validate_battery_pack_cmd` runs them; a manifest with errors goes no further.
`Opens` builds the picker's sections for a project: one per category and the
generic ones, those that have rows (`Filled`), rows marked for the default set
when the project has none of the pack's crates and for what it has otherwise
(`FeatureChecked`, `CrateRows`).
`MarksRows` is any step of `PickerContract`, and `Confirms` decodes the marks by
position into crates and templates.

### Managed and Template

A manifest is its dependency tables, target-gated ones included, and the packs
its metadata names. `ResolveManaged` is `resolve_bp_managed_content`: conflicting
markers and crates that nothing provides are errors; packs in use come from the
rendered `battery-pack.toml` beside the manifest, or from the metadata; each is
taken from the crate root's workspace or fetched, and a later pack's row for a
crate goes over an earlier one's.

A command of `Template` goes through the phases

    fetch -> pick -> config -> fill -> render -> manage -> shown (show)
                                                        -> check -> write.. -> git -> record (new)
                                                        -> next stage or template (validate)

where each file's `bp-managed` rows and each written file is a step, and any
step may be the last (`Dies`). `validate` packages the crate first, which
leaves out a template's directory that has a literal `Cargo.toml`, and falls back
to the source while a dependency is not published (`Fetch`). `Silent` is what an unanswered placeholder becomes
without a terminal, `Answer` what is typed, `PreviewDefines` the fallbacks of
`preview`. `validate` renders each template twice: with fallbacks (`probe`), then,
if that is a project, with no defines, to build it. The user may make or remove
the target directory while no command runs or one asks him.

### Threads

`Prefetch` starts a thread per pair the search found, each resolves
(`ThreadResolves`, against what the remote lists at that moment) and stores
(`ThreadStores`); the renderer joins them, then `Call`s, resolving on its own
what the search has missed. `fmt` counts the chunks of a file on their way
through rustfmt: `WriterFeeds`, `ChildReads`, `ChildPrints`, `Reads`, through
pipes of `Pipe` chunks; the child may fail at any point.

### Merge

`files` is the project, `Rendered` the template. Every file takes a turn
(`Creates`, `Clash`, `Decides`), which writes it, leaves it, or opens a prompt on
a `draft`; the prompt is answered for one file or for all that remain (`Accepts`,
`Skips`), or opens the editor (`EditsDraft`). A TOML file is its dependency rows
and a tree of the rest; `MergeRow` keeps the older row with the newer version and
both sets of features, `Additive` keeps every key and adds what is new below
tables. A YAML file is a sequence of documents of which the merge reads the
first; maps below `DeepKeys` are merged, other keys kept, and an empty document or
a `jobs`, `on` or `permissions` without a value gives way to the template's
(`MergeValues`: `Filled` are the leaves that go, `IsNew` those that come).
`GitCheck` refuses or asks
about a dirty tree, `Records` writes `applied-templates`.

### Tui

One pass of the loop is `ProcessLoading`, `Draw`, `Execute` if a command is
pending, then one key (`HandleKey`) or none within the poll (`Idle`), then
`Check`. The screens are records by kind; a form and a preview carry the pack and
the item they were opened from. Texts are sequences of bytes, so that a
character of two bytes shows what the form's cursor does; `FormChar`,
`FormBackspace` and `FormDelete` panic inside one, as `String::insert` and
`remove` do. A command owns the terminal while it runs (`ChildEnds`,
`EnterPressed`, `Killed`). A terminal that fails to draw, to poll or to give a key
ends the loop with the error (`Fails`).

## Runs

| Run | Question |
|-----|----------|
| `pack` | does the walk compute its closed form, does the cycle search find exactly the cyclic graphs, and do selections add up, over every small pack? |
| `project_workspace` | are the files safe under interrupted and repeated commands in a workspace member, and does `status` tell what sync would change? |
| `project_crate` | the same outside a workspace, where rows carry versions and the user writes his own |
| `picker` | do cursor, scrolling and marks stay right under every sequence of keys, folds and resizes, and is the answer what the user marked? |
| `lint` | is a pack that passes validation one whose picker opens without a conflict, and is an untouched picker the default set? |
| `template` | do `show -t`, `validate` and `new` agree on what a template renders to, and is what exists left alone, whatever fails or dies? |
| `merge` | is anything of the user's lost by `add -t` without his answer, and does a rerun end where the first run would have? |
| `tui` | are positions, commands and the terminal right in every sequence of keys, commands and failing fetches? |
| `threads` | is one commit pinned per action whatever the threads do, and does every render end? |
| `sync_lowers`, `tui_loading`, `managed_newest` | three statements of documents which the code does not keep; TLC shows a run for each, and PROJECT.json quotes the statement |

Properties of the passing runs:

* `WalkAgrees`, `CycleSearchAgrees`: the walk ends with the crates and features of the closed form, and the search reports a cycle exactly when a feature reaches itself.
* `EnablingAdds`, `AllDominates`: features are additive; `--all-features` is the widest selection.
* `RerunConverges` (`Project`): at every point where a command may die, running it again ends with the very files an uninterrupted run writes. For `rm` until `Cargo.toml` is written.
* `SyncNeverWeakens`: sync takes away no row and no feature and writes no version but a recommended one. Where the recommended versions of a crate are all plain it lowers no plain version; one that is pinned (`=1.2.3`) replaces a newer plain one, which is the finding of `sync_lowers`.
* `SyncBringsUpToDate`, `SyncIdempotent`: sync leaves every registered pack satisfied at once, and has nothing left to do the second time. A pack's version is in the row unless a later pack opposes it: the two want different texts, one of them a requirement (`Unopposed`). Such packs overwrite each other's version in every sync, and the last wins.
* `StatusTracksSync`: sync changes no version `status` has not warned of, and what it has written `status` no longer warns of, but for a pack that a later one opposes.
* `AddIdempotent`, `AddLeavesOthersAlone`: add again changes nothing (unless a feature is named "all", which the state file reads as every feature); crates outside the pack stay, whatever the user did while the picker was open.
* `NoNewDangling`: as long as no workspace row is removed, a workspace that loads keeps loading after every single write.
* `RmKeepsShared`: rm takes no crate another registered pack manages.
* `FocusKept`: what a fold recomputes is never stale, and the cursor is on an entry the user sees.
* `CursorShown`: after every draw and key the entry under the cursor is on the screen. It holds by a line to spare: `entry_to_line` places a header one line too high, and the block has one border where two are set aside.
* `KeepsContract`: no key marks in two sections or adds a second mark to a radio section, and the answer is the marks, row for row, without a conflict.
* `OpensWithoutConflict`: a pack that passed validation opens, in a project without its crates, with no conflict. The rule looks at the features `default` lists; `Telling` says for which packs that is enough.
* `EnterAnswers`: a picker confirmed as it opened installs what a plain add would, for packs whose features do not take a crate's name for something else (`Namesakes`), and an at-most-one category yields at most one of the items it alone holds.
* `ValidatedGenerates`: a template `validate` has built never fails for a user who defines nothing and is not asked.
* `PreviewShows`: `show -t` prints what `new` with the same defines writes, for templates without a switch that has no default.
* `RecordedWhole`, `SparesExisting`: what is recorded as applied has every file; `new` replaces nothing it did not write.
* `ManagedWhole`: a manifest is resolved whole or not at all, each version from a pack in use, every other key as it was.
* `NothingLostUnasked`: no key, value, version, feature or row of the user's goes without his own editor, his answer or `--overwrite`. An empty `jobs`, `on` or `permissions` may be filled, and of a YAML file the first document is meant.
* `RerunConverges` (`Merge`): `add -t` that nobody attends, run again after it died, gets as far and leaves the files it would have left, for templates that render no path twice, TOML and YAML that parses, and one YAML document per file (`Orderly`).
* `BatchIsFinal`: after an answer for all, no prompt; after [S]kip all, no file that exists changes.
* `InPlace`, `RunsWhatIsShown`: positions on a screen exist, and only a two-byte character can stop the form; commands name the pack and the template the screen shows, with the terminal given back. The place a pack was read from is checked for previews and for `use`; `add` and `new` pass none on.
* `OnePin`: one answer per pair for the life of the process, in every render; a formatted file is whole.
* `Ends` (`Template`, `Merge`), `Responds` (`Tui`), `Finishes` (`Threads`): the liveness properties, see Fairness. `Responds` says that a fetch is left and a command or a quit gets through; how long a fetch holds the loop up it does not judge. That it does hold it up is the finding of `tui_loading`: with the fetch before the draw, the user waits before a screen that does not say so and takes no key.
* `TypeOK` (`Project`, `Picker`, `Template`, `Merge`, `Tui`): shapes and phases, the stored selection that is never empty, a scroll offset that never goes below zero, a failure with a reason, a terminal in raw mode exactly while the loop owns it.

### Bounds

`MCPack` enumerates packs of two crates and up to three features whose
references nest, form cycles and mix the four forms, with one crate hidden or
optional: two crates tell "activated" from "augmented", and the walk's guard
matters from two features on. One feature has up to two references, so that a
loop goes on after a call inside it has returned; the others have at most one. `MCProject` has two packs that share crates at different
versions and features; the first has an optional crate behind two exclusive
features and a second revision that raises a version, moves a crate to another
section, drops a feature and pins crates; the second has a build dependency
and pins a crate of the first. Plain and pinned versions meet in either order,
over newer and older rows (in the workspace one crate is pinned, by either pack).
Three commands
and one edit (workspace), or two commands and two edits (plain crate), suffice
for add, add, rm; for add, sync over a new revision, rm; and for a crash
followed by a full command. `MaxCommands` and `MaxEdits` are the only counters.

`MCPicker` opens four lists of two or three sections: a list that scrolls, a
radio section that opens with two marks, empty sections, sections that open
collapsed, templates. Heights from 3 to 6 leave a viewport of zero to three
lines, so that each branch of the scrolling code is taken and a header does and
does not fit; a resize may come with any draw. The keys are not bounded: the
state space is finite.

`MCLint` starts from six manifests (defaults with one feature, with two that
clash, with a feature that brings both, with a bare crate that is hidden, with a
feature named like its crate, and one that breaks the rules on disk) and edits two categories, one radio, with items of
each kind. Projects have none of the pack's crates or two of them. Conflicts need
two items and one category; a second category shows items that are in both.

`MCTemplate` has six pack crates: templates with each type of placeholder, with
and without defaults, options from a list or an unknown category; a manifest with
markers in a plain, a build and a target-gated table; ignored, blank and broken
files, includes, and a manifest that cannot be resolved. Two packs list one crate
at different versions. One crate has a template that `cargo package` leaves out
(a literal `Cargo.toml`) beside a good one, so that tarball and source differ for
`validate`. The registry is up or down per download; two commands
(`MaxCommands`) are a validate and the new that relies on it, or a new over what
another left.

`MCMerge` has a TOML, a YAML and two other files in five projects that have them
as text, as binary, broken or not at all, the YAML also without a document and
with keys that are null or an empty map. Two commands (a crash and its rerun),
one edit. Four files suffice for a batch answer in the middle with structured and
plain files after it.

`MCTui` has a pack with an item of each kind and two names for one template
directory and one with nothing but actions, and five launches. Offsets and line
counts are 16 bits in the code and 3 bits here (`Wide` 8; `Page` 2 and `Leap` 4
for the page and End keys), with lengths below and above; texts have up to three
bytes (`MaxText`), a character of two bytes and one more.

`MCThreads` has three pairs, the first of which gets new tags, two renders with
calls the search finds and misses, a file of four chunks and pipes of one, so that
both pipes fill.

When commands, edits and renders are used up nothing more happens, hence
`CHECK_DEADLOCK FALSE`.

### Fairness

`Project`, `Picker` and `Lint` assume none: a command may be killed at any point
and a user need not answer, so nothing has to happen. What stands for progress
are statements about outcomes (`RerunConverges`, `AddIdempotent`,
`SyncIdempotent`), computed with the same drafts the actions use.

`Template` and `Merge` assume `WF_vars(Works)`: a command that is neither killed
nor waiting for its user takes its next step, because it is sequential code; a
download answers or fails. Nothing makes the user answer, so `Ends` speaks of
commands that must not ask. `Tui` assumes `WF_vars(Loop)`: the loop polls for
100 ms and goes on, with or without a key; a fetch answers or fails. Nothing is
assumed of the user or of a command the loop has started. `Threads` assumes
weak fairness of each thread: of the renderer, of every prefetch thread (git
answers or fails, it has no timeout), of the writer and of rustfmt.

## Proofs

Every invariant and action property of the passing runs is a theorem here, for
every value of the constants the assumptions below allow. Each section says which invariant carries it.

`PackProofs`, selections: `Additive` and `AllFeaturesDominate` for every
well-formed pack and every sequence of selections. The argument is monotonicity:
`Expanded` is the least closed set, so a larger selection has a larger closure,
and with it more references, activated crates and augments. The one place where
the resolver is not monotone, the insert of the default set, is why `Grows`
speaks of Cargo features only for packs that declare `default`.

`PackProofs`, the walks: `WalkIsClosedForm` and `CycleSearchIsExact` for every
well-formed pack, however its features refer to each other, every selection and
every order in which the loops take references. The invariant of the resolver,
`ResolvedSoFar`, says what a walk that has come this far has entered (`S`) and
taken (`H`): every reference of an entered feature has been taken or waits in a
frame, and every local feature taken has been entered, although the guard forgets
names on the way back (`Walked`). `result` is then a function of `H` (`Built`), with
a second such pair for the features after the insert of the default set, which
forgets the ones before it. With no frame left `S` is closed, and the least
such set because a walk enters only what it reaches (`WalkEnds`). The invariant
of the search, `Searched`, says that the features on the path are distinct and
each reaches those called after it, and that a feature that is done refers only
to done ones and is on no cycle. So an edge into the path closes a cycle (`FoundCycle`), and when
all features are done there is none (`FoundNone`). A feature that returns is on
no cycle because everything below it is done and it is not (`SearchReturns`).

`PackProofs`, from the author to the picker: `OpensClean` and `EnterIsAnAnswer`
for every manifest, edit, project and sequence of marks. The invariant
`LintInv` says that an open picker shows the sections of the pack as it is
(`Shown`) with marks on its rows, and that a pack that passed has no errors. What
the sections are is a fact about two nested lists: `SectionsArranged` says each
is a category's rows or the generic ones, `SectionsHold` that they hold every
item. A conflict at opening needs two marked rows of a radio section; a marked
feature that brings a crate of its own is one that `default` lists
(`OwnIsListed`), because the features `default` does not reach together with
their own crates can be left out of the closure; two of those are a conflict
`validate` reports (`TwoClash`). `EnterTakes` compares the default set with the
closure of the marked features, row by row.

`ProjectProofs`: `TypeInvariance` for every catalog of well-formed packs, every
set of requests, rows, commands and edits. `TypeOK` is inductive as it stands,
because it ties the phase of a command to what its drafts hold. It rests on
lemmas about the resolver (`ResolveType`, `OfferedType`, `PickedType`), tables
(`DepsTypes`, `RootTypes`) and drafts (`AddDraftOK`, `RmDraftOK`). Three kinds of
theorem follow.

* What a step may do. `SyncAdditive` proves `SyncNeverWeakens`: that the final
  write of `Cargo.toml` weakens nothing is not visible from one step, so
  `DraftAhead` says that during a sync every row of the draft keeps what the file
  has; `Keeps` is transitive and no one else writes during a sync (`OnlySync`).
  `AddLocal`, `RmSparesShared` and `NothingDangles` are about writes of a draft
  computed steps earlier, so each ties the draft to the files as they are now:
  `DraftLocal` (add's draft is the file outside its pack), `DraftSpares` (rm's
  draft is the file for crates other packs manage; at the prompt it is the whole
  file, unless the user edited it) and `RefsBacked` (a reference the draft adds
  has its row in the workspace table, which is written first). They are preserved
  because nobody else writes while a command does (`Writers`) and because a draft
  is computed from the files at that moment (`AddBegins`, `RmBegins`).
* What a whole command leaves. Sync over a set of packs is a fold over the set in
  the order of their numbers; `SyncAllRuns` unrolls it into single packs,
  `SyncAllSplit` cuts it anywhere. Seen from one row it is a run in which each pack
  that wants the crate syncs the row in turn (`RowRun`, `SyncAllRows`). Because of
  pinned versions a row may be changed back by a later pack, so what a pack gets
  is said of the packs nobody opposes: at the end of a run the row has what such a
  pack asked for, since agreeing packs only raise it (`RowMeets`, `SyncAllMeets`).
  That a second run ends where the first did needs another reason, as on the way
  it may differ from it: after the sync with a requirement the version depends on
  nothing before it, so both runs agree from the last requirement on, and without
  one nothing is behind (`SyncTexts`, `RowAgain`, `SyncAllAgain`). That gives
  `SyncOnce` and, with the plan below, `SyncCompletes`. `AddOnceIsEnough` needs
  more: the second add reads the features the first one stored, and looks for
  crates it deselects, of which the first has left none. `StatusIsTrue` compares
  the row `status` reads with the one sync writes: a row no expected crate upgrades
  is read as before, however many packs come between (`SyncUnread` carries
  `SameRead` along the fold).
* Where a command may die. `RerunsConverge` needs to know at every point what the
  command has done and has left to do; that is the invariant `Planned`. `SyncPlan`:
  the packs that are done are recorded, but for the one being recorded, the draft
  is what syncing them makes of `Cargo.toml`, and the workspace table is what
  syncing them has made of the one the command found (`\E found`: it is
  overwritten on the way, and the rerun starts from what is there). `AddPlan` and
  `RmPlan`: the draft is what the selection, or the removal, makes of the files,
  before and after each write of it.
  `Unrecorded` and `NoRoot` exclude entries and tables nobody could have written,
  and `Pruned` says what the preflight has established, so that the preflight of
  the second run changes nothing the first has left.

`PickerProofs` proves `TypeOK`, `FocusKept` and `CursorShown` of the picker for
every list that has a row, and all heights. The inductive invariant is
`TypeOK /\ FocusKept`: the code never recomputes what it folds away, so each step
must be shown to leave what a rebuild would give. `SmallestOf` and `LargestOf`,
from the well-foundedness of `<`, give every entry one header (`HeaderExists`,
`HeaderUnique`) and every list a stop (`StopExists`); `MarksKeep` and `FoldShows`
carry the invariant through marking and folding. For `CursorShown`, `EnsuredLine`
says that the line `entry_to_line` computes is inside the viewport, `LineDrawn`
that the entry is drawn at most one line below it, and the viewport has that one
line to spare.

`Contracted` proves the refinement: the picker implements `PickerContract` with
the marks by section and position and the answer of `into_results`. The list of
entries is flat, so the proof places every section in it (`StartOf`, `Place`,
`PlaceUnique`), reads the marks back from those places (`MarkedAt`), and unrolls
the fold of `into_results`, whose loop invariant is `ReadTo`. Moving, folding and
drawing map to stutters, each marking key to a step that marks one row of one
section (`MarkingStep`, `ToggledStep`), Enter to the answer (`EnterStep`).

`MergeProofs` proves `TypeOK`, `NothingLostUnasked` and `BatchIsFinal` for all
files, templates, projects and edits. Neither the files nor the draft have a
type that the actions show by themselves: the inductive invariant says that
every file fits its name (`Fits`), and that the draft of an open prompt fits
the file it is for and is a merge only where one was made. With that, a
structured merge keeps rows, trees and documents one by one; the one draft that
need not is one the user has reworked. `RerunsConverge` adds to it that a file
whose turn has passed is `Absorbed`: whoever meets it again is not stuck and
leaves it as it is (`RInv`). A file the template created, merged, overwrote or
skipped is (`OwnAbsorbed`, `MergedAbsorbed`, `SkippedAbsorbed`), because merging a
second time changes no row (`RowAgain`), no tree (`AdditiveAgain`) and no document
(`ValuesAgain`, `YamlAgain`). A tree is its leaves by their paths, so the proof for
trees is about prefixes: where a path of the template leaves a tree stays put when
the other paths are added (`NewBefore`), and an empty value that gave way has left
a key of the template's in its place (`Extends`, `ValuesMerged`).

`TemplateProofs`: `TypeInvariance`, by `TInv`, which adds to `TypeOK` what a
command has in hand at each point of its course (`Shape`), and the lemmas on what
filtering, walking and rendering lists of files return. On it rest

* `ExistingSpared`: the directory is not there when the first file is written,
  and nobody but the command writes while it does (`OwnFiles`);
* `RecordsWhole`: what was written stays (`WrittenSoFar`);
* `ManifestsWhole`: the packs loaded on the way to a manifest are those in use and
  known (`KnowsLoaded`, `UsedLoaded`), whatever fails in between, and each marked
  row gets its version from one of them (`VersionsFrom`, `RowsRewritten`);
* `ValidMeansGenerates`: a template counts as built only after every placeholder
  has filled without an answer and it has rendered (`BuiltSoFar`), a `new` fails
  for a reason that is still there (`FailedFor`), and packaging changes nothing
  of a template but whether its directory is there (`SameTemplate`);
* `PreviewIsTrue`: the values a preview has filled in so far are those of
  `preview`'s fallbacks (`PreviewSoFar`), which differ from what a `new` takes
  only where a switch has no default.

`ThreadsProofs` proves `OnePin` for any number of pairs, threads, calls and
pushes. The invariant: a pair has a thread only while it has no answer in the
cache, the renderer resolves only when no thread runs, a call rendered shows
what the cache has, and the chunks of a file are conserved between the writer,
the two pipes, rustfmt and the reader, so that a formatted text is whole.

`TuiProofs` proves `TypeOK`, `InPlace` and `RunsWhatIsShown`. The inductive
invariant `IInv` describes every kind of screen (`ScreenOK`), the loading and
error screens included: what a target leads to was read from one place in the
whole run (`Home`), a list is reachable only when no `--path` was given, a form
or preview carries an item of its pack that is a template when it has one, and a
cursor or scroll offset that its own text or count allows. `LoopOK` ties a
pending command to the screen it was asked for on (`Ordered`), which no phase
between the key and the command changes. Lemmas about arithmetic (`WrappedInside`),
sequences (`ItemsOf`, `TemplateOf`) and texts (`Inserted`, `Removed`,
`InsideCharacter`) carry the keys.

`ListProofs` has what these share. The folds of the community modules are
recursive functions on sets; the library's induction theorems cannot be used for
them, so induction over numbers comes from the least element of a set
(`Induction`, `Counted`) and over finite sets from that (`SubsetInduction`).
`FoldRun` and `SetRun` say that a fold is a run: a function that starts with the
base and takes one step per element. `Flattening` places lists in the list they
flatten to.

Assumptions: the names that sort before "default" do not hold it; packs are numbered from 1 without a gap; catalogs hold well-formed
packs, with a first revision; requests and user rows are well-typed; "all" and
"default" are feature names, peers refer to known crates; a manifest has finitely
many names in its tables (`ManifestsAssumption`); a list the picker opens is a
list of sections one of which has a row, heights are natural numbers; the packs
of the registry and of the workspace list crates with versions (`PackOK`,
`WorkspaceAssumption`); templates have typed placeholders, none of whose options
is the empty text, `validate` passes no defines, which in the code is an empty
map (`TemplateAssumption`); rendered files, projects and edits fit their names
(`MergeAssumption`); GitHub lists something for every pair from the start
(`ThreadsAssumption`); the screens are opened with `--path` only for one pack, and
templates have names (`TuiAssumption`). TLC evaluates each of them.

Checked by TLC only: liveness (`Ends`, `Responds`, `Finishes`), out of the
prover's reach as is ENABLED.

## Not modelled

* Completions read a cache of specs and print candidates; `bphelper-build` and
  `mdbook-battery-pack` are text processing; `cargo-bp` dispatches,
  `cargo-bp-script` reads the commands' JSON; `battery-packs/*` is data, its
  service template an example.
* In `Project`: the pack's own row in `[workspace.dependencies]`,
  `applied-templates` and `build.rs` clean-up (nothing modelled there reads
  them), a write torn inside one file, a state file that does not parse, and two
  commands at once.
* What reports, diffs and summaries print; TOML layout (formatting, inline
  dependency sections); versions beyond their order.
* `merge_crate_specs`, which only tests call; discovery of workspaces; parsing
  of cargo metadata, archives and HTTP.
* In `Template`: `rust_stable_version`, hints, a select whose answer the picker
  has given, the order in which files are printed, the `[patch]` tables
  of `validate`. Cargo's verdict on a project is a choice except for rows without
  a version.
* In the picker: a list without a stop, which is returned unanswered, a list
  whose only section is empty (expanding it leaves the cursor nothing to point
  at; no caller opens one), and the choice of inline or full screen.
* In the terminal screens: drawing, a terminal that cannot be put into raw mode
  (`ratatui::init` panics), and how the project is detected.

## What was met on the way

Three findings are runs (PROJECT.json). Others of the same kind have no run of
their own:

* md/spec/cli.md:172 says "Existing keys are never removed"; merge_yaml
  (merge.rs:494) writes only the first document of a YAML file back, so a second
  one of the user's is gone. `MergeYaml` has it; `NothingLostUnasked` speaks of the
  first document only.
* Two packs that want one crate at different versions, one of them pinned,
  overwrite each other's row in every sync, without a word to the user; the one
  that comes last wins.
* md/spec/format.md:77 and 85 say features only add; for a pack without a
  `default` feature the default set is inserted over what sorted before it.
* md/spec/cli.md:116: `--all-features` misses crates that are only referred to
  weakly.
* commands.rs:1227 says "all dep sections"; rm clears two of the three.
* md/spec/manifest.md:81: add replaces a row the user has customised.
* commands.rs:975 lists the build-dep among what add writes; add writes no
  `[build-dependencies]` row.
* md/spec/format.md:107: two exclusive items can be stored when each was put in
  by a different command.
* commands.rs:1809 previews "only when the cursor is on a template row"; on the
  header of a folded section it previews the first row, when that is a template.
* Validation looks only at the features `default` lists, so a feature that
  brings both of two exclusive ones passes; `default = ["x/feat"]` loses its
  reference when the picker is confirmed untouched; an item of two categories
  lets exclusive siblings be picked; `feature_checked` takes each name a feature
  lists for a crate, so a feature named like a crate (`ring = ["dep:ring",
  "dep:openssl"]`) is marked when another feature is, and Enter installs more than
  a plain add (`Namesakes` excludes it; without it TLC refutes `EnterAnswers`);
  categories of a feature that cargo makes
  from an optional crate are accepted and then ignored by the picker; the spec is
  not checked for cycles by `validate`, nor at all when it is installed.
* The preview shows a switch without a default as on, a project has it off;
  `add -t` renders with the preview's fallbacks and so never prompts;
  `resolve_template` picks `default` without a question; a template that renders
  no file fails in `git init`.
* `add -F all` stores the name, and from then on the state file stands for every
  feature; lib.rs:1631 calls it a limitation.
* Applying a template again over a run that died does not converge when it renders
  one path twice (`_Cargo.toml` beside `Cargo.toml`), TOML or YAML that does not
  parse, or a second YAML document: the first run writes such a file whole, the
  second tries to merge it.
* The screens' `add` and `new` do not pass on `--path` and `--crate-source`; Esc
  from a pack forgets the list's filter; the form's cursor panics after a
  two-byte character.
* Completions look a spec up by the name typed in a cache keyed by full names,
  and `registry_packs.json` is never refreshed.

## Plan

1. `Concurrent`: two commands on one project without a lock, each with
   `Project`'s drafts, once a document says what they owe each other.
2. Torn writes and a state file that does not parse.
