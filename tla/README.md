# Kea Nexus in TLA+

A verification development of Kea Nexus: a Streamlit dashboard over a Kea DHCP
server, and a FastAPI service that takes devices off the network and puts them
back ("quarantine" and "release") through Kea, ARP and Pi-hole. The modules here
model the parts that keep state and act concurrently; TLC checks them on small
instances, and TLAPS proves the central invariants for every instance.

Source paths are relative to `src/`; `qs/` stands for `quarantine_service/`.

## 1. The system

Three kinds of process share one SQLite file, one Kea and up to two Pi-holes:

* the **dashboard** (`app.py` and `ui_*.py`): one Streamlit process, one script
  thread per open tab, which runs top to bottom at every interaction; it also
  starts the pool sampler thread;
* the **quarantine service** (`qs/main.py`): one FastAPI process whose
  synchronous endpoints run in a thread pool, so requests overlap freely; it also
  runs the presence probe and one thread per ARP disruption loop;
* **Kea**, the **Pi-holes**, the browsers and the devices, which are not in the
  repository and are modelled as the code uses them.

Nothing coordinates the two processes but the data they share: there is no lock
across them, no version column, no transaction longer than one statement.

| Component | State | Operations | Interacts through | What is hard | What makes it correct |
|---|---|---|---|---|---|
| ARP disruption loops, `qs/arp_disrupt.py` | `_active_disruptions` (name → thread, stop event), the threads | start, stop, the loop | called by request threads under `qs/retry.py` | overlapping starts and stops, join timeouts, retries of half-done stops, loss at restart | one owner per popped handle; no loop lost; what is reported about a loop is so; told loops end |
| Retry wrapper, `qs/retry.py` | attempt counter, `quarantine_log` | `run_with_retries` | around every step | errors of its own log rows | always returns; bounded attempts |
| Kea configuration, `kea.py`, `qs/kea_deny.py`, `ui_reservations.py`, `ui_settings.py`, `helpers.load_config` | Kea's running configuration and its file; the dashboard's cached copy; each client's edited copy | deny, undo deny; add, edit, delete reservation; save settings | config-get, config-set, config-write over HTTP | lost updates, stale caches, a failed or lost answer between set and write, Kea restarts | a reported success is in force and on disk; other reservations survive; the DROP class follows the last request |
| Device registry, `db.py`, `qs/identity.py`, `qs/nmap_fingerprint.py`, `qs/main.py`, `ui_quarantine.py` | `device_registry` rows | edit, touch, refresh, fingerprint, stamp, delete | SQLite, from both processes | each writer reads a row and writes all of it back, and one writes it without reading | a column is what was last written to it on purpose; the flag is the last direction requested |
| Quarantine requests, `qs/main.py`, `qs/identity.py`, `ui_quarantine.py`, `quarantine_client.py` | the request's progress; Kea's DROP classes, loops, Pi-hole entries, the flag | resolve, verify, four steps, stamp, answer; the dashboard's delete with automatic release | all of the above | partial failure of steps, devices that move, rows deleted or overwritten during a request, restarts, lost answers, successes that are not | answers are true; a failed step stops no other; a row not flagged has nothing enforced; every request ends |
| Login accounts, `auth.py`, `db.py`, `ui_users.py`, `ui_login.py`, `app.py` | `users` rows, tab sessions, browser cookies | bootstrap, login, sign out, reload, create, change role or password, disable, enable | SQLite, cookies | check-then-act across tabs, stale reads during a login, deferred cookie deletion | there is an active admin; a revoked token stays dead; a sign-out lasts |
| Pi-hole block, `pihole.py`, `qs/pihole_block.py` | group, regex, client entries, sessions | block, unblock | HTTP | concurrent creation on a fresh Pi-hole, lost answers, dropped sessions | a reported block is in force in full; races cost no step |
| Presence probe, `qs/presence_check.py` | the pass in progress | the loop, one probe | registry, Kea | one probe that raises, a Kea that hangs | each device gets its turn |
| Pool sampler, `pool_history.py`, `db.py`, `dashboard_data.py` | sampler thread, `pool_samples` | start, stop, sample, prune; "issued in 24 h" | Kea's counters, SQLite | threads that outlive their stop, failing passes, counter resets, gaps | one loop goes on; it survives failures; the figure never overstates |
| Nmap fingerprint, `qs/nmap_fingerprint.py` | – | scan, persist | registry | slow scan between resolution and write | in Device registry |
| Dashboard calculations, `dashboard_data.py` | – | pure functions | – | counter resets, empty pools | one function is in the pool sampler's module; the others are not modelled (section 8) |
| Reservation labels, `ui_reservations.py`, `db.py` | `reservation_labels`; the configuration a dialog was opened with | add, edit, delete: save the configuration, then write the label | Kea, SQLite | failure between the two, dialogs on old copies, several sessions | a label has its reservation, and what the tab reserved has its label |
| Leases page and helpers, `ui_leases.py`, `helpers.py` | cached leases; the lease a dialog was opened with | load, add, edit a lease; real host names | Kea | two caches of different age, edits of a lease that passed on | no echo passes for a device's name; no two devices use one address |
| IPAM, `ui_ipam.py`, `db.py` | `ipam_static` | classify every address; save, delete a static record | SQLite, leases, reservations, scope | precedence of overlapping sources, a scope that moves | an address offered is free |
| Maintenance page, `ui_maintenance.py` | the list of a run | refresh, wipe, clear declined addresses | Kea, cached leases | a list that is old when it is worked off | clearing takes no device's lease |
| Liveness sweep, `qs/liveness.py` | – | one bounded sweep | ARP | – | not modelled (section 8) |
| DHCP on and off, documentation browser, read-only access, service token, styling | – | single calls or reads | – | – | not modelled (section 8) |

## 2. The modules

| Module | Models | Depends on |
|---|---|---|
| `ArpDisrupt` | the loops, their registry, worker threads under the retry wrapper | INSTANCE `RetryCall` |
| `RegistryRow`, `DeviceRegistry` | what each writer makes of a row; the table and its writers | `DeviceRegistry` EXTENDS `RegistryRow` |
| `KeaConfig` | Kea's configuration and its read-modify-write clients | – |
| `Enforcement` | the orchestration of a request, and the Delete button | composes the above at the granularity of one step |
| `Accounts` | users, sessions, cookies | – |
| `PiholeBlock` | one Pi-hole and the requests that edit it | INSTANCE `BlockList` |
| `LeaseViews`, `AddressBook` | what the dashboard makes of leases and reservations; who has which address, and the tabs that change it | `AddressBook` EXTENDS `LeaseViews` |
| `PresenceCheck` | the presence loop | – |
| `AddressBookAndProbe` | the two together: the probe finds or misses the leases of the address book | EXTENDS `AddressBook`, INSTANCE `PresenceCheck` |
| `RetryCall` | what `run_with_retries` promises its caller | implemented by `ArpDisrupt` and `KeaConfig` |
| `BlockList` | what the Pi-hole step promises the service | implemented by `PiholeBlock` |
| `PoolHistory` | sampler, samples, the "Issued" figure | – |
| `MC*` | instances for TLC: model values, small sets, symmetry | the module of that name |
| `*Proofs` | theorems and their proofs | the module of that name, `TLAPS` |

`Enforcement` composes the detailed components by what they promise at a step
boundary: one step of a request is one atomic action whose outcomes are the
outcomes `KeaConfig`, `ArpDisrupt` and `PiholeBlock` show for a whole run of
`run_with_retries`: done, half done or not done and reported accordingly, and the
two that are reported as done and are not, a Kea step whose change a restart of Kea
undid before config-write, and an ARP stop whose retry found no handle. What can
happen *inside* a step is the subject of the detailed module.

How state and actions correspond to code, module by module:

**ArpDisrupt.** `active` is `_active_disruptions`; a loop identity stands for a
`_DisruptionHandle` (thread and stop event), `thread` for the thread's life,
`pc`/`call`/`attempt`/`handle`/`outcome` for a worker's position and locals.
`Pop`, `Signal`, `Joined`/`JoinFailed` are the statements of
`stop_arp_disruption`, each lock region one action; `Register` and `Launch` are
the two halves of `start_arp_disruption` after its stop; `Wake` and `Sent` are
the loop. `Raised`, `LogSuccess`, `LogFailure` are `run_with_retries`, with the
success row inside the `try` and the failure row outside it. `overwritten`
records handles replaced in the registry.

**RegistryRow / DeviceRegistry.** A writer `Select`s a row into `snap` and
`Upsert`s all of it later: `WriteEdit` (dialog), `WriteTouch` (presence stamp),
`WriteRefresh` (resolution), `WriteFingerprint` (nmap), `WriteStamp`
(quarantine/release). `Add` is the Add dialog, which reads nothing: it writes its
defaults over whatever the name holds, the quarantine flag included. Timestamps are
reduced to present or absent, hostnames and addresses to members of small sets.
`direction` (of the last stamp) and `due` are history. `due[n]` has, of each column
of `n`, what the last writer that meant this column gave it, and forgets a column
when a writer saves the row that had read another value of it, or none.

**KeaConfig.** `running` and `disk` are Kea's two copies; `cache` is
`load_config`'s. A request goes `Get` → `Set` → `Write`, each with its failing
variant (a failure may come before or after the effect); a session opens a form
from the cache, presses a button, and its `SessionSet`/`SessionWrite` follow.
The dialogs edit the copy of the cached dict they were opened with, and keep it
while they are open, so `linked` says whether the entry the dialog holds is still
the one in its list (the code compares with `is`).
A reservation is its set of fields that have a value, its classes, and whether it is
`filled`: config-get returns every entry with all its keys (`helpers.py:179-185`), so
what Kea accepted comes back `Filled`, and `NoPurpose`, which tests for keys, is true
only of entries that never were in Kea.

**Enforcement.** `req[q]` is a request thread: what it was asked for, entries
still to resolve, resolved identities, step position, step results, log rows, how
it ended. `Start` and `LookUp` are the two SELECTs of `_matching_registry_entries`,
the exact name first and the rows alike next: names are model values, `Plain` is
what `_normalized` leaves of a name, `Blank` what it leaves of punctuation, and
`Order` is the order of `get_devices`. `Resolve`… are `resolve_target`; `Verify`… are `verify_identity_unchanged`; `KeaStep`,
`ArpStep`, `PiholeStep`, `NmapStep` the steps in the order of `_enforce_device`;
`Stamp` the flag. `KeaStep` may report what a restart of Kea between set and write
has undone (`undone`), and a stop that gave up waiting leaves a loop `dying` beside
the registry until `LoopEnds` (`StopOverruns`). `GatewayFailed`, `VerifyFailed`, `StepRaised`, `StampFailed` and
`ResolveFailed` are the exceptions nothing catches. `Delete…`, `Answered`,
`AnswerLost` and `ForceDelete` are the Delete button with its release attempts; it
decides on the row it has read (`dropping`) and deletes in a later statement
(`DropRow`). `AddRow` is the Add dialog, over an existing row too. That the stamp and
the refresh of a request write back a row read earlier, with its old flag, is
`DeviceRegistry`'s subject.
`Acquire` and `Expire` are devices getting and losing leases. Which parts of the
environment may fail is chosen at the start (`scenario`).

**Accounts.** A session's `pc` stands where its script was interrupted between
statements on `users`: after the read of a login (`verify`), in an open `dialog`,
before the `count` and the `write` of a change. A token is user and version. The
cookie component answers one run late: `view` is what it last knew, `jar` what
the browser has.

**PiholeBlock.** The calls of one attempt, in order; each may be refused, lost
before or after its effect, or served; `Retry` is the retry wrapper. `group`,
`regex`, `overridden` and `sessions` are the Pi-hole's.

Its abstract counterpart **BlockList** knows which addresses are blocked, what each
request wants and what it has been told. `Blocked` (the entries, once group and
regex are there) and `Status` are the refinement mapping.

**RetryCall.** The abstract call of `run_with_retries`: begun, inside an attempt,
returned, raised, over. `Phase` of `ArpDisrupt` is the refinement mapping of a
worker's position; every worker is a `RetryCall` of its own. So is every request of
`KeaConfig`, by `Phase` of `KeaConfigProofs`: an attempt begins with config-get.

**LeaseViews.** The pure functions over what was loaded: `OverrideSets`,
`RealHostname` and `DistinctRealHostnames` of `helpers.py`, and `StatusOf`, the
`if`/`elif` chain of `_classify_all`. A name is told apart by where it comes from:
the device, the echo of a reservation, an admin, nowhere.

**AddressBook.** `config` and `leases` are Kea's, `seenConfig` and `seenLeases` the
copies in `st.cache_data`, `labels` and `static` the tables, `tab[t]` the dialog or
loop a session is in, with the copies it was opened with. `SaveAdd`, `SaveEdit` and
`SaveDelete` are the presses of a dialog up to the end of `_save_config`, with its
outcomes (`Save`); `WriteLabels` and `LabelsFailed` the label statements after it.
`OpenStatic` … `DeleteStatic` are the IPAM dialog, `SavePool` the settings form.
`AddLease`, `OpenLease` and `SaveLease` are the Leases tab, `Wipe`, `Clear` and
`ClearNext` the Maintenance tab, whose loop deletes one address at a time from the
list its run was rendered from; a delete may be refused, or end the loop before the
cache is cleared. `SaveLease` may keep the name the form was filled with under
another MAC. `Deny` is the quarantine service, which reserves a MAC that has no
reservation, without a label; `EditByHand` is an editor on `kea-dhcp4.conf`, which
adds a hostname the cached configuration does not have yet. Reservations that were
there before labels were may or may not have one (`Init`). `Grant`, `Renew`, `Leave`, `Decline` and `Expire` are
the devices and Kea, and `uses` what a device believes its address to be. Which of
these activities occur in a behaviour is chosen at the start (`scenario`).

**PresenceCheck.** One pass over the snapshot `todo`; a probe that raises
anything but `KeaError` leaves the pass (`ProbeRaises`). So does the lookup when Kea
takes the call and does not answer (`kea = "hangs"`): `KeaClient` turns a refused
connection into a `KeaError`, a timeout it lets through (`kea.py:71`). In **AddressBookAndProbe**
a device is `Found` when some lease carries its own name.

**PoolHistory.** `handle` is `_sampler_thread`; a thread goes `pass` → `insert`
→ `prune` → `wait`. Samples have an age in ticks in place of a timestamp, and
`Within` selects by it; `Shown` is what the dashboard fetches, at most `LIMIT` rows,
the oldest first. `leases_issued_since` is the function of that name;
`issued`, the leases assigned since each of the last ticks began, is the truth it is
compared with.

History variables (`overwritten`, `direction`, `due`, `excused`, `wanted`,
`disturbed`, `undone`, `abandoned`, `revoked`, `raced`, `signedOut`, `upset`, `overtaken`,
`issued`, `unlabelled`, `unmasked`, `byHand`, `evicted`, `engulfed`, `visited`) record what happened for the properties and guard nothing.

## 3. The runs

| Run | Question | Instance |
|---|---|---|
| `arp_overlap` | Who owns a loop when starts and stops overlap? Is each call a retried call? | 2 workers, 1 name, 3 loop identities, 2 attempts, symmetry |
| `arp_fair` | Do told loops and calls end? | 1 worker, 4 loop identities, 3 attempts, fairness |
| `arp_release` | *violation*: does a successful release leave no loop alive? | 1 worker |
| `registry_writers` | What can whole-row writers do to one row? | 2 writers of 6 kinds and the Add dialog, 1 name, 2 hostnames, 1 address, symmetry |
| `registry_add` | *violation*: do only quarantines and releases move the flag? | 1 writer and the Add dialog |
| `kea_clients` | What do a request and a dashboard session do to one another's changes? | 1 request, 1 session, 1 MAC with a fixed address, 2 attempts, restarts |
| `enforce_requests` | Is the target meant? Are answers, summaries, flags true? Does every request end? | 1 thread, a group of 2 devices, their names in other spellings, 1 Pi-hole, six scenarios, fairness |
| `accounts_tabs` | Can admins be lost, can revoked tokens come back? | 2 tabs of one browser, 2 users, two changes of accounts, symmetry |
| `accounts_signout` | *violation*: does a sign-out last? | 1 tab |
| `pihole_races` | Do races on a fresh Pi-hole cost a step? Is a success so? Is a step one write to everyone else? | 3 requests, 2 addresses, 3 attempts, 2 lost calls or restarts, symmetry |
| `address_book` | Do labels, names, leases and static records stay true to one another? Who keeps its turn when a probe raises? | 2 sessions, 2 devices, 2 addresses besides the gateway, 2 scopes, ten scenarios, fairness of the probe |
| `pool_sampler` | One loop? A surviving loop? An honest figure? | 2 threads, window of one tick, history of two, a fetch of three rows, counter up to 2, fairness |

What they show:

* **arp_overlap.** A popped handle has exactly one owner; a registered handle is
  never one that was told to stop; a running loop nobody told to stop is out of
  reach only if an overlapping start replaced its handle
  (`LostLoopsWereOverwritten`), and as long as calls did not overlap no two loops
  fight and the reported outcome is true, through timeouts, failed launches,
  database errors, retries and restarts. Each call implements `RetryCall`
  (`CallsAreRetried`): it never skips the beginning of an attempt, and never
  succeeds or gives up out of turn.
* **arp_fair.** Every told loop exits and every `run_with_retries` returns.
* **registry_writers.** Every column holds what was last written to it on purpose
  (`ColumnsKeepLastWrite`), and the flag the last direction stamped
  (`DriftNeedsOverwrite`), unless since then a writer that had read another value of
  that column, or read the row before its deletion, or the Add dialog saved the row.
* **kea_clients.** A success whose base nobody replaced is in Kea and in its
  file; the DROP class follows the last request unless some write's base was stale,
  a form rewrote the reservation or Kea restarted; a set from a fresh base
  touches one reservation and in it only the class, and deletes none.
* **enforce_requests.** A target spelled exactly like a registered name means that
  row, and otherwise one that is alike, the first by name of those registered
  when the second SELECT ran; a group means its members. What an answer says of a
  step is what the layers hold for the identity it names; the spoken sentence names
  every device once and never rounds a partial failure up. Both are said of a Kea
  step only where no restart of Kea fell between its set and its write, and of ARP
  loops only of the registered one: a loop given up waiting for may run on
  (`arp_release` shows how). Every device answered for got every step or was
  skipped. While only scans fail, a device that keeps its address is cut off in every
  layer if it is flagged and free in all of them if not (`FlagTellsTheTruth`), unless
  its row was deleted by force, deleted under a running request, stamped between the
  look of a Delete button and its DELETE, or added anew over a flagged row. Every
  request ends.
* **accounts_tabs.** The last active admin is lost only when two sessions'
  count-and-write overlapped; a token issued before a change never counts again.
* **pihole_races.** A request fails only after a lost or refused call of its own;
  reported blocks and unblocks hold until another request writes the address. The
  calls together implement `BlockList` (`StepsActAtomically`): nobody sees a block
  without its regex, and no step changes another address.
* **address_book.** A MAC that has a label has a reservation, and one that has a
  reservation has a label unless it was reserved by hand or by a quarantine and not
  saved in the tab since; but for a dialog between its save and its label, and for
  MACs of which a half failed, a save went astray from an old copy, or two sessions
  acted at once (`LabelsFollowReservations`). Whatever the ages of the two caches, no
  echo of a reservation passes for a device's name while the reservation has its host
  name, unless that was added by hand since the configuration was loaded or an admin
  saved the lease (`RealNamesAreReal`). Two devices use one address only after an
  admin wiped, rewrote or shortened the lease of one, or cleared an address from a
  list that had grown old (`OneDevicePerAddress`). What the map offers for a static
  record is free, unless the scope was moved onto it (`OfferedMeansFree`). Devices up
  to the first one that breaks a pass of the probe are looked at again and again once
  Kea does not hang any more, and the first device even while it hangs.
* **pool_sampler.** At most one loop goes on sampling although `stop` does not
  wait under the lock; no failure ends it; the figure never exceeds what was issued.

The three violation runs are disagreements between code and its own comments
(section 6).

### Bounds, and why they are enough

* Two concurrent actors are enough for the check-then-act races here: each
  property speaks of one actor's step between two of another. Pi-hole needs three
  (each of the two races can be lost to a different rival).
* Loop identities: three let two workers hold one each beside a registered one;
  identities are reused once nothing refers to them (`Fresh`), so histories
  are unbounded. The proofs do not depend on the number.
* `MAX_ATTEMPTS` is 3 in the code; runs with two actors use 2, which already has
  a first, a repeated and a last attempt. `PiholeBlock` needs 3 and assumes it.
* `registry_writers` has one row, since no statement touches two, and one address and
  fingerprint besides the blank ones: a column differs or it does not.
* `kea_clients` has one MAC and one value of the settings, so the parts of
  `FreshSetIsLocal` about other MACs and settings have nothing to range over
  there; the theorem `FreshSetsAreLocal` covers them for any sets.
* `enforce_requests` has one thread: `ResponseIsTrue` and `SummaryIsTrue` speak of
  the time until the next request. Each scenario lets one or two parts fail,
  so that every pair of a failing and a later step occurs. Each device keeps one
  MAC and one address and may leave and return.
* `MaxVersion` 3 bounds the changes of all accounts together to two: one account
  may be disabled and enabled again, or changed by both tabs at once, or each
  tab may change another one.
  `MaxTrouble` 2 is one less than the attempts, so a request can be brought to its
  last attempt and still succeed.
* `PoolHistory`: the code's window (24 h), history (48 h) and minimal retention
  (1 day) are one, two and two ticks; a tolerance of less than a tick is 0.
  `LIMIT` 3, of 10000, cuts the newest row off when both loops' readings are in.
  `MaxCount` 2 lets a counter reset be made up for, and `MaxSamples` 2 plus the
  readings in flight lets two samples bracket the window with another between.
* `address_book`: two addresses besides the gateway, one of them outside the
  smaller scope, let a device be moved, two devices meet, and a scope grow over a
  record. Ten scenarios (`Days`) each combine the activities that one property
  relates: reservations with failures in two sessions; reservations beside the
  quarantine's; pinned addresses under declining devices; hostnames edited by hand
  beside the reservation dialogs, the lease dialogs with each of the two; clearing
  with failures; static records under a moving scope; static records beside
  reservations; the probe. Where names matter the scope has one address ("narrow").
  Activities of different scenarios do not meet in the run; the theorems hold for any set of scenarios, also one
  with all activities.
* `CHECK_DEADLOCK FALSE` is set in one run: `PiholeBlock`'s requests are
  finite in number and may all have ended.

### Fairness

* `ArpDisrupt`: weak fairness of each worker's and each loop's steps; the joins,
  the waits and the sends have timeouts, and the operating system schedules threads.
* `Enforcement`: weak fairness of a request's steps; every call it makes has a
  timeout and every retry loop an end. Nothing is assumed of devices, admins or
  restarts.
* `AddressBookAndProbe` (the probe) and `PoolHistory`: weak fairness of the loop thread. Nothing is
  assumed of Kea: it may fail for ever.

## 4. What is proved

Each theorem holds for every value of the constants under the named ASSUMEs of
its module, which TLC also evaluates in that module's runs.

| Theorem | Says |
|---|---|
| `ArpDisruptProofs!TypeCorrect`, `RegistryHoldsLiveLoops`, `OneStopperPerLoop`, `OnlyOverwritesLoseLoops` | types and the three ownership invariants, for any number of workers, names and loops |
| `ArpDisruptProofs!LoneCallerNeverFights`, `LoneCallerTruth` | as long as no other request has acted, no two loops fight and reports are true |
| `DeviceRegistryProofs!TypeCorrect`, `OnlyOverwritesLoseColumns`, `FlagDriftsOnlyByOverwrites` | columns and the flag hold what they were last given on purpose until somebody overwrites it, for any number of writers and names and any values |
| `KeaConfigProofs!TypeCorrect`, `UndisturbedSuccess`, `DriftOnlyByStaleBase`, `FreshSetsAreLocal` | any number of requests, sessions and MACs, and any number of attempts |
| `AccountsProofs!TypeCorrect`, `LastAdminGuard`, `RevokedForGood` | any finite set of users, any tabs, browsers and bound on versions |
| `PiholeBlockProofs!TypeCorrect`, `RacesAreAbsorbed`, `ReportedEffectsHold` | any finite number of requests, and any number of attempts from three on |
| `AddressBookProofs!TypeCorrect`, `LabelsFollow`, `NamesAreReal`, `NoAddressTwice`, `OffersAreFree` | the four properties of the address book, for any devices, sessions, addresses, scopes and sets of scenarios, with the probe running beside |
| `EnforcementProofs!TypeCorrect`, `TargetsMeant`, `EveryStepIsTried` | requests, for any number of threads, devices, spellings, leases and Pi-holes and whatever parts may fail |
| `EnforcementProofs!AnswersAreTrue`, `SummariesAreTrue` | the same when one thread serves the requests: answers and their spoken summary are what the layers hold, but for what a restart of Kea undid and for loops that overrun their stop |
| `EnforcementProofs!FlagsAreTrue` | the same with one thread, while only scans fail: the flag of a device that keeps its address and is not being worked on is true in every layer, with the exceptions of `FlagTellsTheTruth` |
| `PoolHistoryProofs!TypeCorrect`, `OneLoop`, `FigureIsHonest` | the sampler, for any finite number of threads and any window, tolerance, history, retention and limit of the fetch: at most one thread survives, and the figure never overstates |
| `PiholeBlockProofs!StepsImplementBlockList` | refinement: the calls of any number of requests implement `BlockList` |
| `ArpDisruptProofs!StepsImplementRetry` | refinement: every worker's calls implement `RetryCall` |
| `KeaConfigProofs!StepsImplementRetry` | refinement: every deny and undo in Kea implements `RetryCall`, for any number of requests and sessions |

The arguments:

* **ArpDisrupt.** `IInv` is the conjunction of `TypeInv` (types, and a busy worker
  serves a call), the ownership facts, `LaunchIsExclusive` (a loop that is being
  launched is in the hands of one worker) and `Accounted` (every running loop not
  told to stop is registered, being stopped, being launched or was
  overwritten). `LostLoopsWereOverwritten` alone is not inductive: it says
  nothing of a loop built and not launched yet. A second invariant, `LonersInv`,
  adds what a lone worker knows at each position (no other loop of its name while
  it registers, exactly its own afterwards), from which both lone-caller
  properties follow.
* **DeviceRegistry.** `Kept`, that every column in `due` holds what it is due, is
  inductive with `FlagDue` (the flag due is the last direction stamped),
  `WriterHasRow` (a writer under way has read a row) and `FreshStart` (no row, no
  dues). `Honours` says what a row operator does for `due`: it gives the columns it
  means and leaves the others; there is one lemma for each of the five, and
  `UpsertKeeps` rests on that alone, which keeps the step proofs free of columns.
* **KeaConfig.** `TypeInv` ties each client's copy to its position;
  `UndisturbedProgress` says that an undisturbed request past its set has
  its change running, and past its write on disk as well. Lemmas about the
  configuration operators (`ModifiedDropped`, `ModifiedElsewhere`,
  `ModifiedKeepsFields`, `FilledDropped`) give what a request changes; `FreshSetIsLocal` follows
  from them and `TypeInv`.
* **Accounts.** `AdminInv` needs `Spare`: a session about to write away an active
  admin has another active admin to leave, unless a write fell in between; it comes
  from a lemma on the cardinality of the set counted (`AnotherAdmin`).
  `RevokedBehind` says that every revoked token's version is below its
  account's, which is inductive because versions only grow.
* **PiholeBlock.** `LossInv` bounds the attempts an undisturbed request has lost by
  the objects that exist: after its first lost race the group is there, after
  the second the regex is. This is why three attempts suffice for any number of rivals.
* **AddressBook.** `Inv` is the conjunction of `TypesOK` and one invariant for each
  property. `LabelInv` adds to `LabelsFollowReservations` that what a dialog still
  owes a label is what the reservations have become, or came back without one, and
  that nobody else owes it;
  `Saves` is the lemma with what the three saves of a dialog have in common.
  `NameInv` adds the copies: an echo is in `leases` or in `seenLeases` only of a MAC
  whose reservation has a host name or has lost it, or of a lease an admin has saved,
  and both configurations, and those of open dialogs, agree on which those are but
  for the lost ones and those added by hand since. `HolderInv` says that a device which was not evicted holds the
  lease of the address it uses, and that declined leases, also those on the list
  of a clearing loop, are nobody's; as a lease has one MAC, `OneDevicePerAddress`
  follows. `OfferInv` keeps the static records, also those of open dialogs, out of
  the scope they were checked against. The probe only looks (`BookSteps`).
* **Enforcement.** `TypeInv` adds `Progress`: at each position a request has fewer
  results than resolved devices, and a step number exactly while it enforces.
  `FirstFacts` (the first of a set of rows exists, by well-founded induction over
  the positions in `Order`) makes `NextEntry` and `Matching` defined, which
  `TargetsMeant` needs. `LogInv` says that the resolved devices are distinct and that the
  log rows of each are exactly those of the steps it was given so far; without
  distinctness the rows of one turn could pass for those of another. `TruthInv` says
  that what was logged as a success is in force in its layer, or in the case of Kea
  `undone`. From here on a single
  thread is needed: between the step and the answer nobody else may undo it.
  `FlagTellsTheTruth` needs three more facts while only scans fail, collected in
  `WorkInv`: a request acts on devices of its target alone, the rows it has still
  to resolve are as it read them (or were deleted under it), and no log row tells
  of a layer left undone; `ReleaseOf` adds that the release a Delete button waits for
  is about the device of its row. Then `FlagInv` says of every settled device that
  its flag is true and that it is free if a Delete button is about to drop its row, or
  that it is the one whose turn it is: the layers of that one are
  between the two. When it is stamped, `LogInv` says that it was given every step,
  `WorkInv` that each succeeded and `TruthInv` that each is in force.
* **PoolHistory.** `TypeInv` adds to the types that the rows and the loops about to
  insert one are together at most `MaxSamples` and one per loop. `FigureInv` says
  that Kea assigned at least what the counter has gained since each reading, whether
  its row is in the table or not yet: what was gained since a row of age `k` is at most
  `issued[k]`. Rows bound only rows of later ticks and readings in flight, since two
  loops that overlap may insert in another order than they read. `OldestFirst`, an
  invariant too, is what makes the first young row of `Within` select what the
  condition on `sampled_at` selects in the code.
* **The refinements.** `EntryInv` says that client entries exist only beside group
  and regex, so what is visible of the Pi-hole are its entries and each call is
  `Perform`, `Fail`, `Ask` or a stutter of `BlockList`. `GivesUpLast` says that only
  a last attempt leads to the failure row, which is what `RetryCall!GiveUp` asks;
  the other steps follow from a worker's position. In `KeaConfig` a step that raises
  goes on to the next attempt, or gives up, at once; `ClientsMoveAlone` says that no
  other client, and no session, moves a request. This refinement is
  proved only: no run has it among its properties.

Only model-checked: all liveness (`StoppedLoopsExit`, `CallsReturn`, `RequestsEnd`,
`PrecedingDevicesKeepTheirTurn`, `SamplerKeepsPassing`), since the prover handles
neither fairness nor ENABLED; and the violations. Every safety invariant and every
action property of the passing runs is proved. What a recursive
definition computes for all inputs is beyond the prover as well (it cannot
instantiate induction theorems over operators); no module with a theorem has one.

## 5. How properties are guarded against vacuity

For every property of every passing run `PROJECT.json` names a mutant: a
definition that models code and an alternative body with a plausible bug (a
forgotten write, a missing check, an attempt too many), kept beside the original
with a comment `Mutant of …`. With the mutant in place TLC finds the property
violated under the same configuration.

## 6. Where code and comments disagree

Found by runs of their own:

* **A release that timed out is reported as done** (`arp_release`,
  `qs/arp_disrupt.py:90`). `stop_arp_disruption` pops the handle before it joins;
  after the `TimeoutError` the retry finds no handle and succeeds while the
  thread still runs. The docstring means the retry to have something to retry.
* **The Add dialog un-quarantines** (`registry_add`, `ui_quarantine.py:322`): saved
  under a name that is registered it writes the defaults over the row, the flag with
  them, without having read it, while `upsert_device` (`db.py:263-269`) says that
  every call site passes the flag through.
* **A sign-out can be undone by a reload** (`accounts_signout`, `app.py:206`): when
  the cookie component has not answered yet, the deletion is skipped and forgotten.

Departures the models contain, on which the passing properties are conditioned
(each is a behaviour of the module named; no run of its own):

* Two overlapping starts of one device leave two loops (`ArpDisrupt`,
  `qs/arp_disrupt.py:77`); hence `LostLoopsWereOverwritten` and `Alone`.
* The retry wrapper raises when its failure row cannot be written (`ArpDisrupt`,
  `Enforcement`, `qs/retry.py:53`).
* A probe, edit or scan that read its row before a stamp takes the flag back, and
  one that read it before a deletion registers the row again (`DeviceRegistry`,
  `db.py:319-322`); hence `due`.
* The success of a Kea step may be undone by a restart of Kea that fell between its
  set and its write, and a loop that was given up waiting for poisons on beside the
  outcome reported (`Enforcement`, `kea.py:283`, `qs/arp_disrupt.py:90`); hence
  `undone` and `dying`.
* A deny written over a base read before another client's save undoes that save;
  an edit of the reservation of a quarantined device rebuilds it without its
  DROP class; a config-write after a restart of Kea persists the old
  configuration and succeeds; a save that failed has already edited the
  dialog's own copy, and the next press sends the first edit (`KeaConfig`,
  `ui_reservations.py:163-171`, `kea.py:283`); hence `disturbed` and `excused`.
* Whether an entry has a purpose left after a release is judged by its keys, and
  config-get returns all of them: the entry a quarantine made is never "deleted
  entirely rather than left behind as an empty orphan" (`KeaConfig`,
  `qs/kea_deny.py:59-61`, `:98`); hence `filled`. `AddressBook` keeps such entries.
* A reservation and its label are saved one after the other, from a copy as old as
  the dialog: either half may fail, and a save undoes what others saved since
  (`AddressBook`, `ui_reservations.py:129-130`); hence `upset`. A resave drops the
  `hostname` of an entry that was written by hand, and Kea keeps the echo in the
  lease until the next renewal; hence `unmasked`. A hostname added by hand is unknown
  to the dashboard while its copy of the configuration lives, and the Edit dialog of a
  lease saves the echo it was filled with for another MAC; hence `byHand` and `cut`.
  Reservations made by hand or by a quarantine have no label; hence `unlabelled`.
* Wiping or rewriting leases and clearing "declined" addresses from a list that has
  grown old take leases from under devices that use them (`AddressBook`,
  `ui_maintenance.py`, `ui_leases.py`); hence `evicted`. The settings form moves the
  scope over static records without a question; hence `engulfed`.
* The gateway lookup is outside the retries, so a failure there ends the request
  after its Kea step (`Enforcement`, `qs/main.py:147`); `AnsweredMeansEveryStep`
  speaks of requests that answer.
* The address checked may pass to another device before the steps use it, and a
  device that changed MAC or address is released for what it has now
  (`qs/main.py:140`, `:371`); `Enforcement` allows both when `Identities` gives
  a device several leases or devices a common address; `Settled` excludes them.
* A delete during a quarantine finds the flag not set yet, one that has looked is not
  stopped by a flag set before its DELETE, and the Add dialog clears the flag with
  every layer in force (`Enforcement`, `ui_quarantine.py:191`, `:165`, `:322`); hence
  `About` and `abandoned`.
* Two admins who demote one another at the same time leave none (`Accounts`,
  `auth.py:263`); hence `raced`.
* A Pi-hole that dropped a session refuses every later attempt of the request
  (`PiholeBlock`, `pihole.py:96`); hence `upset`.
* A probe that raises, or a Kea that hangs, ends the pass for every device after it
  (`PresenceCheck`, `qs/presence_check.py:76`, `:100`); hence the devices the property
  speaks of and `Undelayed`.
* The "Issued" figure may fall short: after a reset of the counter that later
  assignments have made up for, and while the newest sample is old or was cut off by
  the limit of the fetch (`PoolHistory`, `dashboard_data.py:188`, `db.py:449`); hence
  "never overstates".

## 7. Abstractions

* Time: timeouts and backoffs are choices (a join, a call or an answer may come
  or not); only `PoolHistory` counts time, in ticks, and lets none pass
  between a reading and its row.
* Data: MACs, addresses, names and settings are model values; a timestamp is
  present or absent; passwords match or do not; packets, HTML and log wording
  are left out. Of the spoken summary only whom it names is kept.
* A target is a spelling: a model value of which `Plain` says what normalisation
  leaves. The regular expression itself is not modelled.
* In `AddressBook` a save of the configuration is one action with its outcomes,
  and clearing a cache and loading it again is one step; a lease's end is
  reached at any time, and of its length only whether an admin may have
  shortened it is kept. Kea's choice of an address is modelled as far as the tabs
  rely on it. MACs are values: the code compares them in lower case.
* In `Enforcement` a device whose lease database holds more than one lease at
  a time is possible in the model and excluded by the run's identities.
* `PoolHistory` keeps of a sample its cumulative counter and age. The limit of
  10000 rows of `get_pool_samples` matters below an interval of about 17 s: 48 h at
  the default interval are 576 rows.
* A malformed `POOL_SAMPLE_INTERVAL_SECONDS` raises outside the loop's `try`; the
  model takes the environment to be well-formed.

## 8. Not modelled, and why

* DHCP on and off: one call and a flag of the session.
* Liveness sweep: one bounded fan-out whose threads share nothing; the rest is ARP.
* Dashboard calculations but for the "Issued" figure, lease types, the search of the
  leases, the statistics: pure functions of what was loaded, for display.
* Validation of the settings form: its outcome is an input (`Pools`).
* Documentation browser, styling, rendering of every page: reads and layout.
* Read-only access: a guard and a refusing client; who is an admin is in `Accounts`.
* Service token: one comparison per request.
* Password hashing, nmap's scan and its parsing, scapy's packets: external
  computation whose outcome is an input of the models.

## 9. Plan

Done, in the order of importance: `ArpDisrupt`, `DeviceRegistry`, `KeaConfig`,
`Enforcement` with target matching, `Accounts`, `PiholeBlock`, `PresenceCheck`,
`PoolHistory`, `LeaseViews` and `AddressBook` with its composition with the probe;
the abstract `RetryCall` and `BlockList` with their refinements; proofs of every
safety property of all eight components that have one.

Next:

1. **Refinement**: an abstract atomic "set the DROP class of a MAC" which the
   undisturbed part of `KeaConfig` implements, and an abstract per-device switch
   which a scenario of `Enforcement` without failures implements.
2. **Pure algorithms**, as operators without `RECURSIVE`, each checked against a
   reference definition over bounded inputs: lease types (`helpers.py`),
   utilisation and rates (`dashboard_data.py`), settings validation
   (`ui_settings.py`), bounded sweep (`qs/liveness.py`).
3. **Two threads in `Enforcement`**, a pair of Pi-holes, and the per-session DHCP
   flag.
