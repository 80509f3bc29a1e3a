# The OSCAR cluster tools in TLA+

OSCAR installs and administers a Linux cluster from a head node.  This directory
specifies the part of it that keeps state: the Perl modules of `lib/OSCAR`, the programs of
`bin` and `scripts`, the graphical front ends below `src/src` with the C++ library one of them
brings, and the package scripts that maintain OSCAR's own records.  TLC checks the specifications on small instances; TLAPS proves the most
important properties for all of them.

    tlc -config MCNodeDelete.cfg MCNodeDelete     # one run
    tlapm NodeDeleteProofs.tla                    # one module of proofs

`PROJECT.json` lists the components, the runs with their properties, the source lines of
every definition, the hazards, the findings and the theorems.

## 1. Inventory

OSCAR is a set of programs without a server process of its own.  What they share is on disk,
in many places, each with its own tool:

- **ODA**, a MySQL database reached through `OSCAR::Database`: clients, groups, images,
  packages, package status, the installation mode, the steps of the wizard;
- **SIS**, the database of SystemInstaller and SystemImager: clients, adapters, images
  (`mksimachine`, `mksiimage`, `si_lsimage`, `si_rmimage`);
- **files of the head node**: `/etc/hosts`, `dhcpd.conf`, `c3.conf`, `known_hosts`, the PXE
  files, the configuration of the SystemImager daemons;
- **the images** below `/var/lib/systemimager/images`;
- **rpm databases** of the head node, the images and the clients (through C3's `cexec`);
- **daemons**: dhcpd, rsyncd, flamethrower, bittorrent, the monitors.

No transaction spans two of them.  An operation is a list of external commands; most give up
at the first error, none undoes what it did, and the user tries again.  So the questions are
nearly always the same: which records agree after any prefix of any command list, any
number of retries, a kill or a reboot; and what was read before a callback and used after it.

| component | state | operations | what makes it correct |
|---|---|---|---|
| package install and uninstall (`PackageInUn.pm`) | the `installed` field in ODA; rpms on clients, head node, image | a session removes and installs a set of packages | the record is closed under requirements and only says what was delivered |
| defining and deleting clients (`NodeMgt.pm`, `DelNode.pm`, `post_clients`, scripts of sis and c3) | records in SIS, ODA, PXE, hosts, known_hosts, c3.conf, dhcpd.conf; services | define, deploy, delete, post_clients | a deletion reported done is complete; others keep their entries |
| wizard (`oscar_wizard`, `AddNode.pm`) | the reached steps in ODA, a copy of them, buttons, a client list fetched once | sessions in install or manage mode, windows with callbacks | steps open in order; the screen is what was recorded; every client is grouped |
| MAC addresses and DHCP (`GUI_MAC.pm`, `MAC.pm`, `update_live_macs`) | adapters in SIS, `%MAC`, the list, tcpdump, ping, dhcpd | collect, load, assign, clear, dynamic DHCP | a card belongs to one client; dhcpd serves what SIS says; no process is left behind |
| installation mode (`MAC.pm`, `SystemServices.pm`, `CLI_MAC.pm`) | which daemons run and are enabled, the mode in ODA | enable one of three modes | one transport; the recorded mode is the served one |
| images (`ImageMgt.pm`, `build_oscar_image_cli`, `oscar_image_cleanup`) | ODA, SystemImager, disk, bind mounts | build, replace, delete, clean up | a built image stays complete; the head node's own files survive |
| prerequisites, bootstrap, start over (`Bootstrap.pm`, `Startover.pm`, `Prereqs.pm`) | prerequisites, ODA, core packages, URL files | init_server, start over | start over undoes what bootstrap did; a stage only follows a finished one |
| server preparation (`install_server`, `Network.pm`) | server packages, `/etc/hosts`, exports, rsync stubs | install_server, update_hosts | nothing entered later is lost; what is recorded was set up |
| wizard lock (`oscar_wizard`) | one lock file | take, break, release, refuse | wizards started one after the other never work together; a lock that is left over keeps nobody out for good |
| repository manager (`src/ORM`) | a window, a thread with its parameters, events between them, popups | select and add a repository, run opd2, show its answer | the packages shown are those asked for last; popups close; no unsupported query |
| process streams (`pstream.h`) | pipes, buffers, pid and status of a child process | open, read, put back, write, sync, peof, kill, close | no character lost, doubled or moved; nothing left after close; close comes back |
| package downloader (`src/Opder`, opd) | two processes of opd, timers, a table, four forms | refresh, cancel, add repositories, check, download | an answer belongs to the question; a timer ends nothing it was not set for |
| node management window (`src/NodeMgmt`) | two lists of addresses, a table of nodes, the used addresses, ODA | collect, import, move, define, assign, undo | an address is in one place; names are distinct; ODA is what is shown |
| configuration files (`FileUtils.pm`, `ConfigFile.pm`) | lines of a file | add, remove, replace lines and blocks | idempotent, the rest of the file untouched |
| C3 configuration (`c3config`) | `c3.conf` and its backup | add, delete, rename clusters and nodes | read and write are inverse |
| package selection (`Selector`, sets of packages and machines) | selected packages | select, unselect; the closures have no caller | what is written is what was checked |
| versions (`VersionParser.pm`, `CmpVersions.pm`, `PackageBest.pm`) | none | compare, choose | an order; the best is the greatest |
| repositories, package descriptions, boot set-up, partitions, tests, monitoring, package scripts, command-line menus, detection, environment, Qt front ends, installation | see `PROJECT.json` | | not planned or planned last, with the reason there |

How they interact: the wizard calls everything, directly or through windows whose buttons call
back into it; `post_clients` is run by the definition and by the deletion of clients and calls
the scripts of the packages; deletion, the network window and the installation mode all drive
dhcpd and the SystemImager daemons; the network window writes the adapters that
`update_live_macs`, started from a shell, writes as well; images are built by a program with
signal handlers while a cleanup started from another shell removes what looks corrupted.  The Qt windows are programs of their own: each runs another program
(opd, opd2, mac_collector) and takes its output line by line or as one event when it has ended,
while the user goes on.

The behaviours that are hard, and where they bite, are the entries of `hazards` in
`PROJECT.json`.  In short:

- **failure of one step of several** everywhere; the same operation is then retried from a
  state nobody wrote a test for;
- **stale copies**: the wizard's step record and client list, `%MAC`, the cleanup's picture of
  the images, c3.conf and ODA rebuilt from a database that deletion does not touch;
- **callbacks in any order**: the event loop runs between two packets of tcpdump and wherever a
  handler updates its window, in the middle of what it does; windows of the wizard stay open while
  other steps are taken;
- **two programs on one record**: `update_live_macs` and the window, cleanup and build;
- **answers of a process** that arrive after the question was withdrawn, after the next one was
  asked, or after the process was told to stop; timers set for one and firing for another;
- **a thread** that reads what the window writes without a lock;
- **blocking on a child** that may itself wait;
- **kills and reboots** between two commands: mounts left in an image, daemons that run but
  are not enabled;
- **opposite return conventions** in functions of one file.

`hazards` has those of the modelled components; what is known of the others is in section 6.

## 2. Modules

| module | of | state | actions |
|---|---|---|---|
| `PackageInUn` | `PackageInUn.pm` | `installed`; `clients`, `server`, `image`; the session's `toRemove`, `toInstall`, `pkg`, `pc` | a session, each package's dependency test, each command on clients, head node and image, the record; `Die`, `Reimage` |
| `NodeDelete` | `NodeMgt.pm`, `DelNode.pm`, `post_clients`, `api-post-clientdef` of sis and c3 | one set of clients per record, services, `sel`, `op`, `pc`, `outcome`; the history `undeleted` | `mksimachine`, `deploy`, the three steps of post_clients, the commands of `delete_clients` and `delnodes` in the order of the code |
| `OscarWizard` | `oscar_wizard`, `AddNode.pm` | ODA: `wizard`, `manage`, clients, groups, `status`; the session: copies, `buttons`, `normal`, `client_nodes`, `windows` | start and quit, one action per button and per callback |
| `MacTable` | `GUI_MAC.pm`, `MAC.pm`, `update_live_macs` | SIS `mac`; `MAC`, `order`, `listbox`, `window`, `COLLECT`, `ping`, `dyndhcp`; `moved`: dhcpd is behind; `suspended`: the stack of handlers that wait for the window; the history `doubtful` | one action per button, or per half of one that updates the window in between; a packet, the end of the loop, update_live_macs |
| `InstallMode` | `MAC.pm`, `GUI_MAC.pm`, `CLI_MAC.pm`, `SystemServices.pm` | `installed`, `running`, `enabled`, `recorded`; the session's `install_mode`, `ui`, `phase` | one action per command of `__enable_install_mode`; `Kill`, `Reboot` |
| `TransportSwitch` | nothing: the abstract specification InstallMode implements | the transports, the adopted mode | touch, withdraw, deliver, adopt, reboot |
| `ImageStore` | `ImageMgt.pm`, `build_oscar_image_cli`, `oscar_image_cleanup` | `at`: places of each image; `bound` mounts; the builder's `pc`, `img`, `deletes`; the cleanup's `todo`, `force` | each step of the build with its failure, the signal handler, SIGKILL, each case of the cleanup, reboot |
| `WizardLock` | `oscar_wizard` from the lock file to END | the file, where each process is, what it read, who has the file open | each step of a start, Quit, END, Kill, Restart; other programs; the user removing the file |
| `Orm` | `ORM_MainGUI.cpp`, `CommandExecutionThread.cpp`, `ORM_WaitDialog.cpp` | the lists and the selection, popups, connections, `mode` and `repo_url`, the thread, the queue of events | one action per slot, each read of the thread, the answers of opd2 |
| `PStream` | `redi::basic_pstreambuf` of `pstream.h` | descriptors, the put area, two get areas of which one is active, pid and error; pipes, the child, a second child | one action per function and branch of it, the steps of the child, interrupted system calls |
| `Opder` | `Opder.ui.h`, `OpderDownloadInfo.ui.h`, `OpderDownloadPackage.ui.h`, `OpderAddRepository.ui.h`, `OpderTable.pm` | the forms, two processes with their phase and pending timers, repositories to read, packages read, the table, check marks | one action per slot, per timer, per end of a process |
| `NodeMgmt` | `NodeMgmtDialog.ui.h`, `NodeSettingsDialog.ui.h` | the lists, the table, `%usedmacs`, ODA, the collector and its lines, the settings and their undo point | one action per slot, a line of mac_collector, its end |

An action is what the code does between two points at which it can fail, be killed, or let
another actor run.  Steps that end in an external command have the command's outcomes: success,
failure, and failure on some of the nodes where the command runs on all of them.  Names of
definitions are those of the functions.  Definitions marked external in the map stand for the
programs named there and are modelled from how OSCAR calls them and reads their result.  `MCx`
instantiates `x` for TLC and `xProofs` holds its theorems.  Definitions marked as mutants in a
comment are not used by the specifications: each is a wrong version of the definition below
it, and shows that a property depends on that definition.

Three modules of proofs serve two components each: `OscarWizardProofs` is about the wizard and about
its lock, `MacTableProofs` about both windows that keep a table of addresses, the wizard's and the node
management window, `PackageInUnProofs` about getting opkgs and installing them (`Opder`).  The modules
that are proved together therefore have names of their own for the usual definitions: `LockSpec` and
`LockTypeOK`, `MgmtSpec` and `MgmtTypeOK`, `OpderSpec` and `OpderTypeOK`.

### What the models assume of their surroundings

- Callbacks of Perl/Tk run one at a time, and only when the code returns to the event loop or
  waits in it or calls `update`.  The network window does the last wherever a handler fills the list
  (`regenerate_listbox`, `GUI_MAC.pm:658`), frees the window (`Unbusy`) and between two packets.  `MacTable`
  has such a handler in two actions and keeps what it still has to do in `suspended`; any other
  callback of an open window may run in between, to its end or to its own update.  The handlers below go on when
  those above them have returned.  Invoking a disabled button does nothing.
- `OscarWizard` has one session at a time and lets every window be left open.  `WizardLock` shows
  how far that is so: sessions started one after the other are kept apart.
- `WizardLock`: opening and reading the lock file is one step; signals end a program at once; the
  user looks at the file before removing it.
- `NodeDelete`: a client reported deleted is not installed again; no reboot of the head node
  during a deletion.  The names of clients matter where the code uses them as patterns, which
  is the constant `Occurs`: any relation with each name in itself.  A boot file may survive a successful deletion, since nobody
  looks at what unlink returns (`NodeMgt.pm:200`); a defined client may be left out of known_hosts,
  without an adapter (`post_clients:132`) or by a failing echo or cat (137, 138).
- `ImageStore`: `delete_image` is one step with each of its partial outcomes; an image with
  something mounted in it loses its files, and so does the head node.  Both are recorded (`wiped`).
- `MacTable`: an address is a card and the case it is written in, which is all that tells two
  spellings apart; the server's own card and the null address are filtered where they are read.
- Qt runs one slot at a time; a slot that emits a signal runs the slots connected to it at once, in
  the middle of its own (`Orm`'s `kill_popup`).  A modal window takes the input of its parent; the
  forms of `Opder` and `NodeMgmt` are not modal.
- `Orm`: `run` reads `mode` and `repo_url` one after the other, each as it is then; opd2 prints any
  list and ends.
- `PStream`: SIGPIPE is ignored by the program; a call that would block is not enabled, but close()
  and open(file), which wait for the child, block with the child going on; freed memory is `Garbage`.
- `Opder`: opd (`scripts/opd`) prints all the lines of a query, or the line ERROR and nothing else the
  form reads, or nothing: it dies with its message on stderr (225, 281, 293, 296, 372, 581, 606), which
  the form does not read.  Killed, it may have printed any part.  About a package it prints "downloaded",
  "FAILED" or nothing (1317, 1340, 1660), as often as it likes.  The first page of a query is all of it
  (`packages_per_page`, a million).  Timers of 500 ms fire in
  any order with everything else; every package is installable, since `populateTable` uses a row
  whatever it is.  A form that is hidden with the main window gets a hide event, as in the code.
- `NodeMgmt`: the window is opened once, on an ODA without nodes; an item "1" that comes of a typed
  address is `One`.
- `PackageInUn`: there is one image, as in the code; `rpm -Uvh` refuses a package that is there.

## 3. Runs

Each passing run checks the properties of one component.  What TLAPS proves in any case and that is of use
mainly to other proofs (the type invariants of most modules, `ImageOnClients`,
`LeftoversCanBeSelected`, `OutputDroppedAtTheEnd`) is not checked a second time.  No model needs a state constraint:
the bounds are constants, and what they bound is in the guards.  Sessions, retries, failures, kills
and reboots are unlimited; only queues of events, stacks of handlers (`Nestings`), histories that grow
(`MaxDoubtful`) and the actions that make a state larger (nodes, connections, calls of open, forms
shown) are bounded.  Deadlock is checked except where the program may stop: in `mac_table`, where a
window destroyed during a collection leaves a wizard in which nothing can be done, and in the runs of the
Qt windows and of the process stream, which may be closed.

| run | instance | checked | shows |
|---|---|---|---|
| `package_in_un` | 2 clients, 4 opkgs: one per way of listing rpms (for both kinds of machine, only as files, for all, found nowhere), one requirement | `RecordClosed`, `RecordedOnlyDelivered`, `WedgedUntilReimaged` | the dependency tests made at the start of a package still hold when its record changes; a new record means delivered; an installation that stops between clients and image can be neither completed nor removed until the client is reinstalled |
| `node_delete` | 2 clients, the name of one within that of the other (`node1`, `node10`) | `DeletionComplete`, `RecordsGoLast`, `OthersKeepHosts` | what a reported deletion has removed although post_clients wrote some of it again; that a record goes after services and boot files; that other clients lose an entry to a name within their own and to nothing else |
| `wizard` | 2 clients | `StepsInOrder`, `ScreenIsRecorded`, `StatusOnlyInGroup` | the order of the steps over sessions of both modes and copies of any age |
| `mac_table` | 2 clients, 2 cards, each in two spellings; at most two suspended handlers, one of them an assignment, and one doubtful card | `NoSharedCard`, `PingEnds`, `MovedIsServed` | which three things can make two clients share a card, and that it is then the card they happened to; dhcpd follows every change, over handlers inside one another; which window alone leaves its ping running |
| `install_mode` | the three modes of the code | `OneTransport`, `RecordedIsServed`, `ImplementsSwitch` | broken-off attempts never leave two transports, a recorded mode is served over reboots, and every step is one of `TransportSwitch` |
| `image_store` | 2 images, interchangeable | `BuiltStaysGood`, `CleanupResolves`, `HostFilesSafe` | what is reported as built stays in all three places; a forced cleanup leaves no class of remains behind; nobody deletes an image the head node is mounted in |
| `wizard_lock` | 4 process ids, interchangeable | `LockTypeOK`, `AloneUnlessRaced`, `LeftoversAreAbandoned`, `DiesOnce` | wizards work side by side only if two were starting at once; a file that is left over was left by a killed wizard; an unreadable one stops one wizard, not two |
| `orm` | 2 repositories, 2 clicks on "Add repo", 2 events waiting | `ExitsOnlyWhenOverlapped`, `ShowsWhatWasAsked`, `LonePopupCloses` | the thread gives up only when another query was begun while it ran; the last query decides what is shown; the popup of a query that nothing disturbed closes |
| `pstream` | buffers of 2 with 1 for putback, pipes of 2, 3 characters each way, 2 opens, 4 modes | `TypeOK`, `ClosedIsClean`, `InputInOrder`, `OutputInOrder`, `PutbackKept`, `CloseComesBack` | nothing is left of a process that is gone; both directions are in order and complete, putback, exchange of the sources and failed writes included; close() returns |
| `opder` | 2 repositories with a package each, 3 shows of the working forms, 1 of the form for repositories | `OpderTypeOK`, `StalledOnlyIfAway`, `TableIsTheAnswer`, `TimersSpareDownloads`, `RequestsEnd` | the table has what the refresh asked for, all that opd printed of it; which timers can end a download they were not set for, and which histories leave one waiting for nothing; that both end |
| `node_mgmt` | 3 addresses, 2 nodes, 2 lines of the collector waiting, one number typed, one edit, one address typed | `MgmtTypeOK`, `AddressesHaveAPlace`, `TableIsOda`, `HeardIsKept` | no address is doubled or lost between lists and table; names and ODA agree; lines printed after "Stop" are kept |

Two clients, cards or images are enough for these questions: one that an operation is about and
one that it should not touch, or two that compete.  Commands that run on several nodes fail on
every subset.  Two spellings are all `uc` and `lc` can make.
In `mac_table` one handler may run inside the one that is suspended, and inside
both any that does not wait for the window itself: a collection and an assignment, an assignment and what takes its address away,
a deletion and what changes dhcpd's setting are such pairs.  One doubtful card out of two leaves the other
one to be shared wrongly; the run has two million states.
For the lock three wizards are needed (one that dies, one that starts, one that finds the lock
gone) and an id for another program.  In `orm` the second connection is what makes one OK run the
slot twice, and two events are an answer and an overtaken one.  `pstream` has the code's
arrangement at a smaller scale: buffers of 2 with 1 for putback instead of 32 with 2, so that a
refill moves, drops and keeps characters within three of them; a pipe holds a whole buffer, as
`SizesAssumption` demands and as every system does.  In `opder` the third show is a refresh or
a download that begins while timers of the two before are pending.  In `node_mgmt` two addresses
fill the nodes and the third is what is left over.  Where a property is also a
theorem (section 5) the bound does not matter.

Properties with a condition name what makes them false otherwise, which is then part of what
they say.  `NoSharedCard` names the cards that may be shared (`doubtful`): one whose database write failed,
one `update_live_macs` found at another client, one given away or removed while a suspended
assignment was about to give it.  All three do happen to the code, and each only to its own card.  `PingEnds` excepts the
window that was destroyed during a collection, which does leave the ping (`GUI_MAC.pm:322`); `MovedIsServed` a window with a
suspended handler that is going to configure dhcpd, and one that is left busy because it could not.  `DeletionComplete`
and `RecordsGoLast` except the boot files this deletion tried to unlink in vain (`undeleted`), `OthersKeepHosts` the names
that contain a deleted client's.  `BuiltStaysGood` and
`HostFilesSafe` except for images the cleanup looked at while they were built or could not list
(`raced`), and, for the second, mounts left by a failing umount or by SIGKILL (`leftbound`);
`CleanupResolves` for a cleanup that nothing disturbed (`settled`); `AloneUnlessRaced` and
`DiesOnce` until two wizards were starting at once (`raced`); `LonePopupCloses` for a popup opened
when nothing was going on (`alone`), `ShowsWhatWasAsked` when the last query found the thread idle
and had an answer (`fresh`); `OutputInOrder` and `PutbackKept` unless the stream was reopened after
`read_err()` (`carried`, see below); `CloseComesBack` unless another child holds the pipe, or each
side is blocked in writing to the other (`jammed`); `TimersSpareDownloads` for the timers that an earlier
download had set and that were pending when this one began (`staleHides`, `staleKills`): they do hide its form and kill its
process.  `TableIsTheAnswer` names the repositories whose answer is lost because opd had not printed all when it ended
(`missed`), and those a cancelled refresh left in the hash (`leftover`); what the process of a cancelled refresh prints is
never taken for an answer.  `StalledOnlyIfAway` holds if opd started (`dlFailed`) and the window was not minimized meanwhile
(`away`); "not lost" in `AddressesHaveAPlace` until the list was cleared;
`TableIsOda` until a number or IP was typed (`renumbered`).

### What the code does not do as it says

One run checks a sentence of the repository that the code contradicts.

| run | sentence | what happens |
|---|---|---|
| `orm_patient` | "we also need to close the dialog that asks to user to wait" (`ORM_MainGUI.cpp:86`) | with a user who does one thing at a time a popup still stays open for good: filling the list of repositories takes the selection away, which opens another popup, and that one is closed (126); and accepted() is connected again at every click on the button (150) |

The passing runs have other differences in them, each modelled as the code is.

Packages, clients and the wizard:

- "If the installation was successful, set the 'installed' flag" (`PackageInUn.pm:326`): the call at
  line 336 is the one that clears it.  An opkg whose rpms are listed for `all` only is recorded
  although nothing was installed (1212).
- "We delete the clients from the Database and SIS" (`NodeMgt.pm:278`): the SIS part is commented out
  (286), and the next `post_clients` copies the client from SIS to ODA again.  Services are restarted
  on clients that were just deleted (362); the result of `post_install` is checked although line 312
  says it is not; deleting `node1` takes `node10` out of `/etc/hosts` as well (`DelNode.pm:174`),
  which `OthersKeepHosts` allows and nothing beyond it.  A boot file that cannot be unlinked is reported as removed
  (`NodeMgt.pm:200`), a client without an adapter as known (`post_clients:132`).
- The list of clients is only fetched when it is empty (`oscar_wizard:900`): clients of a second round
  get neither group nor status.  In manage mode `$step_number` is undefined and `postaddclients`
  returns at once (829), so that these clients never see the post_clients phase, which `Package.pm:102`
  promises after "Define OSCAR Clients".  The image window opens the definition of clients before an
  image is built (713).
- The lock file may be empty or gone when it is read (`oscar_wizard:184`); `kill 0` then dies with
  "Can't kill a non-numeric process ID".  The debug button "Restart" (531) runs the program without
  the argument it demands and leaves the lock behind.

Network and images:

- "Need to Enable Install Mode first" (`CLI_MAC.pm:231`): the result of the function is read the wrong
  way round (217), so that dhcpd can be set up exactly after a failed attempt.  A multicast or BitTorrent
  mode without a configuration file is recorded as enabled (`MAC.pm:865`).  An address written in lower
  case by `update_live_macs` is never offered again once cleared.  A handler that fills the list lets the user press
  any button before it has finished (`GUI_MAC.pm:658`): the address it is assigning may be given to another client
  meanwhile, which then shares it.  The window manager's close button does nothing but invoke a button that is disabled during a
  collection: the ping goes on, and the main window stays busy (322).
- "1 if success, 0 else" (`ImageMgt.pm:142`): a failing `ssh_install` returns 1 (174), no scripts run and
  the image is reported as built.  A handler is installed for SIGKILL (191), the result of umount
  is ignored (286), and `image_exists` returns -1 on error, which is true (821).

The Qt programs:

- `pstream.h`: close() returns NULL, for an error, when sync() has already waited for a child that
  ended well (1280, 1290, 1298).  `error_` is never reset, and fork refuses after one call that was
  interrupted (1183).  showmanyc() counts from eback() and not from gptr() (1664).  A stream reopened
  after `read_err()` starts with a saved get area into a buffer that was freed (`rbufstate_`).
- Opder: a download that the user lets "try to finish with the window minimized"
  (`OpderDownloadPackage.ui.h:78`) finishes, but hides a form that is hidden already, so that nothing
  resets `$dlPhase`; the next one waits for a process that nobody starts until it is cancelled
  (`StalledOnlyIfAway` has the condition `away` for that).  opd writes most of its errors to stderr, which no form reads:
  a refresh then shows an empty table without a word, and a package opd says nothing about is asked for again without
  end (`OpderDownloadPackage.ui.h:222`).  A refresh of typed repositories only, with none typed, starts no process and
  stays on the screen.  A refresh kills, 500 ms after it was cancelled, whatever
  process runs by then (`OpderDownloadInfo.ui.h:83`).  Two repositories the user types have one name, so that
  of two packages with the same name the wrong row is unchecked after a download.  The button stays
  enabled when a download has unchecked every row.
- NodeMgmt: clearing the list removes its first line only, because of the precedence of an operator, and
  the addresses stay used (`NodeMgmtDialog.ui.h:292`); a typed address is inserted as "1" (239); the
  number of nodes is not read from ODA (12); the settings dialog's interface is called on its
  class (328); the last byte of the IP address goes beyond 255 (347).  Lines that are heard after "Stop"
  wait for the next collection.

## 4. Liveness

Three specifications have fairness conditions, for what a scheduler, an event loop or a process does
by itself.  Nothing is assumed of the user, and nothing of failures.

| module | fairness | justified by | properties |
|---|---|---|---|
| `Orm` | weak, of the window's own steps and of the thread | Qt serves queued events and the slots of an emitted signal; the thread is scheduled; opd2 ends | `LonePopupCloses` (holds), `PopupsClose` (does not) |
| `PStream` | weak, of a close() or open() in progress, of exec in the child, and of a child that is a filter: it reads its input, completes a write that can go on, and exits at the end of its input | the kernel; the kind of child close() is written for ("close pipes before wait() so child gets EOF/SIGPIPE", 1294) | `CloseComesBack` |
| `Opder` | weak, of the end of every process of opd and of the timers that hide the forms | processes end, killed or not, and timers fire; nothing is assumed of what opd prints, nor of the timers that kill | `RequestsEnd` |

`CloseComesBack` has as its alternatives the two cases in which it is false: another child of the
program that inherited the pipe, and both sides blocked in writing.  `RequestsEnd` has three, each of
which really goes on for ever: a refresh for which nothing runs (opd could not be started, or the user wants the typed
repositories only and has typed none), a download that is `Stalled`, and an opd that from some point on never says
anything about the package.  The other modules have no fairness: what must "eventually happen" there depends
on a person pressing a button or on an external command, for which the code gives no guarantee.

## 5. Proofs

Eight modules of proofs, all checked to the last leaf.  They assume the named ASSUMEs of the
modules, no more: no repository is the empty line (`ItemsAssumption`), buffers have room besides the
putback part and fit in a pipe (`SizesAssumption`), NULL and the marks for foreign and freed
characters are none of the values, nor are "no file" and "an empty file" process ids (`ValuesAssumption`),
the item "1" and the blank cell of the table are no addresses (`EntriesAssumption`), the six sample addresses
the node management window starts with are different ones (`SamplesAssumption`, `NodeMgmtDialog.ui.h:67-78`), the repositories offer
finitely many packages, all in all (`RowsAssumption`: a download numbers the checked ones), streams are opened for some of the three pipes
(`ModesAssumption`), bounds are numbers (`BoundsAssumption`), requirements are pairs of packages (`RequiresAssumption`), rpm lists are for
groups (`RpmsAssumption`), a name occurs in itself (`OccursAssumption`), the bound on doubtful cards is a number
(`MaxDoubtfulAssumption`), and the values for
"none" are not values of the set (`NoPackageAssumption`, `NoMacAssumption`, `NoImageAssumption`).
Otherwise sets of clients, opkgs, cards and images are arbitrary, infinite ones included.

| theorem | states | argument |
|---|---|---|
| `PackageInUnProofs!RecordStaysClosed` | `RecordClosed` | not inductive alone: the tests precede the record by many commands.  `RecordInv` adds `TestsStillHold`: while a package is on its way, what was tested when its turn came is still so, since only one package is on its way and a session changes no other record |
| `PackageInUnProofs!ImageStaysBehindClients`, `RecordedAreDelivered` | `ImageOnClients`, `RecordedOnlyDelivered` | `DeliveryInv` adds `OnTheWay`: what the clients and the head node already have of the package at each command of its sequence |
| `PackageInUnProofs!WedgedForGood` | `WedgedUntilReimaged` | from the types alone: the tests at the start of each sequence refuse a wedged package (`MissingFromImage`), rpm refuses its clients, and other packages move other rpms (`OnlyItsOwnRpms`) |
| `PackageInUnProofs!NoOtherDownloadStalls` | `StalledOnlyIfAway` | `WaitInv`: a download whose process does not run has the timer pending that hides its form (`WillHide`), and a hidden form ends its download unless the window was minimized (`HasForm`) |
| `PackageInUnProofs!TimersEndTheirOwn` | `TimersSpareDownloads` | the same invariant: before its last package a download has no pending timers, to hide or to kill, but those set before it began (`NoTimer`) |
| `PackageInUnProofs!TableAnswersRefresh` | `TableIsTheAnswer` | `AnswerInv`: each repository asked about is still to be listed, still to be read, being read, already completely among the packages, or `missed` (`NothingMissed`), and nothing else is but what a cancelled refresh left (`NothingElse`) |
| `NodeDeleteProofs!DeletionIsComplete`, `RecordsAreLast` | `DeletionComplete`, `RecordsGoLast` | `Progress`: what each command has established and every later one keeps (`AfterStop`, `AfterPxe`, `AfterRestart`, `AfterKeygen`); post_clients, in the middle, breaks some of it and only what comes after counts; of boot files that the ones left are those `undeleted` names |
| `NodeDeleteProofs!LeftoversAreInSIS` | `LeftoversCanBeSelected` | inductive with `TypeOK`: every record is rebuilt from SIS, which only grows |
| `NodeDeleteProofs!OthersAreKept` | `OthersKeepHosts`, for any names | with the clients being removed in the last step among the reported ones |
| `OscarWizardProofs!StatusIsInGroup` | `StatusOnlyInGroup` | inductive: a status is written with the group, or for clients taken from it; the copy of the client list may be of any age |
| `OscarWizardProofs!StepsStayInOrder`, `ScreenStaysRecorded` | `StepsInOrder`, `ScreenIsRecorded` | `SessionInv`: what the screen offers and an open window allows follows from the record, whatever the age of the session's copy |
| `OscarWizardProofs!LockKeepsApart` | `AloneUnlessRaced` | `LockHeld`: without a race one process at a time is between test and write; the file holds the id of the wizard that works, and whoever else is on its way has read that id or is about to |
| `OscarWizardProofs!LastWizardUnlocks` | `LeftoversAreAbandoned` | `LockOwned`: a file that was not abandoned has a wizard that will unlink it |
| `OscarWizardProofs!UnreadableLockStopsOne` | `DiesOnce` | `LockBroken`: after a wizard has died of the file, the file is gone, or somebody is about to replace or unlink it |
| `MacTableProofs!CardsAreNotShared` | `NoSharedCard` | `CardsInv`, a statement about each card that is not doubtful (`CardInv`): at most one client has it, the key of a client's address is marked as taken, of the two spellings at most one is a free key, and a suspended assignment that promises it is the only one and nobody has it; one lemma per operation on the table |
| `MacTableProofs!PingIsEnded` | `PingEnds` | `PingInv`: a ping has a window, or the collection of a dead one |
| `MacTableProofs!MovedClientsAreServed` | `MovedIsServed` | `MovedInv`: nothing has moved while the update is switched off; what changes an address puts a handler on the stack that will configure dhcpd, and what takes one off configures it, leaves the window busy, or finds the update off |
| `MacTableProofs!AddressesKeepTheirPlace` | `AddressesHaveAPlace` | counting places is not a form to reason in: `PlacedInv` says that each of the two lists and the table's column names an address once, that no two of them share one, and that exactly the used ones are in them; lemmas on appending to, removing from, joining and overwriting in such lists, and on `inOrder`, which enumerates rows from the top.  That an enumeration in increasing order has no gap rests on `LeastNumber`, the least-number principle, from the library's well-founded minimum |
| `MacTableProofs!TableStaysOda` | `TableIsOda` | `NumbersInv`: until a number is typed, every row and every node of ODA is numbered below the undo point, which is what Cancel goes back to, so that the next node is a new one |
| `MacTableProofs!HeardLinesAreKept` | `HeardIsKept` | one step per action: only reading takes lines, and it marks what it takes as used |
| `InstallModeProofs!NeverTwoTransports`, `RecordedStaysServed` | `OneTransport`, `RecordedIsServed` | `ModeInv`: which daemons can run or be enabled at each command of an attempt (`Progress`), and that a settled mode is served now and after a reboot |
| `InstallModeProofs!InstallModeIsASwitch` | `ImplementsSwitch` | `InitMaps`, and `NextMaps` under that invariant: a command is a step of the switch or a stutter |
| `InstallModeProofs!SwitchKeepsItsPromise` | the abstract switch's own invariants | inductive |
| `ImageStoreProofs!HostFilesAreSafe` | `HostFilesSafe` | `Mounted`: file systems are mounted only in the image whose scripts run, or left behind; an image being built is either unseen by the cleanup or `raced` |
| `ImageStoreProofs!BuiltImagesStay` | `BuiltStaysGood` | `Kept` with `Placed`: the places a build has filled at each of its steps, and that the cleanup's list has no good image that is not `raced` |
| `ImageStoreProofs!CleanupIsThorough` | `CleanupResolves` | `Undisturbed`: the cleanup's picture of each image on its list is right, and the images off the list are of a class it may leave |
| `OrmProofs!ExitsAreOverlaps` | `ExitsOnlyWhenOverlapped` | `ExitInv`: between its two readings the thread only finds another mode when a popup was opened meanwhile |
| `OrmProofs!LastAnswerIsShown` | `ShowsWhatWasAsked` | `FreshInv` follows the last query from the parameters to the command line of opd2, to the last event of the queue, to the list |
| `PStreamProofs!ClosedStreamsAreClean` | `ClosedIsClean` | `CleanInv`: which descriptors, buffers and child each phase of open() and close() has left, over every failure and interruption |
| `PStreamProofs!NothingUnreadIsDropped` | `OutputDroppedAtTheEnd` | one step per action |
| `PStreamProofs!InputIsInOrder` | `InputInOrder` | `OrderInv`: received, pipe and put area together are 1, 2, 3, ...; lemmas on cutting and joining such sequences |
| `PStreamProofs!OutputIsInOrder` | `OutputInOrder` | `ReadInv` (`ReadOk` of each source): the characters of the active area are those at its position in what the child has written, the saved area's likewise, and what is kept for putback precedes them |
| `PStreamProofs!TakenCanBePutBack` | `PutbackKept` | the same invariant: how far an area reaches back follows from what was taken since it was filled |
| `TypeCorrect` in every module of proofs, `LockTypeCorrect`, `MgmtTypeCorrect`, `OpderTypeCorrect` | `TypeOK`, `LockTypeOK`, `MgmtTypeOK`, `OpderTypeOK` | one step per action; the invariants above rest on it.  PStream's is not inductive alone: `TypeInv` adds that the pointers of both areas are ordered, that a living area has a buffer, and that a saved area of an earlier process is a dead one.  Opder's neither: `OpderTyped` adds that a form on the screen has not yet started the timers it will start, so that there are never more of them than times it was opened |

With these, every invariant and every action property of the passing runs is a theorem.  Only
model-checked is liveness: `LonePopupCloses`, `CloseComesBack`, `RequestsEnd`.  Beyond the prover are liveness and ENABLED,
induction over data, and RECURSIVE operators; none of the modules has one.

## 6. Plan

Done: the core (package installation, definition and deletion, the wizard, the network window, the
installation mode, images), the lock, and the Qt programs with state of their own.  Left, in this
order, with the hazards that are known there:

1. `Prereqs`: the stages of `Bootstrap.pm` against those of `Startover.pm`.  `install_prereq --status`
   exits with 1 for installed prerequisites and 0 for missing ones; `Startover.pm:63` takes it the
   other way round, removes none and reports success; every other status, its own errors included,
   counts as installed (`Bootstrap.pm:176`).
2. `ServerPrep`: `install_server`, whose record in ODA comes before the scripts that may fail (155);
   `update_hosts`, which starts from the backup made before OSCAR's first edit and drops every client
   entered since (`Network.pm:362`); `server-post-install` of sis, which dies in the middle (74).
   To be composed with the `/etc/hosts` of `NodeDelete`.
3. The rest of the network window: a window closed during a collection leaves the main one busy
   (`GUI_MAC.pm:322`), what `setup_dhcpd` returns is ignored (542), the menu of `CLI_MAC.pm` reads
   commands from a file and asks again and again (371); `cleanup_clients` looks for a name in a
   list of records and removes the autoinstall script of every client SIS does not know
   (`ClientMgt.pm:118`).
4. `C3Conf`: the parser and the writer of c3.conf as inverse functions; the in-place write and the
   backup that the next run overwrites with what a kill has left (`c3config:503`).
5. `FileBlocks` and `Versions`: pure definitions (lines and blocks of a file, comparison of versions,
   the best package, sets of packages and machines) against reference definitions, in one run.
6. An abstract specification of deletion, and of the image store as a store with build and delete.
7. Proofs of what is added above.  No invariant and no action property of the present runs is left.

## 7. Not modelled

`PROJECT.json` has every component with its reason.  In groups: pure text, menus, logging and
environment; detection of the distribution; one-shot installation of OSCAR itself; the scripts
of third-party packages except where they keep OSCAR's records; partitions and virtual machines,
which only deprecated command-line tools reach; and code without a caller (`NextIp.pm`,
`SISBuildSetup.pm`, `add_clients`, `update_list_alive_nodes`).  Of the Qt programs: the Selector, whose
closures over requirements have no caller and whose lists of them are always empty, because the
reading is commented out; NodeGroupLister, whose buttons are empty or return before they do anything; the Installer,
which runs the others; `Opder.pl`, a beginning.

Inside the modelled components: the test mode and Debian branches of `PackageInUn.pm`; the debug menu of
the wizard but for Restart, and its package windows; boot CD, PXE set-up and address files of the network
window; the contents of the daemons' configuration files; initrd, fstab and export of images; the
stream classes around `basic_pstreambuf` and its REDI_EVISCERATE interface; the cache of opd, its warning on stdout that
it cannot overwrite its list of repositories (`scripts/opd:264`), and the details of a package; sorting, IP addresses and exports of the node management window.
