# Verification of reDistinto: storage, coordinator, scheduler

The program is a distributed key-value store made of four kinds of C processes:
one *coordinator*, several *instances* that keep the values, one *planifier*
(scheduler) and any number of *ESIs* (`src/ise`), each of which runs a script of
GET, SET and STORE sentences. This directory holds TLA+ modules translated from
that code, TLC configurations that check them on small instances, and proofs,
checked by TLAPS, of what holds for every instance.

The repository has no design document: the statements of intent that the modules
quote are comments, log messages, answers to console commands and the comments
of the example scripts.

## Inventory

| Component | State | Operations | Hard behaviour | What makes it correct |
|---|---|---|---|---|
| **Entry table** `instance/storage/entry-table.c` | dictionary key → (index, length); buffer of `max_entries` entries of `entry_size` characters | put (update / place / evict), get, store, remove, load, compact | loops of evictions and moves; overlapping `memmove`; a SET that evicts and then fails; values that shrink | no two keys share an entry, bitmap = entries in use, values whole, loops end, after a compaction no answer "compact" to a SET that evicts nothing |
| **Availability** `storage/availability` | bit per entry | take, free, first fit, "needs compaction" | boundaries of the search | first fit finds a place whenever one exists |
| **Replacement** `storage/replacement` | list of (key, size), head is next victim | add, remove, take, under CIRCULAR, LRU, BSU | sizes kept twice; keys added and removed by several paths | the list is exactly the atomic keys; the victim is the one its algorithm names |
| **Files** `storage/file` | one file per key | save, load, list | truncate, then write: not atomic | a load gives back what was stored |
| **Instance process** `instance.c` | mutex, dump thread, socket | SET, STORE, value of a key, compaction order, dump, start-up | dump between sentences; crash and restart at any step; exit with an error while the dump runs | no file goes back; dumps are snapshots and happen; told to stop, it stops |
| **Coordinator** `coordinator.c`, `handlers.c` | list of instances, key locations, cursor, sockets | GET/SET/STORE, distribution EL/LSU/KE, compaction, questions of the console | sockets shared by threads; an instance that fails in the middle of a sentence and comes back; compaction barrier; stale locations | each ISE gets the answer to its own question; a key lives in one instance; what was stored is found |
| **Planifier: dispatcher** `dispatcher.c`, `fifo.c`, `orchestrator.c`, `planifier_structures.c` | map of ESIs, ready/blocked/finished lists, running and next ESI, queues and owners of resources, the mutex `dispatcher_manager` used as a semaphore | new, ready, run, block, unblock, finish, free | wake-ups lost and spurious; ESIs ended by another thread during their turn; freed memory | one ESI at a time; each ESI in one list; nobody waits for a free resource; a ready ESI runs |
| **Planifier: coordinator thread** `planifier.c` | the above | GET, SET, STORE of a resource | runs against the dispatcher and the console | mutual exclusion on resources |
| **Planifier: ESI threads** `esi_connector.c` | ids | accept, add, give id, notify | ESI in the ready list before it has its id; late notices; counter read after its unlock | distinct ids, no notice lost |
| **Planifier: SJF, SJF with preemption, HRRN** `sjf.c`, `sjf_desalojo.c`, `hrrn.c` | estimates, waiting times | add, block, end, replan | preemption; pointers that go back; a home-made sort | the ESI chosen is the best one; a burst is as long as it was |
| **Planifier: locks** `semaphores.c` | eight mutexes of data, three of rendezvous, four conditions | the order in which every handler locks | nested locks in callers and callees, per algorithm; conditions without a predicate | no thread waits for itself, no circle; a pause stops |
| **Planifier: deadlock search** `orchestrator.c`, `deadlock_cmd.c` | reads queues and owners | walk the wait-for graph | recursion cut by a flag shared by the whole search | reports exactly the ESIs on a circle |
| **Planifier: console** `console/*.c` | pause flag, permission to block | pause, resume, block, unblock, kill, list, status, deadlock | rendezvous with the dispatcher | a command does what it answers |
| **ISE** `ise.c` | script position | run a sentence, retry, abort | disconnection in mid sentence | retries exactly the sentence that blocked |
| **so-commons dictionary** `commons/collections/dictionary.c` | buckets, counts | put, get, remove, clean, and `dictionary_put_posta` | doubles in the middle of a put; null values | a queue of values for each key |
| **commons library** | none | sockets, parsing, lists | none of its own | what the models take as given |

Interactions: an ESI connects to the planifier (which gives it an id) and to the
coordinator. The planifier orders an ESI to run one sentence; the ESI sends the
sentence to the coordinator; the coordinator asks the planifier whether the
resource may be used, and only then an instance; the answer goes back to the
ESI, and the ESI reports it to the planifier, whose dispatcher ends the turn.
So two threads of the planifier work on the same lists within one turn: the one
that answers the coordinator (it blocks and unblocks ESIs) and the dispatcher.
The console and the thread of each new ESI make four.

## Modules

| Module | Models | Extended or instantiated by |
|---|---|---|
| `Availability` | the bitmap; operators on the set of taken entries | `EntryTable` |
| `Replacement` | the list of victims; operators on a sequence | `EntryTable` |
| `EntryTable` | the table: put, store, compact, one action per turn of a loop | `MCEntryTable`, `ReplacementHistory` |
| `ReplacementHistory` | the table with a history of which key counted after which | `MCReplacement`, extended for LRU and by `INSTANCE` for CIRCULAR |
| `KeyValueStore` | abstract: what a table promises | `MCEntryTable`, by `INSTANCE` |
| `Instance` | the process of an instance: start-up, sentences, dump, files, ends | `MCInstance` |
| `Distribution` | EL, LSU and KE: operators on the coordinator's list of instances | `MCDistribution` |
| `Coordinator` | a sentence from the ISE to the planifier, an instance and back; questions of the console; failures | `MCCoordinator` |
| `Planifier` | the scheduler under FIFO, its resources, and the search for deadlocks | `MCPlanifier` |
| `Rafagas` | estimates and the ready list under SJF, SJF_DESALOJO and HRRN | `MCRafagas` |
| `Sincronizacion` | every mutex and condition variable of the planifier | |
| `Dictionary` | the hash table | `MCDictionary` |
| `KeyedQueues` | abstract: what the hash table promises | `MCDictionary`, by `INSTANCE` |
| `MC*` | instances for TLC, histories and refinement mappings | |
| `EntryTable_proofs`, `Distribution_proofs`, `Dictionary_proofs`, `Instance_proofs`, `Rafagas_proofs`, `Planifier_proofs`, `Sincronizacion_proofs`, `Coordinator_proofs` | lemmas and theorems | |

The modules of the planifier cut it three ways, at three grains. `Planifier` has
every list, queue and owner and the steps of every thread under FIFO, several
locks to a step. `Rafagas` has what FIFO does not look at, the bursts, a handler
to a step, and leaves open why an ESI blocks. `Sincronizacion` has every lock as
a step and no lists: where the code looks at a list the program offers every way
on. `EntryTable` is the inside of an instance of `Instance`, which is the inside
of an instance of `Coordinator`; `Coordinator` sees the planifier as answers in
order, OK or blocked, and `Planifier` sees the coordinator as questions.

### The storage (`EntryTable` and what it extends)

| In the model | In the code |
|---|---|
| `entries[k]` | the dictionary's `entry_t`: `index`, and the length of the value |
| `taken` | the bit array of `availability_t`, as the set of bits that are set |
| `data[i]` | the `entry_size` characters of entry `i`: the piece `<<v, j>>` is characters `j*entry_size ..` of value `v` |
| `replacement` | the list of `replacement_t` |
| `pc`, `request`, `start_index` | which loop is running, the arguments of `entry_table_put`, the cursor of `entry_table_compact` |
| `Put` | `entry_table_put` is called (a SET from the socket) |
| `UpdateBigger`, `Update` | `_entry_table_update`, refused or done |
| `PutNeedsCompaction`, `PutFull`, `PutEvicts`, `PutPlaces` | the branches of the `while` of `entry_table_put`, one turn each |
| `Store` | `entry_table_store`, here a use of the key; `Instance` has the file |
| `StartCompaction`, `CompactMoves`, `CompactEnds` | `entry_table_compact`, one turn of its loop each |

The table is used under one mutex, so turns of one operation never interleave
with another operation; what TLC explores is every *sequence* of operations and
what holds between the turns of each. Values are opaque, with a length. No value
is empty: the parser of the scripts demands one, and the assumption
`LengthAssumption` says so. The one way in for an empty value is a file that a
crash cut, and `Instance` has it.

`KeyValueStore` is the abstraction: a map from keys to values, each of which takes
its room of a capacity (`Room` is a set, so that the room in use is a cardinality). It says that a
key keeps its last value until it is given
up, that keys are given up only for a new one that does not fit, that a new key
is refused only when nothing can be given up, and that compaction is invisible.
`KeepsItsPromise` in `MCEntryTable` maps the table to it, reading values off the
*buffer* and not off the dictionary, so a misplaced piece breaks the refinement.
`ReplacementHistory` adds the order in which keys last counted for LRU or CIRCULAR.

### The process of an instance (`Instance`)

| In the model | In the code |
|---|---|
| `table`, `files` | what each key reads, in the table and on the disk |
| `atomic_operation` | the mutex of that name |
| `pc`, `request`, `loading` | where the main thread is in its start-up or its loop, and what it was asked |
| `dump`, `todo` | where `dump_interval` is, and the keys of `entry_table_store_all` it still has to save |
| `saving` | the call of `file_system_save` of each thread: `Truncates`, then the copy (`Stored`, `DumpCopies`) |
| `instance_running` | the flag that `signal_handler` clears |
| `Starts` ... `ReceiveKeysToLoad`, `StartUpFails`, `Load`, `Loaded` | `main` up to the loop |
| `Receive`, `Lock`, `ProcessSet`, `ProcessStore`, `ProcessGet`, `ProcessCompaction`, `Unlock`, `Answer`, `AnswerValue` | the loop of the coordinator's requests |
| `Join`, `ExitGracefully`, `ExitWithError`, `Dies` | the ways the process ends; `Ends` loses the memory and leaves half a file |

`Put` chooses among the outcomes of `entry_table_put` that `EntryTable` allows.
A file half written reads `empty` (zeros) or `mixed`.

### The coordinator (`Coordinator`)

| In the model | In the code |
|---|---|
| `keys_location[k]` | the chain of values of the key in the dictionary: `dictionary_put_posta` appends after a null, see `Dictionary` |
| `keys_mtx` | the mutex of that name, one for all the keys; `Close` and `Inform`, and the console's `AskValue`, keep it while they wait for an answer |
| `socket_id`, `is_available`, `last_instance_selected` | the list of instances and the copy of the last one chosen |
| `requests`, `replies`, `reset` | the sockets of the instances, each connection its own, a word at a time, with resets |
| `asked`, `answers` | the one socket of the planifier |
| `peer`, `registering`, `held`, `stored`, `compact` | the instances' processes |
| `NotifyPlanifier`, `Validation` | `notify_sentence_and_ise_to_planifier`, `process_sentence` |
| `Select`, `LookForInstance`, `HealthCheck` | `select_and_check_instance` and the health check |
| `SendToInstance`, `ReceiveResult`, `Locate` | `_send_to_instance`, `receive_sentence_execution_result_from_instance` |
| `OrderCompaction`, `FilterAgain`, `AwaitCompaction`, `Retry` | `start_compaction` and the retry of the SET |
| `Serve`, `Puts` | a turn of the instance's loop; what `entry_table_put` may evict and end in |
| `Close`, `Inform` | the end of `process_sentence`, with the notice of a lost key |
| `AskInstance`, `AskValue`, `ReceiveValue` | `key_info_request_handler` |
| `Connects`, `CheckIfExistsOrCreate` | `instance_connection_handler`, before and after the instance is in the list |

A SET evicts first and answers afterwards: it may lose other keys and still fail, or ask for a
compaction, also in a table that has just compacted, since what it evicts leaves holes
(`EntryTable` has the same, turn by turn). `process_sentence` compacts once; an answer
`NEED_COMPACTION` to the SET sent again goes on to the ISE as its result, and the model does so.

A `recv` reads the socket from the list's structure when it is called; whether
that is before or after an instance that failed connects again is a choice of
the model (`RecvSocket`). `orphans`, `crossed` and `promised` are histories: the
keys whose location was put as null, whether two threads' questions ever were on
one socket at a time, and the keys of the STOREs answered OK.

### The distribution (`Distribution`, `MCDistribution`)

| In the model | In the code |
|---|---|
| `list`, `is_available`, `entries_in_use` | `instances_thread_list` in its order, and two fields of each `t_instance` |
| `last` | `last_instance_selected`, a *copy*: `GONE` once the instance it was made from has connected again, because `is_same_instance` compares thread and socket and both are then others (the old socket is never closed, so its number does not come back) |
| `with_keys` | the instances that are some key's location |
| `dead` | the coordinator dereferenced a null pointer: EL past the end of the list, or `handle_instance_disconnection` before the first sentence |
| `Connect` | `check_if_exists_or_create_new_instance` |
| `Disconnect` | `handle_instance_disconnection`, called by a health check, a sentence or a compaction |
| `Select`, `Use` | a SET of a key without location, a sentence of a key with one; both end in `_send_to_instance` and move `last` |

A selection is one step: EL and KE hold `instances_list_mtx` while they read the
list, and an instance that goes after it was chosen is the second outcome of
`SendToInstance`. `turns` is a history variable. Under LSU the entries an
instance answers with are any number up to `MaxEntries`, since updates and
evictions lower them as well.

### The scheduler (`Planifier`)

| In the model | In the code |
|---|---|
| `estado`, `instruction_pointer`, `blocking_resource` | the fields of `esi` in `esi_map`; "borrado" once `borrado_de_finish` freed it |
| `READY_ESI_LIST`, `BLOCKED_ESI_LIST`, `FINISHED_ESI_LIST`, `RUNNING_ESI`, `NEXT_RUNNING_ESI` | the globals of the same name |
| `esis_bloqueados_por_recurso`, `recurso_tomado_por_esi` | the dictionaries of queues and of owners |
| `dispatcher_manager` | the mutex that the dispatcher locks at each turn and others unlock |
| `pc`, `marco` | where the dispatcher, the coordinator's thread and the console are, and the locals of `finish_esi` and `free_resource` |
| `AcquireDispatcher`, `Despacha`, `SinResultado`, `WaitExecutionResult`, `CierraTurno`, `TerminaTurno` | the loop of `dispatcher`, from the lock of the mutex to the end of the turn |
| `FinishEsi`, `FreeResource`, `FreeResourceQuita` | `finish_esi` and `free_resource`, cut where no lock is held; any of the three threads may be in them |
| `FinishEsiRetorna`, `FinishEsiReplanifica`, `FinishEsiNotifica` | the end of `finish_esi`: its test with no mutex, its replan and its notice |
| `GetSentence`, `SetSentence`, `StoreSentence`, `StoreSentenceResponde` | the cases of the message of the coordinator |
| `NewEsi`, `SendIdToEsi`, `NotificaNuevo` | `esi_connection_handler` |
| `KillCmd`, `UnblockResource`, `UnblockCmd`, `DeadlockCmd` | the console's `kill`, `unblock` and `deadlock` |
| `BuscarDeadlockEnLista`, `VuelvePor` | the recursive search, down to where a circle closes and back; `Bloqueado`, `Bloqueante`, `Nada` are its tests and its empty answer |
| `ExecuteSentence`, `RecibeResultado`, `Desconecta` | the ESI process, and a user who interrupts it |

An action is what a thread does between two points where another thread can
matter. Choices made:

- GET is one action: all it reads and writes is under the mutex of the owners. Only a
  search for deadlocks, which does not lock it, sees an ESI in the blocked list before
  `blocking_resource` says what for (`orchestrator.c:265`): it dereferences a null, or reads
  the resource of an earlier wait. `DeadlockCmd` has the null (`BloqueadoAMedias`) as a death.
- The last test of `finish_esi` (`orchestrator.c:195`) is a step apart from the replan and the
  notice after it. When the console ends an ESI while the dispatcher sleeps, another may
  connect or be dispatched in between: the replan then finds an empty list and puts 0 over the
  next ESI, or takes one from the list that nobody will run.
  `free_resource` is two, because it removes the owner after it released
  everything. The order of the mutexes is `Sincronizacion`'s.
- `notify_dispatcher` reads `RUNNING_ESI` and unlocks in one action.
- `new_esi` and `add_esi` are one action: before `add_esi` the ESI is only in the
  map, and nobody can know its id. Ids are taken as distinct.
- A use of a freed `esi` or of a pointer never set has undefined behaviour. In
  the model the process dies (`caido`) or goes on as if the memory still held
  something, both ways being tried. `SetSentence` has three outcomes for the
  unset pointer of `is_resource_taken_by_esi`: it takes it for the ESI, it does
  not, or the process dies.
- The coordinator is reduced to: it passes on the question, and after the
  planifier's OK the instance may be unreachable (`FallanInstancias`). Losing an
  instance answers the ESI KEY_UNREACHABLE.

### Bursts (`Rafagas`)

`esi[e]` is the record of the code with the fields that estimates use; estimates
are integers in parts of a sentence (`ESCALA`), where the code has a float.
`Pasada` and `ListSort` are `list_sort`, its shrinking passes included, with the
comparator as the set of pairs it lets stand; `ShortestJob`,
`HigherResponseRatio` are the comparators. `Despacha` ... `TerminaTurno` are the
turn of the dispatcher as in `Planifier`, `BlockEsi`, `FinishEsi`,
`AddEsiByAlgorithm` what each algorithm does to the lists. `rafaga` is a history:
the turns each ESI had since it last blocked. Which resource an ESI waits for is left open, but
not how often it stands in a queue (`esperas`): a queue gives only who is in it, and
`UnblockEsi` wakes that one whatever its state, as `unblock_esi` does.

A user may interrupt the ESI that has the turn (`Interrumpe`): before it sends its sentence, with
the sentence at the coordinator (`pedidos`), or with the answer received and no result
given. The dispatcher takes it for lost and ends it (`SinResultado`); one that is interrupted
before its turn has it, and sends nothing. The sentence at the coordinator still comes to the
planifier, at any time after (`PedidoTardio`): as a GET that blocks an ESI that has ended,
a STORE that wakes one, or nothing. `FINISHED_ESI_LIST` is kept because `borrado_de_finish`
frees who is in it, and such an ESI may be blocked by then.

### Locks (`Sincronizacion`)

A handler is a sequence of instructions, `Lock`, `Unlock`, `Wait`, `Signal`,
`TryLock`, setting and testing a flag, sending and receiving, and choices where
the code looks at data; a thread is what it has still to run. The operators keep
the names of the functions and are nested as the calls are, one definition per
algorithm where the locks differ. `Pasa` is a lock and its unlock with nothing
locked in between. A choice, and an unlock of a mutex that is only a mutex, are
taken at once after the step before (`Turno`): no other thread can tell. The
leaves `id_mtx` and `cpu_time_mtx`, under which nothing is locked, are left out.

### The hash table (`Dictionary`, `KeyedQueues`)

A key is its hash: what the code compares. `Put`, `PutPosta`, `RemoveKey` and `Clean` are the
functions;
a table whose last bucket is taken becomes `old_table` and `Relink` links one
element into the larger one, a turn of the loop of `dictionary_resize` each. The
abstraction is a queue of data for each hash, whatever buckets it shares. The mapping
reads it where a search for the hash would look, in the table and then in what is
left of the old one: an element in a wrong bucket is lost.

## Runs

| Run | Instance | Question | States |
|---|---|---|---|
| `entry_table` | 3 keys; values of 1, 2, 3 and 7 characters; 4 entries of 2; BSU | structures agree, compaction makes room, BSU's victim, refinement of `KeyValueStore`, loops end | 46,375 |
| `replacement` | LRU and CIRCULAR; 3 keys, 3 entries, values of one and two entries | against a history of uses, is the victim the right one | 28,136 |
| `instance` | 2 keys, 2 values, 3 sentences, a second start after any end | what files and table read through dumps, crashes and loads; does it dump, does it stop | 407,519 |
| `dictionary` | 5 keys, two of one hash, a table of 2 that may grow twice, null data | buckets, count of buckets, refinement of `KeyedQueues` | 13,443 |
| `planifier` | 3 ESIs, 2 resources, one taken by the configuration, three scripts; instances may fail; no console | lists, queues, owners, instruction pointers, what a deadlock search would find | 499,221 |
| `planifier_entorno` | 2 ESIs, one of which is interrupted, 2 console commands, fair threads | does one ESI execute at a time, does a ready ESI run | 540,543 |
| `planifier_duerme` | 2 ESIs | finds a statement of the code violated (below) | |
| `rafagas` | 3 ESIs, symmetric, scripts of 1 or 3 sentences; 2 blocks, 1 command or 1 ESI interrupted, 6 turns; the three algorithms | is the ESI chosen the best, is a burst counted right, is each ESI in its list | 3,548,466 |
| `sincronizacion` | SJF with preemption and HRRN (FIFO locks as HRRN does less the map of ESIs, SJF as SJF with preemption where it blocks); 3 commands, connections and interruptions in all | no thread waits for itself, where circles can be, pause and block | 1,858,227 |
| `distribution` | 4 instances, symmetric, EL or LSU, up to 2 entries in use | do EL and LSU serve everybody in turn, does KE share the letters evenly | 44,285 |
| `coordinator` | 2 instances, one of which fails and comes back; 1 ISE with 3 sentences, 1 question of the console, after the second was received | owners, stored values, sockets, compaction, does every sentence end | 903,439 |
| `coordinator_planifier` | 2 ISEs, one interrupted | finds a statement of the code violated (below) | |

Bounds.

- *Storage.* Four entries and values of up to two entries are the smallest buffer in
  which a hole of one entry lies on each side of a two-entry value: a compaction
  has to move a value onto part of its own old place, `NeedCompaction` is true with
  enough free entries. The value of seven characters takes the whole buffer, so its
  SET evicts key after key; the two atomic sizes give BSU a choice. With three keys,
  two are atomic and one is the new one, so the algorithms differ.
- *Instance.* A STORE, a SET after it and one more let a dump, a crash and a load
  fall between any two of them; a second start is enough to read what the first left.
- *Dictionary.* Two and two keys share a bucket in a table of two, all four part in
  one of four, which is then as full as the one of two was: it grows twice. A fifth key
  has the hash of the fourth, and they share a queue.
- *Scheduler.* Two resources and one ESI that blocks *while it holds* one: under FIFO
  nothing else makes resources contended; `MCGuiones` says what each script is for,
  and the circle of two that they can close is what the deadlock search needs. Every
  ESI may have any script. `MaxComandos` bounds the commands typed.
- *Bursts.* Three ESIs and scripts of one and three sentences give a list of two
  that is out of order in every way, bursts of different lengths and a preemption
  in the middle of one; two blocks, a burst that was blocked before. One interruption is
  one late sentence.
- *Locks.* Three threads besides the dispatcher; a circle of two or three needs one
  event of each. After three events every thread has gone round its loop.
- *Distribution.* Four instances let one connect, one leave and two wait their turn in
  any order of the list; what the three do with more is the theorems' (with four the
  run could not show that a fifth breaks a round, see Proofs).
- *Coordinator.* Two instances are enough for a key to be in two places and for a
  compaction to await one that is not the one selected; the second connection is
  the one that comes back. Of three sentences, a SET and a STORE leave one that comes after a
  STORE answered OK, whose key is then removed and put back if its instance failed; the
  console asks in the middle, while the second is under way or when it has ended. A
  second ISE is only needed for answers to cross, which is the violation run.

`CHECK_DEADLOCK FALSE` stands where the system may rest or stop: the bounds are
reached, every ESI has ended or waits, threads wait for each other for ever, or
the process died.

Fairness. The storage: `WF_vars(Step)`, the thread of the instance goes on with an
operation it began; nothing forces a new request. The instance: weak fairness of
each of its two threads, which are loops that block only on the mutex, on a sleep
and on the coordinator; sentences, signals and deaths need not come. The
coordinator: weak fairness of each of its threads, of the planifier's answers and
of instances that are alive and asked; nobody need type, connect or fail. The
scheduler: weak fairness of each thread and of an ESI told to run; users and
failing instances have none. The others have no liveness property: with no
instance available the distribution goes round its list for ever, and the locks
do deadlock.

### Properties and what they leave out

Several properties hold only up to a point, and say so:

- `planifier` has nobody at the console (`MaxComandos = 0`). One `unblock` breaks
  `EsperaJustificada`, by design: it hands out a resource by force. It breaks
  `PunteroEnFase` because the dispatcher takes back the instruction that blocked
  (`dispatcher.c:113`) only if the ESI is still blocked when the turn closes: an
  `unblock` before that leaves it counted, and the ESI is ended, freed, one line
  early. A `kill` breaks `FinalizadoNoVuelve`: a killed ESI stays in the queue of
  the resource it waited for, and a STORE puts it back into the ready list.
- `DeadlockEsCirculo` is about searches that come back, and says of whom they name: the
  ESIs of the circles, not those that wait for one of them. One that meets a resource
  that nobody holds dereferences a null (`orchestrator.c:346`): a blocked ESI whose
  resource was freed by the end of its holder, and not yet given on, is enough.
- `ListoCorre` is stated "unless the dispatcher goes to sleep, or dies": that it can
  sleep with an ESI ready is the finding of `planifier_duerme`, and that a late
  notice wakes it for nobody, so that it looks up the ESI 0, is in the model as a
  death.
- `SetAjenoAborta` asks that somebody hold something: with no resource taken a SET
  reads a pointer never set (`planifier_structures.c:77`) and may be accepted.
- `CadaUnoEnSuLugar` leaves SJF_DESALOJO out: `replan_for_new_esi`
  (`sjf_desalojo.c:66`) appends the running ESI to the ready list though it still
  has its turn, and writes over the next ESI chosen before it, which is then in no
  list. It leaves the console out: under SJF `block` of a ready ESI compares an id with
  a pointer and leaves it in the ready list (`sjf.c:20`). And it holds, with ESIs
  interrupted or not, until a late sentence reaches one that has ended (`aDestiempo`):
  `e1` is interrupted with its GET on its way, the dispatcher ends it and takes `e2` as next, and
  then the GET blocks `e1`, which is still `RUNNING_ESI`, so that it replans again: the next
  ESI is 0, and `e2` is in no list. A late STORE of an interrupted ESI can wake one between its
  block and the end of its turn: the dispatcher does not take back the sentence that blocked,
  and the next burst is counted one too long. So `DuracionEsLaRafaga` has the same two
  exclusions, under the three algorithms.
- `SoloPorLasColas` says where the circles are: in each somebody holds the mutex of
  the queues, `blocked_by_resource_map_mtx`. They exist: `bloquear_recurso` locks owners and then
  queues, `free_resource` and `unblock` queues and then owners.
- `PausaDetiene` and `BloqueoEntreTurnos` are about a console that was answered. No
  condition has a predicate, so signals are lost: a `pause` between the dispatcher's
  test and its wait leaves both waiting, a second `pause` hangs the console, a `resume`
  before the dispatcher waits is lost; and a `pause` that finds the mutex taken answers
  at once, though the turn goes on.
- `StoredIsFound`, `SocketsInStep`, `CompactsBeforeRetry` hold until the console asks
  for a value in the middle of a sentence on the same socket (`crossed`): each
  then reads words of the other's answer. `OneOwner` and `StoredIsFound` except the
  keys whose location was put as null by a STORE of a key never SET (`orphans`); such
  a null also kills the coordinator when the next instance connects.
- `CompactsBeforeRetry` says where a SET is sent again, and not that it then fits: one that
  evicts may ask for a compaction again, and its ISE is told so. With the one key of the
  run a SET evicts nothing that is followed; the theorems about `Coordinator` hold for any
  number of keys, evicted or not, and with two keys TLC finds their invariants kept.
- `SentenceEnds` except a coordinator that died, nobody available, and a thread that
  waits on the new socket of an instance that came back (`SomebodyIsDeaf`). The
  deaths of the model are SIGPIPE on a second send to a closed socket, EL walking
  off the list when the last choice has connected again, and
  `handle_instance_disconnection` before the first sentence.
- `NoFileGoesBack` and `ReadsWhatWasWritten` except keys whose save an end of the
  process cut: `file_system_save` truncates first. `Stops` and `DumpHappens` except a
  compaction of a table with an empty value loaded from such a file, which never ends
  and keeps the mutex.
- `NobodyIsSkipped` speaks of sentences for new keys in a row: a sentence for an old key
  moves EL's cursor to that key's instance, and the turns start anew. LSU leaves a
  tie to EL over *all* the available instances; `LSUSoonChoosesTheLeast` is what is
  left of "least space used": not the same fuller one twice before one with the fewest
  has its turn, if nobody connects and none of the least used leaves. KE leaves the last letters
  without an instance
  (`KESplitsTheAlphabet`): a SET of a key that starts with one looks for ever. `KEIsEven`
  is about as many available instances as KE can divide the letters by: with none, or
  with more than letters, the code divides by zero (`DividesByZero`).

### What the violation runs show

- **`planifier_duerme`** - an ESI that enters the ready list between the replan
  that found nothing (in `block_esi` or `finish_esi`) and `RUNNING_ESI = 0` in the
  dispatcher calls `notify_dispatcher` while `RUNNING_ESI` is not yet 0: the notice
  is lost and the dispatcher sleeps, logging that the ready list is empty.
- **`coordinator_planifier`** - an ISE is interrupted after its sentence; the planifier
  lets the next one run, and the threads of both send their questions on the one
  socket and read from it. One is told what the planifier said of the other's
  sentence, and logs it as its own (`coordinator.c:497`).

## Proofs

The first part of `EntryTable_proofs` proves what `ReplacementRemove` and `ReplacementAdd`
do to any list that holds each key once, from facts about the first match, `RemoveAt` and
`InsertAt` on sequences (`FirstPlace` and `RemoveAtProperties`; the first uses `MinIsLeast`,
which rests on the library's least-element theorem for naturals; a module that needs these
lemmas states and proves them, for it shares no module with the others). Recursion is
written as recursive functions, and what they compute is proved without an induction
theorem: that the function exists, value by value (`Recursion`), and that a property
holds of each value because it would fail first at some least one (`UpToTheLast`,
`HastaElUltimo`). `AddProperties` is the fact the table
needs: under every algorithm the keys of the new list are the old ones and the key added,
each once.

The rest proves, from the assumptions on constants only (`MaxEntries` and
`EntrySize` positive naturals, every length positive, a known algorithm, null
values that are no entry, no value and no request; neither `Keys` nor `Values` need be finite):

- `TypeCorrect`, `LayoutHolds`, `ListMatches`, `ValuesAreWhole`: the run's four
  invariants;
- `MakesRoom`: after a compaction no SET that evicts nothing needs another;
- `BSUTakesTheLargest`: under BSU the victim is a largest of the atomic values;
- `TheOldestIsTaken`: under LRU and CIRCULAR it is the one that counted longest ago;
- `PromiseIsKept`: the table implements `KeyValueStore`.

The argument. `Layout` alone is not inductive. That an update frees the right
entries needs the old length to be positive and inside the buffer (`TypeOK` with
the bitmap); that an eviction removes a key that is there needs the list to match
(`ReplacementMatchesEntries`); that a value stays whole when *another* key is
written needs `Layout`, that the blocks do not meet; and a SET in progress must
have its arguments (`RequestPending`). `IInv` is the conjunction. There is one
lemma per action, with a step per conjunct that the action can disturb. The move
of a compaction is the interesting one: `CompactedPrefix` says that everything
below the cursor is in use by entries that end below it, so the destination of
the move meets only the entry's own old place. `MakesRoom` follows from the same
fact at the end of the loop: with no entry at or above the cursor, the bitmap is
`0 .. start_index - 1` and the free entries are one run. `BSUTakesTheLargest` needs two
facts more (`SizeInv`), which hold of BSU only: the list goes by size, for a new item goes
before the first smaller one (`BSUPlaceBySize`), and the sizes in it are those of the
dictionary. CIRCULAR keeps the size that a key had when it entered the list.

`TheOldestIsTaken` is of `ReplacementHistory`: the list goes by the history
(`ByHistory`), for what an algorithm adds goes last, and what it removes leaves the order
of the rest (`Subsequence`); so the head, which is the victim, is the oldest.

`PromiseIsKept` has one lemma per step of the table. `StoredIs` says that what the
buffer holds for a key is the last value SET, from `WholeValues`. `RoomInUse` says that the room
of the store is as large as the bitmap: each key's entries are as many as its value
takes and no two keys share one, which is a bijection. So a value fits in the store exactly if
it does in the table, fragmented or not. `WhoCanGo` says that the keys of the list are those
that may be given up; the turns of a compaction, and a `StartCompaction`, change nothing
that the store sees.

`Dictionary_proofs` proves, for every hash, initial size and bound, `DictionaryTypes`,
`ElementsInTheirBuckets`, `BucketsCounted`, `QueuesAreKept` and `StoredElementsFound` (a
search for the key of an element of the table finds one, for the first of its hash in the bucket is
there: `MinIsLeast` again). The inductive invariant is types, `InItsBucket` and
`CountsItsBuckets`, with the finiteness of the set of buckets in use; the count is
the interesting part: linking adds a bucket exactly if its chain was empty, and
removing takes one exactly if its chain had one element. Each is a lemma on one
update of a table, cited by the puts, the removes and the turns of a resize.

`QueuesAreKept` is the refinement of `KeyedQueues`. `DataInAppend` and `DataInWithout` say what
adding to a chain and taking out of it do to the data of a hash in it; `DataOfLink` and
`DataOfWithout` the same of a table, where another hash keeps its data even if it shares
the bucket. `FoundIsFirst` is why a removal takes the first of the queue. A turn of the resize
takes the first of a bucket of the old table: what is left there of its hash comes
after it, so linking it at the end of its new chain changes nothing (`RelinkQueues`). It needs
that the elements still to be linked are in *their* buckets of the old table (`QInv`). No
assumption is made of the hash: keys that have one hash share a queue, as in the code.

`Distribution_proofs` proves, for a list of any length: `ELGivesAnAvailableOne`, EL
gives an available instance of the list whenever there is one, wherever the last
choice was (the walk reaches every place within one round, `WalkReaches`, and stops
at the first good one, `MinIsLeast`); and `KESplitsTheAlphabet`, with `n` instances up to 25
the letters that have one are the first `n * keys_per_instance` and follow the order of
the instances. The letters of each are as many and in one run
whoever is available (`KESharesTheAlphabet`), as what `AvailableInstances` keeps is each
of them once in the order of the list (`AvailableAreKept`). And two action properties of
`MCDistribution`, for any number of instances
that connect, leave and fill, and any list: `ELSkipsNobody` and `LSUReachesTheLeast`. Their
invariant (`RoundsAreKept`) says where the history lies in the list: those chosen while `j`
waits are in the part of the circle after `j` up to the last choice (`TurnsGoRound`), and EL
stops before it passes an available one, so the next choice is `j` or beyond all of them.
For LSU (`FullerGoRound`) either no fuller one was chosen since the last of the least used, or
one of the least was passed by all that were. The attempt at this proof found the property false as
it stood, from five instances on: when all of the least used leave, those that were fuller
are the new least, or a tie that starts in the middle of a round. Four instances are too few for
that; the property now says so, and `Disconnect` forgets the history.

`Instance_proofs` proves, for any keys and values, any number of sentences, dumps and
starts, three of the run's properties: `FilesNeverGoBack`, `TableReadsWhatWasWritten` and
`DumpSavesOneState`. The property about the table is not inductive: a table loaded from a
file reads what was written only if the file does (`FilesGoOn`), and a file only if what is
being saved is still the table's value (`SavesTheTable`). That holds because a save is
inside the mutex, for which `Exclusion` says who is where: a SET between the truncation and
the copy would break it. `Dumped` says that while the dump goes on, each key of the table is
still to do, being saved, or in its file with the value of the table; at the end nothing is
left to do, and that is `DumpIsASnapshot`.

`Rafagas_proofs` proves `DuracionDeLaRafaga`: for any scripts, ESIs, parameters of the
estimate and any of the three algorithms, an ESI that blocks notes a burst as long as the
turns it has had since it last blocked. The invariant (`Cuentan`) relates the two pointers of
each ESI to a count of its turns, with one exception: between its block and the end of its
turn the sentence that blocked is still counted, and the dispatcher takes it back
(`PorRetroceder`). `EnTurno` says that the ESI of the turn is running, or blocked in this very
turn. Both hold under `SinSorpresas`, while nothing was typed at the console and no late
sentence reached an ESI that had ended; after that the theorem says nothing, as its property
does. Interrupted ESIs are in it: one of them has at most the turn in which that is noticed
(`NoCorren`), and what its pointers count is kept only as long as its sentence may come.

It proves too what the run's other two properties say, and the sort that they rest on:

- `ListSortOrdena`: `list_sort` puts a list of any length in order, for any comparator that is an
  order up to ties. Each pass is as long as the last or shorter, and leaves one more
  element at the end of it that nothing before it should follow.
- `TypesOfRafagas`: types, pointers and the clock under every algorithm and any command.
  Estimates and waiting times are naturals because an ESI is never more than one sentence behind
  its last burst (`Relojes`), which the order of HRRN needs.
- `EverybodyInPlace` (`CadaUnoEnSuLugar`), from `LInv`: the ready list is exactly the new and
  unblocked ESIs but the next one, the blocked list the blocked ones, each once. What an unblock
  takes from a queue is a blocked ESI because of `Colas`: the queues have each blocked ESI once
  and no other but those that have ended. A late sentence that reaches nobody changes none of
  it. Here too a sort permutes its list; what that needs of `list_sort` is that a pass only swaps.
- `TheBestIsChosen` (`EligeElMejor`): the first of a sorted list may keep every other one waiting.
  `OrdenRafaga` and `OrdenRespuesta` show that the two comparators are orders up to ties;
  HRRN compares by products, so its transitivity is of fractions (`RespuestaTrans`).

`Planifier_proofs` is in three parts. The first assumes nothing of the users: the types
(`TypeCorrect`), one ESI at a time (`OneAtATime`), and the end of an ESI that sets what it
does not hold (`SetOfAnothersAborts`), from `TInv`. The instruction pointer is a natural
only because the dispatcher, which takes one back, has counted it in the same turn, which
`EnTurno` follows through `finish_esi`.

The second part assumes `SinUsuarios`, that nobody interrupts an ESI and nobody types, as
the run of these properties does: with a `kill` or an interruption an owner can end, and a
waiter be woken, in the middle of another thread's `free_resource`. Under it, for any number
of ESIs and resources, any scripts, and instances that fail or not, `EachInItsList`,
`WaitsAreJustified`, `PointerInPhase` and `FinishedStays` follow from the invariant `IInv`:

- `Listas`: the ready, blocked and finished lists and each queue hold, once, exactly the ESIs
  their states name (`En`). `EnAppend`, `EnRemove`, `EnTail` and `EnReplan` say what adding,
  removing, popping and replanning do to such a list.
- `Siguiente`, `Turno`, `Sentencias`: the next ESI can run; what the ESI of the turn is
  doing at each place of the dispatcher; the coordinator's thread is busy only while that
  ESI waits for the answer to a STORE. So two threads never free resources together.
- `Procesos`, `Punteros`: what the process of an ESI is doing in each state; its pointer is
  one ahead only during its turn.
- `Duenos`: an owner has not ended, unless its own resources are being freed one by one.
- The dispatcher, which ends the ESI that runs, never passes the last test of `finish_esi`
  (`SinReplanificar`): only the console does.
- `Esperas`: a queue that is not empty has an owner, or somebody woken for it who is about to
  ask again. `free_resource` wakes one before it forgets the owner, and that is why.

None of the four properties is inductive alone: that an ESI is once in its list says nothing
of who runs, which the next step moves it by. TLC checked each part of `IInv` on the model of
`MCPlanifier.cfg` (499,221
states) before it was proved. That the process may die (`caido`) changes nothing: it happens
without any other change, and the invariant holds of the state it dies in.

The third part, `DeadlocksAreFound` (`DeadlockEsCirculo`), assumes nothing of the users again, and
of the ESIs only that they are finitely many (`EsisAssumption`): a search that meets new ones
for ever would not come back. The search is a recursive function of the ESIs cut, and exists
by levels of the ESIs left (`Restan`). What it gives from any of them (`Hallado`) is nobody, or
a closed circle, or the way to one of those cut, where the circle is still to close;
`VuelvePor` keeps that on the way back. The answer is then a union of circles. That no
one of a circle is left out is a count: as nobody waits for two, each of a circle is waited for
by one of it only, so what a search from it names is closed, and what it leaves is too. The search
starts from the blocked list, so it must hold
whoever is blocked: `Bloqueados`, which `kill`, `unblock` and interruptions keep, though they
break `EachInItsList`.

`Sincronizacion_proofs` proves, for any of the four algorithms and any number of commands,
connections and interruptions, the four properties of the run `sincronizacion` and the types:
`NingunoSeEspera`, `CirculosPorLasColas`, `BloqueaEntreTurnos`, `LaPausaDetiene`,
`TiposCorrectos`. The state has programs, nested sequences of instructions whose branches are
programs themselves, and a proof by induction over them is out of reach. So the invariant does not
look
into them: `Bien(a, p, H, f)` says that a thread with program `p`, with `H` locked, in phase
`f` is in *some* set that is closed under the instructions (whatever the first of the program
does, the rest is
in the set again, and the instruction was allowed, `Permite`). A step of a thread
keeps it by definition (`Desdobla`); what has to be shown is that each handler starts in such a
set. Handlers are put together from pieces, and so are the sets: `Lleva` takes a piece from
what is locked and where the thread is before it to what is after it, `Neutro` is a piece that
leaves both, and `Manso` one that does so whatever the caller has locked that comes earlier.

- `Rango` is the order of the mutexes of the data. It is not the one that their names give, and
  not one order: FIFO
  and HRRN lock the next ESI before the blocked ones, SJF and SJF_DESALOJO after. The
  queues of resources may be locked by who has any other (`Puede`). A thread in a circle
  waits for a mutex of higher rank than any it has, so ranks would rise all round: somebody
  waits for the queues, and somebody has them.
- `FasesDe` are the places of the two rendezvous where a thread can be, and `Acuerdos` what
  the console, from its own place, knows of the dispatcher's: that it blocks, or is paused,
  only while the dispatcher is in `avisado`, or in `pausado`.
- `Cuentas` balances sentences, the coordinator's thread, results and results lost; with one more
  result
  than sentences the dispatcher would go on too early.

Before the proof TLC checked the phases, as a history variable, the agreements and the balance:
all four algorithms with two
events (349,909 states), and the configuration of the run with its three (1,858,227 states).

`Coordinator_proofs` proves the types with no assumption (`TypesCorrect`), and, for any number of
instances, keys, ISEs, sentences and failures, `KeyHasOneOwner`, `ExchangesAreInStep`,
`RetriesAfterCompacting`, `StoredKeysAreFound` and `AnswersAreNotCrossed`. These five assume
that no user interrupts an ISE (`MayInterrupt = {}`), as the run `coordinator` does: without
it two sentences are in progress at once, the violation run shows `AnswerIsItsOwn` broken,
and `OneOwner` breaks too. What happens to the ISEs is then that they take turns
(`OneAtATime`), and all follows from a chain of invariants, each used by the next:

- `Owners`: a key has at most one instance that holds it, the one of its location or the one
  that a sentence in progress has chosen (`Located`). The hard case is an instance that comes
  back on a new socket while a thread still uses the old one.
- `Exchanges`: a socket carries one exchange: nothing, or one question whose asker waits for it
  (`AskedFor`), or its answer (`AnswerFor`). Without the console's questions on the same socket
  (`crossed`) no thread can read the word of another.
- `Compaction`: of a thread that was told `NEED_COMPACTION`, where the order is
  (`Ordered`), and that the SET it sends again (`Again`) reaches an instance that has compacted.
- `Storing` and `Promises`: a STORE answered `OK` was written where the location
  says, and a promised key stays there (`Kept`).
- `Asking`: the questions and the verdicts on the planifier's socket are of the one
  sentence in progress.

TLC checks the whole chain, as one invariant, on the model of `MCCoordinator.cfg` (903,439 states),
and with two keys, of which a SET may evict one, and no question (393,215 states).

What stays with TLC: the liveness properties, `OperationsEnd`, `DumpHappens`, `Stops`,
`ListoCorre` and `SentenceEnds`, which need fairness and `ENABLED`. Every other property of a
passing run, both refinements included, is a theorem; those of `Coordinator`, and four of
`Planifier`, under the assumption on users that their run makes. What no theorem says is
that the modules are right about each other where two of them cut one program (see Plan).

## Plan

Done: the storage and its proofs; the distribution and its proofs; the scheduler
under FIFO with its deadlock search; the other algorithms (`Rafagas`); the locks and the
console's rendezvous (`Sincronizacion`); the coordinator over its sockets; the
process of an instance with crashes and restarts, and its proofs; the hash table with its
proofs; the proofs about bursts and the sort, about the scheduler and its deadlock search, about
the locks, about the rounds and the letters of the distribution and about the coordinator; the two
refinements
of abstract specifications.

Left, in the order in which it would be worth doing:

1. A composition of `Coordinator` and `Planifier`: the order in which a STORE
   frees the resource in the planifier and is executed in an instance
   (`coordinator.c:428`).
2. Ids (`increment_id`) and what two ESIs with one id do to the chains of `Dictionary`.
3. Proofs: the invariants of `Coordinator` and `Planifier` with users that interrupt, weakened to
   what is left of them then.

## Not modelled

Serialisation (messages are records or words), the parsing and printing of
console commands, logs, configuration files, the reading of scripts, the console's commands for
tests, and the vendored lists and queues except `list_sort`: they are sequences.
Failures of `open` and `mmap` are left out of `Instance`, the loss of the coordinator out of
`Planifier`: it ends the process. `PROJECT.json` lists every component with its status, every
hazard with the properties that would catch it, and the lines of source each definition
stands for.
