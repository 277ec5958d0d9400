# libxcwm and xtoq: a TLA+ verification development

libxcwm is a C library on which a rootless X window manager can be built; xtoq is
the window manager for Mac OS X built on it in this repository. The library runs
one thread, the *event thread*, that reads X events, keeps a list of the managed
windows and calls the client back. The client (xtoq's Cocoa *main thread*) calls
into the library at any time, about windows it has been told of.

What makes the program hard is not any one function. The X server is asynchronous
in both directions, so every handler acts on news that is out of date and every
request may find the window gone; two threads share the window list, the windows
and the damage bounds, with a lock that covers only some of it; and most of the
code is C that trusts a pointer it was given.

## Inventory

| Part | State it keeps | Operations | Talks to |
| --- | --- | --- | --- |
| Event loop (`event_loop.c`) | the thread, `_event_thread_lock`, the event in hand | adopt existing windows; one handler per event type; start and stop | server (events, requests), window list, client callback |
| Managed windows (`window.c`) | `xcwm_window_t`: bounds, `dmg_bounds`, `initial_damage`, pixmap, shape, name, hints | create, remove, release, configure, remove_damage, set_shape, request_close, constrain_sizing, stacking, accessors | server, window list |
| Window list (`context_list.c`) | a doubly linked list with a global head | add, look up, remove | called by both threads, no lock |
| Context (`context.c`) | connection, root window, extension numbers | open, close | all of the above |
| Extension setup (`init.c`) | extension event bases | version handshakes | server |
| Atoms and properties (`atoms.c`) | the table of properties and their handlers | register, initial read, change, WM_STATE, WM_DELETE | server, windows |
| Images (`image.c`) | none | copy all, copy the damage, destroy | server |
| Input, keyboard (`input.c`, `keyboard.c`) | none | forward a key, a button, a motion; install a key map | server |
| Request helpers (`util.c`) | none | attributes, geometry, check a request | server |
| Xtoq controller (`XtoqController.m`) | Cocoa windows; the dispatch queue; the menu | callback dispatch, create, destroy, damage, reshape, close, input, termination | library, view |
| Xtoq view (`XtoqView.m`) | what needs display (AppKit's) | drawRect, setPartialImage | library, under the thread lock |
| Xtoq window (`XtoqWindow.m`) | its `xcwm_window_t` | should close, became key, mouse moved | controller |
| Xtoq application (`XtoqApplication.m`) | swallowed key, modifier flags | sendEvent | controller, through notifications |
| Xtoq keymap (`keymap.c`, `keysym2ucs.c`), a program of its own | tables; the two maps it builds | translate the Mac's layout, install the maps, keysym to UCS and back | server |

The properties that make each part correct:

- *Event loop, windows, client.* Callbacks of one window come as CREATE, notes,
  DESTROY. Once events run out, the list is the set of viewable windows, each with
  its damage object, event selections and current pixmap; pixmaps do not leak; no
  handler dereferences NULL.
- *Window list.* Its two chains of links agree and hold the managed windows, each
  once; memory is freed once and not used afterwards; a concurrent look-up does not
  miss a window that is there.
- *Drawing.* What is drawn is repaired on the screen, in the end; damage is
  subtracted only if it was copied, as long as the library knows the window's size.
- *Opening.* Of several processes at most one manages the windows of a display, and it
  has what it needs for that.
- *Closing.* Every window in the list is asked to close, no freed memory is used,
  and the close ends, while the event thread may still be at work.
- *Key input.* What the server takes to be down is what the user holds; its modifiers
  are the user's; each entry of its map stands for the characters of the Mac's layout.
- *Places.* The server, the library and Cocoa have each window in the same place, in
  their three ways of counting.
- *Sizing.* A constrained size meets the hints, is nearest to what was asked for,
  and stays when it is constrained again.
- *Properties.* Once no news of a window is under way, the library holds what the
  application gave last; a window that takes WM_DELETE_WINDOW is not killed, one
  that does not is.

The list of hazards behind these, each at its line, is in `PROJECT.json`.

## Modules

| Module | What it models |
| --- | --- |
| `CallbackContract` | abstract: the order of callbacks the client is promised |
| `XServer` | external: windows, pixmaps, damage objects, events and requests of the X server; the applications |
| `EventLoop` | the event thread against `XServer`; implements `CallbackContract` |
| `WindowStack` | abstract: the managed windows as a sequence, newest first |
| `ContextList` | the linked list in memory, the event thread that changes it, the main thread that reads it; implements `WindowStack` |
| `DamageDraw` | for one window: damage, the event thread's damage handler, the main thread's drawRect and reshape |
| `WindowProps` | the properties of windows, how the event thread reads them, and closing |
| `Sizing` | `xcwm_window_constrain_sizing` as a function, and a window that is resized by it |
| `Geometry` | requests to move and resize from applications and the user; bounds, Cocoa frames and their conversions |
| `Shutdown` | `xcwm_context_close` against the running event thread; extends `ContextList` |
| `Startup` | `xcwm_context_open` in several processes at once, with `init.c`, the selection of the compositing manager and the end of a connection |
| `ContextLife` | a context opened, used and closed among others; extends `Shutdown` and `Startup` |
| `KeyInput` | which key, modifier and button events get to the server, and in what order |
| `Keysym` | `keysym2ucs.c`: the two binary searches and the reversed table |
| `KeyMap` | `keymap.c`: the key map and the modifier map made from a layout; extends `Keysym` |
| `Keyboard` | the user's typing and the keymap program together; extends `KeyInput` and `KeyMap` |
| `EventLoopProofs`, `ContextListProofs`, `DamageDrawProofs`, `WindowPropsProofs`, `SizingProofs`, `GeometryProofs`, `ShutdownProofs`, `KeyboardProofs` | theorems about each and their proofs; those about `KeyInput`, `KeyMap` and `Keysym` are in `KeyboardProofs`, those about `Startup` in `ShutdownProofs` |
| `MCEventLoop`, `MCContextList`, `MCDamageDraw`, `MCWindowProps`, `MCSizing`, `MCGeometry`, `MCShutdown`, `MCKeyboard` | symmetry sets and values of the runs |

`EventLoop` EXTENDS `XServer` and composes the two in its `Next`. `ContextList`,
`DamageDraw` and `WindowProps` look more closely at one part of what `EventLoop`
takes as a step: at the memory behind `managed`, at the fields of `dmg_bounds` and
the threads that share them, at what the fields of a window hold; `Geometry` at the
values of the configure requests. `Shutdown` adds the close to the memory of
`ContextList`, and `Keyboard` puts the two halves of the keyboard together.

### EventLoop and XServer

State: `managed` is the set of windows in the list, `pixmap` their
`composite_pixmap_id`, `initial` their `initial_damage` flags; `pc`, `cur` and
`via` say where in a handler the thread is, about which window and what led there;
`todo` is what `_xcwm_windows_adopt` has still to look at. `XServer` adds the state
of each window (`st`, `kind`), the pixmaps bound at the server and whether they are
still the backing pixmap (`named`), damage objects, event selections, the queue of
events not yet read and the requests not yet executed.

Actions: one per `case` of `run_event_loop`. A handler is cut exactly where it waits
for a reply (attributes, geometry, properties and damage creation, shape, and the
query of the tree), since there the server first executes everything sent before and
the applications may act in between; and at the callback, which takes time. Between
two cuts nobody sees the order of the assignments. `ClientConfigure` is
`xcwm_window_configure` called from the main thread. In a damage event `flag` says that
the reported area is larger than the bounds the library has of the window; it is
free, since those bounds are not kept up to date by ConfigureNotify.

`Emit` delivers what has been selected; in particular a window selected late does
not bring its earlier events. A NULL dereference is the state `pc = "crashed"`.

### ContextList

Nodes and windows are memory that malloc may hand out again after free (`Nodes`,
`Objs`). `Link` and `Unlink` are the bodies of `_xcwm_add_window` and
`_xcwm_remove_window_node`, with each case of the neighbours. `Add`, `Remove` and
`Release` are what the handlers do to it. The main thread's `StartWalk`, `Walk`,
`WalkEnds` and `SendClose` are `xcwm_window_request_close`, node by node. `order`
and `stayed` are history variables. Each action of the event thread is one step:
accesses of the two threads are taken to be sequentially consistent, and the
removal of a node to be seen at once. The code, without lock or atomics, promises
less; what is found wrong here is wrong there too.

### DamageDraw

A window is a row of `Width` columns and a rectangle a start and a width: what the
properties tell apart needs no second dimension. `damage` is the region of the
server's damage object and `queue` its reports: at level BoundingBox, one for
each growth of the box and one for what is left after a subtraction. The server's
answer to a subtract-and-add is one step. `size` is the width the server has and `bounds` the one the library
has, which is also that of the Cocoa view. They part when the application changes the width: at once if the
window is override-redirect (`Resize`), else when the event thread grants its request (`Grant`), which
leaves `bounds` alone; only the user renews it (`Move`, for `reshape`, which may also leave the width
as it is). What a window gains is painted and so damaged. Hence the two cases of `Oversized`: the
first event of an override-redirect window, whose box may be any as it is relative to the root, and a
box wider than `bounds`. `SetInitial` then asks for the box to be subtracted and for the columns
`bounds` names to be added. Such requests wait in `buffer` until something flushes, and then in
`wire`; `Vanish` is the end of the damage object, after which the subtraction of `RemoveDamage` fails
and `dmg_bounds` stays (`RemoveFails`).
`event` and `main` are the places of the two threads, `lock` the holder of
`_event_thread_lock`. `dmg_bounds` is read and cleared field by field where no
lock protects it. `stale` is the part of the window the screen does not show.
Simplified: the pixmap that is copied from is the current one (its renewal is the subject of `EventLoop`);
damage that is cut off goes at once, while the server drops it at the next subtraction; `reshape`
writes the bounds and `dmg_bounds` in one step; requests do not fail for want of memory.

### WindowProps

`prop` is what the server holds of each window, `lib` the fields of its
`xcwm_window_t`, as `malloc` left them (`Garbage`) until they are set. A task of the
event thread, the creation of a window or the answer to a PropertyNotify, is a
sequence `todo` of readings; each reading is a round trip of its own, so
applications act between two of them. `AllReadings` is the table of properties in
its order. `selected` holds the windows whose changes are announced: `StartCreate`
selects before the first reading, which is what `PropertiesAgree` rests on. A window
that is gone has no properties. Values of types are lists, of which `ReadTypes`
takes the first that the library knows. `RequestClose` is
`xcwm_window_request_close`; that the window may have been freed is the subject of
`ContextList`.

### Sizing

One operator for each part of the function. The two corrections for the aspect
ratio are mirror images and share `Adjusted`. Hints are taken to be free of
contradictions (`SoundHints`: base at most minimum, minimum at most maximum, least
ratio at most greatest, none of them with a zero): outside of that the function
keeps no promise, and divides by zero when a ratio holds one.

### Geometry

A place is a top edge and a height; left edge and width go through no conversion.
`server`, `bounds` and `frame` are the three views of it. `queue` carries
ConfigureRequests with what the application asked (`asked`) and the values the server
filled in for the rest; `wire` the requests of `_xcwm_resize_window` that the server has
not executed. Creation is cut at the query of the geometry, after which windows of
the override-redirect kind may still move by themselves, and at the callback, where
`createNewWindow` computes the Cocoa frame and configures the window.
`MoveOrResize` is a change of a frame by user or AppKit with the notification that follows
it, in which `reshape` looks at the main window. Three history variables say how the
views may have parted: `drifted`, `unseen`, and `overtaken` of an event.

### Shutdown

`phase` and `mine` are the main thread's place in the loop of `xcwm_context_close`, cut
at each access to the shared list; the walk of `xcwm_window_request_close` in it is the
one of `ContextList`, actions included. The event thread looks up node by node
here (`LookStep`), since the close may free what it stands on; where its handler goes
on, it adds a window, or removes one and releases it after the callback. `Break` is the use of memory that is
not allocated. `overlap` remembers that the event thread was at work on the list between the
first and the last step of the loop: this is what the code leaves open, and
`SafeIfQuiet` says that nothing else is. The cancellation takes effect where the thread waits, at any time later.

### Startup and ContextLife

`stage` is how far each process is in `xcwm_context_open`, which is cut at every request
that waits for a reply: the mask of the root window, the six extensions in their order
(`shaken`), the manual redirection, which is asked for without a look at the answer, the
check for an owner of the selection and the claim. The context opens, with nothing claimed, also if
the first request for atoms fails or the selection has an owner, since nobody looks at what `_xcwm_atoms_init`
returns. The server keeps one holder of each of these
things (`redirect`, `manual`, `owner`, `supporting`) and drops what a connection held when
it ends. Compositors look for an owner and claim the selection as the ICCCM says. In
`ContextLife` one process, `Self`, goes on to handle events and to close, and `Apart` is a bound: with it
the others act only in behaviours without events about windows, as neither part reads
what the other writes.

### KeyInput, Keysym, KeyMap, Keyboard

`KeyInput` has one action for each outcome of `sendEvent`: a key-down the menu takes, one it
leaves alone, a key-up that is swallowed or not, buttons, and modifier changes. That
the user's hands (`held`) and the events may part while another application is active is
`Switch` and `Elsewhere`. `queue` is the serial dispatch queue, `down` the server's
state. `seen`, `mixed` and `missed` are histories that say exactly in which cases
a key is left down or a modifier is wrong: a shortcut whose key goes on repeating
after Command is let go, or is released in another application and then pressed plainly
here; and changes that went by unseen.

`Keysym` and `KeyMap` are functions. A layout gives each key and each of four states a
character; 0x10, which the code throws away, counts as none. The tables of `keymap.c` are
given by their rows. Layers of the map follow the code: glyph, normal form, missing keys,
keypad, blacklist. The table of keysyms is a constant, of which `IsTable` says what the code relies on; only
the rows a run needs are given to it. `Shown` is the server's reading of an entry, second group
included, with the cases of ASCII letters (a letter with an accent counts as any other glyph). `Keyboard` runs the program, a new
process each time, next to the user: read the layout, install the key map, install the
modifier map, which the server refuses while a key concerned is down; after an error of either request
the program goes on (`mapStatus` and `status` are how they ended). `reversed` is any
result `qsort` may leave.

## Runs

| Run | Bounds | What it shows |
| --- | --- | --- |
| `EventLoopLife` | 1 window whose XID may be reused, 3 outside actions, fairness | list, pixmaps and contract through every life of a window; the list comes to agree with the server |
| `EventLoopTwo` | 2 windows (symmetric), 2 actions, XIDs not reused | the same, and no pixmap leaked, with the events of one window behind the creation of another |
| `ContextListWalk` | root and 2 windows, 4 nodes, 3 window blocks, 2 closes | links, ownership, refinement of the stack, no listed window missed |
| `DamageDrawRepair` | 2 columns, 2 draws, 1 change of the width by the application and 1 move or change by the user, windows of both kinds, fairness | only copied damage is subtracted, but for what is cut off or lies beyond stale bounds; damage is stranded only under a box out of reach; the rest comes to be repaired |
| `WindowProps` | 2 windows (symmetric), 2 names, 2 changes | fields agree with properties once news has settled; no kill of a window that takes WM_DELETE_WINDOW |
| `Geometry` | 2 windows (symmetric) of either kind, 2 top edges, 2 heights, 4 steps of applications and user | the views of a window's place agree, but for windows an application has configured or that moved while not main; a grant changes only what was asked, unless overtaken |
| `Shutdown` | 2 windows, 3 nodes, 3 window blocks, 3 events, 2 processes and a compositor, fairness of the main thread | at most one process manages the display, and it has what it took; no misuse of memory in the close if the event thread is quiet; every window asked; the close ends |
| `Keyboard` | 2 keys, 3 modifier keys (2 Shifts), 1 button, 2 layouts and an unreadable one, 5 steps of the user, up to 2 of them runs of the program, 2 queued blocks | nothing stuck, modifiers right, the maps fit if both were installed, each entry stands for the layout's characters; with TLC evaluating the binary search on all tables of up to 4 rows and the normal form on all entries of 5 glyphs |
| `Sizing` | 1024 hints: 32 sets of flags, 2 values of each field; 25 sizes | limits, grid, nearness; aspect where the maximum leaves room for it (`RoomToGrow`); no creeping |

The bounds count what applications and user do (`MaxOps`, `MaxDraws`, `MaxResizes`, `MaxMoves`,
`MaxClose`, `MaxChanges`, `MaxEvents`, `MaxRuns`); what the program does in response is not bounded. Three
actions are enough for map, destroy and an event in between, or map, resize and
draw, with windows that may also exist at the start. Six pixmap XIDs are more than a
run can have bound at a time, so `UnusedPixmaps` never runs out. Four nodes are one
more than the list needs, so that freed memory is reused. Two columns give a box
that is left of, right of or as wide as another, and a window that is narrower or wider than its bounds;
one move or one change of the width already puts a box out of reach. Two
changes of properties put a change between two readings and another behind it, of
the same window or of the one it is transient for. Four steps show,
move, move and hide a window, or let two requests of one window cross. Three events let a
window be added, another one removed and its memory reused during the close; `MaxClose` is 0 there,
since closes by the user are the subject of `ContextListWalk`. Two processes and a compositor let
each of the requests of an opening fall between two of another. Five steps of the user are a chord
and its release, or a shortcut that turns into plain repeats, around a run of the program, or what fits
between two runs. The values of `Sizing` put the
increments, the limits and the ratios in conflict in each way the branches tell
apart. Except for `ContextListWalk` and `Sizing` the runs do not check deadlock:
when the applications have spent their actions, the program rests.

Fairness. `EventLoopLife`: weak fairness of the event thread, which the operating
system schedules, and of the server executing what has been *flushed*: requests
before one that the code flushes or whose reply it waits for. `DamageDrawRepair`: weak fairness of each thread (AppKit calls `drawRect`
while something needs display, and the lock is only ever held for a time), and of
the server for flushed requests. `Shutdown`: weak fairness of
the main thread once the user has quit, since nothing in the close waits; none of the event
thread. No fairness is assumed of the applications, nor of
requests left in the buffer; `EventuallyRepaired` therefore excepts an initial event
whose requests stay there, and a box that is out of reach.

## Disagreements found

Each is a run with expectation `violation`, and an entry under `findings`.

- `EventLoopNull`: a shape event about a window that has left the list, or a
  window destroyed while its shape is asked for, makes the thread use NULL.
- `ContextListFreed`: `xcwm_window_request_close` reads a window, or a node, that
  the event thread has freed.
- `DamageDrawLost`: what is drawn between copy and subtraction never reaches the
  screen.

Others are the reason why a property that holds is not stated more strongly:

- `StrandedOnlyOutside` admits damage under a box outside the window because
  `xcwm_window_configure` widens the box and keeps its origin, against the comment at
  `window.c:197` ("Set the damage area to the new window size so its redrawn properly");
  copying fails from then on. A change of the width by the application does the same to a box
  noted before.
- `StrandedOnlyOutside` also admits damage under a box beyond the view, and `OnlyCopiedIsSubtracted` what a
  repair takes beyond the bounds, because `window->bounds` is not renewed when the application
  changes the size. A report wider than the bounds is subtracted uncopied and only the bounds
  are added again (`event_loop.c:227-228`, `246-256`), though the comment at 245 says "Add new damage area for entire window".
- `EventuallyRepaired` excepts the requests for an initial damage event: they wait in the
  buffer, perhaps for ever.
- `PixmapsCurrent` does not promise a pixmap at CREATE: after a MapRequest there is
  none, so the full image xtoq asks for in that callback cannot be had.
- `NotKilled` is one-sided: a window that does not, or no longer, take WM_DELETE_WINDOW
  is not killed, since `wm_delete_set` is uninitialised and never lowered while there are
  protocols, against `window.h:104-105`.
- `UnaskedKept` excepts requests that were overtaken. `XMoveWindow` followed by
  `XResizeWindow` undoes the move if both are asked before the first is granted, since
  all four values are sent; the comment at `event_loop.c:475-479` calls this "a bad idea".
- `SafeIfQuiet` excepts a close during which the event thread works on the list: its
  lookup may then stand on a freed node.
- `NoStuckKey` and `ModifiersAgree` except what their histories name: a shortcut that
  auto-repeats as a plain key or is pressed again as one after a release elsewhere, and changes made while
  another application is active.
- `MapsFit` excepts a refused modifier map and a failed request: the program does not look at the status of
  the reply, and after an error of the first request (`keymap.c:498-501`) it sends the second all the same.
- `GlyphsInstalled` says what the entries stand for, not that all of it can be typed: what the layout gives with
  Option is the second group of an entry, and no key of the installed map is Mode_switch (`keymap.c:314-318` and
  `332-336` are left out by `#if 0`; Option is Mod1). Characters with Option can therefore not be typed.

## Proofs

For every value of the constants that satisfies the named assumptions:

- `EventLoopProofs`: `TypeCorrect`, `IInvHolds`, `ContractCorrect`. The inductive
  invariant `IInv` is `TypeOK` with `Control`, which says what the thread knows of
  its current window between two steps: off the list while it is created, on it
  while it is reported, off it while it is released. Without it, the step that
  begins a CREATE could not be shown to be about a window the client does not have.
  The refinement maps the `announced` windows to `managed`, less the one whose
  CREATE is under way, plus the one whose DESTROY is; every step is then a step of
  `CallbackContract` or a stutter. Assumed: the root, `NoWindow` and the windows
  differ, and so do XCB_NONE and the pixmaps.
  `LInvHolds` gives `ListMatches`: the list matches the server once all is read and
  executed. That is not inductive, for it says nothing of the time before. `LInv` says of
  each window that what the queue tells of it, in order, ends in what it is now (`QInv`: of
  a mapped window a MapNotify is the last word, of another one an unmap or destroy), and
  that what list and server disagree about is being settled (`TInv`): a viewable window off the
  list is still to be looked at, being created or has its MapNotify to read (`Listed`), a listed one that is not
  viewable has the event that removes it (`Late`), a damage object without a window in the list has the request
  to destroy it (`Marked`).
  `PInvHolds` gives `PixmapsAreCurrent`: no pixmap belongs to two windows or has a request
  to free it under way while it is held (`Held`); a listed, viewable window whose pixmap is not its
  backing pixmap has the event that will renew it in the queue, or the request for it
  under way (`Current`, `Owed`).
  `XInvHolds` gives `NoLeak`: every bound pixmap has an owner or a request to free it. This has the
  hypothesis `ReuseXids = FALSE`, and needs it: the DestroyNotify handler releases a window without
  freeing its pixmap, which is harmless only because an UnmapNotify came first. If an
  override-redirect window is destroyed, and its XID used for another that is mapped before
  the adoption has looked at it, the DestroyNotify of the first releases the second, and its pixmap stays:
  TLC finds this with one window and `MaxOps` 5.
- `ContextListProofs`: `LInvHolds` and from it `TypeCorrect`, `LinksCorrect`,
  `OwnedCorrect`, `NotMissedCorrect`, `StackCorrect`. The invariant describes the
  memory by the sequence `order` of its nodes: neighbours in it are linked in both
  directions, its first is the head, its nodes are exactly the allocated ones and
  own different windows. Lemmas say what adding in front and removing from the
  middle do to such a sequence. The walk needs one more part: while the window it
  seeks has been listed all along, its node is at or behind the walk's.
- `DamageDrawProofs`: `DInvHolds` (types, who holds the lock where, and that between
  copy and subtraction the copied box is `dmg_bounds`) gives `SubtractsCorrect`;
  `PInvHolds` (while there is damage, a report of it, a repair, a marking or a draw
  of a box is under way, or the box is out of reach) gives `StrandedCorrect` and,
  when neither user nor application moves or resizes windows, `NothingStranded`.
- `WindowPropsProofs`: `WInvHolds` and from it `TypeCorrect`, `PropertiesAgreeHolds`, `NotKilledHolds`,
  for any windows, values and number of changes. `Agree` says of each field of a window that it is up to
  date or there is news of it (`News`: an event about its property is queued, or the reading of it is
  still to be made); a change of a property breaks the first and makes the second, since
  the window's changes are selected before the first reading. `Made` says where what `malloc` left may still be
  in a name, a type or a transient_for: in no window that is in the list.
- `ShutdownProofs`: `ShInvHolds`, `LifeTypeCorrect`, `QuietCloseIsSafe`, `ClosePassesNone`, for any number
  of windows, nodes and events. While the loop of the close runs the event thread may
  leave pointers to freed memory anywhere. What survives (`Chain`) is that from some place on the nodes
  of `order` are those that were there when the close began and that it has not passed, rightly
  linked, and that nothing else points past the first of them. If the event thread keeps quiet,
  `Quiet` says that the whole list is right. `OneManagerHolds` is about any number of processes and
  compositors; its invariant `StInv` says what a process at each stage has been granted,
  and that one that lost the selection lost it to an active compositor.
- `SizingProofs`: `SizeFitsCorrect`, `SizeNearestCorrect`, `AspectKeptCorrect` and
  `SizeStableCorrect`, for all sound hints and all sizes. The invariant says of each direction that the size is a number of
  increments above the base, which `Fitted` establishes and `Adjusted` keeps: what it
  adds is not negative, being the distance to a ratio that is not met. For the aspect ratio, the
  second correction does not undo the first, as the ratios are in order; for stability, a fitted size
  is on the grid and within the limits, where fitting changes nothing.
- `KeyboardProofs`, from the parts to the whole:
  - `SearchFindsCorrect` and `RoundTripCorrect`, for a table of any length and any order `qsort`
    may leave. The recursion of the search is taken apart by hand: if some span had no answer there
    would be a narrowest one, whose halves have one. That the sorted copy has the same rows is a count
    of elements.
  - `GlyphsKeptCorrect`: what the normal form leaves out is what the server fills in.
  - `InputTypes`, `KInvHolds`, `NoStuckKeyCorrect`, `ModifiersAgreeCorrect`, for any keys,
    modifier keys, masks, buttons and length of the queue. The properties speak of a drained
    queue; the invariant therefore speaks of what *will* be down once it has drained
    (`WillBeDown`: the last block about a code decides, and without one the server's state). That a
    new block decides the fate of its code, that running the oldest block changes no fate, and that
    different inputs have different codes (buttons lie below `KeycodeOffset`) are the lemmas it rests on.
  - `KbInvHolds`, `KbTypeCorrect`, `MapsFitCorrect`, `GlyphsInstalledCorrect`,
    `ModifiersWorkCorrect`, for any layouts, table and number of runs of the program. `KbInv` says
    stage by stage where the two maps of the layout read are (`MapRead`, `ModsRead`): in the program,
    and each in the server if its request succeeded; what an entry of such a map stands for follows from the parts. `KbImplementsInput` carries the theorems about
    `KeyInput` over (`KbNoStuckKey`).

  Assumed of the constants: keysyms and characters of the table have 16 bits, its rows are in
  strictly increasing order of keysyms, none of which is Latin-1, a dead key or a modifier (the 774 rows of
  the code satisfy this); the modifier keys of a keyboard are among `known_keys`, each with the
  flag of its keysym, and no other key has a modifier's keysym there. A right Command key, whose code 54 is not in
  `known_keys`, is outside of this assumption: the program gives it no keysym.
- `GeometryProofs`: every property of the run `Geometry`, for any windows, any integer
  places and screen and any number of steps (only `None` must not be a window).
  `TypeCorrect` needs to know which windows have a Cocoa window and which one is being
  created (`Tables`). `ShownInPlaceCorrect` is then the arithmetic of the conversions,
  action by action. For `ServerInPlaceCorrect` the invariant speaks of what is on the wire:
  of the requests about a window the last one asks for its `bounds` (`LastSaid`); a new
  request becomes the last one, and executing the oldest changes that only for windows
  with no other. For `UnaskedKeptCorrect` it says that an event or granted request that is not
  marked as overtaken is the first change of its window on its way, so that what the
  application left out is still where the server has it (`AllKept`).

Every invariant and every action property that a run checks is stated by a theorem. Only
model-checked are the liveness properties, which the prover does not reach: `EventuallyAgrees`,
`EventuallyRepaired` and `CloseFinishes`. The three runs with expectation `violation` are
counterexamples and have nothing to prove. The theorem about `NoPixmapLeak` is for XIDs that are not used again,
as is the run.

## What is not modelled, and why

- Versions and event numbers of extensions in `init.c`; `keyboard.c`, motion in `input.c`, stacking, focus and the accessors: one
  request or one field each, without state that a sequence of steps could spoil.
- The root's ConfigureNotify (a resized screen): the root window's
  `composite_pixmap_id` is never initialised, so what the handler frees is an
  arbitrary XID.
- Expose, CreateNotify, MappingNotify and error events: the handlers print, or call
  back with whatever `return_evt` held; Expose is never selected.
- Drawing (`XtoqImageRep`), menus and launching of clients, printing.
- `EventLoopLife`, where XIDs are reused, does not claim `NoPixmapLeak`, which then
  fails after five outside actions (see Proofs).
- Writing WM_STATE, which nothing here reads; interning atoms.
- Overflow of the products in `xcwm_window_constrain_sizing`, and hints that
  contradict each other.
- The closing of the connection while the cancelled thread, or blocks of the dispatch
  queue, still use it; the walk of a close that the user asked for during the shutdown.
- The memory of events (`return_evt`, which the callback frees although it is on the
  event thread's stack) and of names.
- Layouts of the older kchr kind, `modMap` and `modifierKeycodes`, and the functions on
  key data in `keymap.c` that nothing calls. In the runs the table of keysyms is represented by a few rows.
- In `Geometry`: adoption of windows that exist at the start, which takes the same way as
  HandleMap; destruction, which the library treats like unmapping; and screens that change.

## Plan

In order: (1) what a new window holds of `malloc`'s memory, as a property of what the client reads in
`createNewWindow`, with its theorem; (2) the fields that `_xcwm_atoms_init` leaves unwritten when another
compositor owns the selection, and who uses them; (3) the memory of the event that is handed to
the callback, which two branches of the loop never free; (4) stacking and focus requests, as far as a sequence of
them can go wrong.
