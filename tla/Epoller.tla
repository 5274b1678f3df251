------------------------------- MODULE Epoller -------------------------------
(***************************************************************************)
(* Epoller and Channel (net/Epoller.cc, net/Channel.h): what updateChannel *)
(* and removeChannel do to channels_, to the kernel's interest list and to *)
(* the channel's index_.  The modules that own channels keep the state and *)
(* use these operators in their actions.                                   *)
(*                                                                         *)
(* An epoller is a record: channels is the map channels_, kernel is the    *)
(* interest list of epollfd_, errors the error numbers epoll_ctl has       *)
(* answered.  A channel is a record of fd_, index_ and events_.            *)
(***************************************************************************)

CONSTANTS
  Channels,   \* the Channel objects there may be
  Fds         \* the descriptors the process may have

NoChannel == "none"

Indices == {"kNew", "kAdded", "kDeleted"}
Events == {"read", "write"}

EpollerType ==
  [channels : [Fds -> Channels \cup {NoChannel}],
   kernel : SUBSET Channels,
   errors : SUBSET {"EEXIST", "ENOENT"}]

ChannelType == [fd : Fds, index : Indices, events : SUBSET Events]

\* The constructors.
NewEpoller ==
  [channels |-> [f \in Fds |-> NoChannel], kernel |-> {}, errors |-> {}]
NewChannel(f) == [fd |-> f, index |-> "kNew", events |-> {}]

\* epoll_ctl.  EPOLL_CTL_ADD and EPOLL_CTL_MOD that fail end the program
\* (LOG_FATAL), EPOLL_CTL_DEL only logs.
Failed(ep, errno) == [ep EXCEPT !.errors = @ \cup {errno}]
CtlAdd(ep, c) ==
  IF c \in ep.kernel THEN Failed(ep, "EEXIST")
  ELSE [ep EXCEPT !.kernel = @ \cup {c}]
CtlMod(ep, c) ==
  IF c \in ep.kernel THEN ep ELSE Failed(ep, "ENOENT")
CtlDel(ep, c) ==
  IF c \in ep.kernel THEN [ep EXCEPT !.kernel = @ \ {c}]
  ELSE Failed(ep, "ENOENT")

\* updateChannel(c), ch being the channel with its new events_.
Updated(ep, c, ch) ==
  CASE ch.index = "kNew"     -> CtlAdd([ep EXCEPT !.channels[ch.fd] = c], c)
    [] ch.index = "kDeleted" -> CtlAdd(ep, c)
    [] ch.index = "kAdded"   -> IF ch.events = {} THEN CtlDel(ep, c) ELSE CtlMod(ep, c)

\* Mutant: a channel taken out of epoll keeps the index of one that is in it.
IndexAfterUpdate_Added(ch) == "kAdded"

\* The index_ updateChannel leaves.
IndexAfterUpdate(ch) ==
  IF ch.index = "kAdded" /\ ch.events = {} THEN "kDeleted" ELSE "kAdded"

UpdatedChannel(ch) == [ch EXCEPT !.index = IndexAfterUpdate(ch)]

\* removeChannel(c).
Removed(ep, c, ch) ==
  LET forgotten == [ep EXCEPT !.channels[ch.fd] = NoChannel] IN
  IF ch.index = "kAdded" THEN CtlDel(forgotten, c) ELSE forgotten

RemovedChannel(ch) == [ch EXCEPT !.index = "kNew"]

\* Channel::enableReading, enableWriting, disableWriting and disableAll change
\* events_ and call updateChannel.
WithEvents(ch, events) == [ch EXCEPT !.events = events]

\* Channel::disableAll and Channel::remove, as the pair of what they leave of
\* the channel and of the epoller.
Disabled(ep, c, ch) ==
  LET none == WithEvents(ch, {}) IN
  [ch |-> UpdatedChannel(none), ep |-> Updated(ep, c, none)]
Forgotten(ep, c, ch) == [ch |-> RemovedChannel(ch), ep |-> Removed(ep, c, ch)]
==============================================================================
