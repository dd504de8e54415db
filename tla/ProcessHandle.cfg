\* Three waits of one handle, beside a signal, on a machine with two users.
SPECIFICATION FairSpec
CONSTANTS
  w1 = w1
  w2 = w2
  w3 = w3
  user = user
  root = root
  Waiters = {w1, w2, w3}
  success = success
  failure = failure
  Statuses = {success, failure}
  Uids = {0, 1}
  Names = {user, root}
  UidOf <- MCUidOf
  Default = user
  Nobody = Nobody
  Unknown = Unknown
INVARIANTS TypeOK RunsAs SameAnswer KilledByDrop
PROPERTIES NoStraySignal WaitEnds
\* Nothing happens once the handle is dropped, or was never made.
CHECK_DEADLOCK FALSE
