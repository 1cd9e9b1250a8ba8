SPECIFICATION FairSpec
CONSTANTS
  Threads = {u1, u2, nt}
  Notifier = nt
  NoThread = NoThread
  UserOps = {"subscribe", "get_object", "load", "abort", "rename_object", "set_value", "unread_implementation_objects", "get_by_object", "get_all"}
  NotifyOps = {"system_pre_cb", "system_cb"}
  CallbackOps = {"none", "get_all"}
  Protected = {"tmplObjs", "schema", "actions", "callbacks"}
  MaxCalls = 1
INVARIANTS
  OwnershipOK
  NoDataRace
  NoCircularWait
PROPERTY
  EveryCallReturns
