SPECIFICATION Spec
CONSTANTS
  Threads = {u1, u2, nt}
  Notifier = nt
  NoThread = NoThread
  UserOps = {"unload", "get_object"}
  NotifyOps = {"system_cb"}
  CallbackOps = {"none", "get_all"}
  Protected = {"tmplObjs", "implObjs", "schema", "actions", "callbacks", "converters"}
  MaxCalls = 1
INVARIANT
  NoCircularWait
