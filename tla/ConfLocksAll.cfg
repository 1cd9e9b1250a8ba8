SPECIFICATION Spec
CONSTANTS
  Threads = {u1, u2, nt}
  Notifier = nt
  NoThread = NoThread
  UserOps = {"add_action", "action_on_update", "register_converter", "convert", "subscribe", "unsubscribe", "read_attribute", "read_relation", "set_value", "UID", "is_deleted", "get_object", "get_includes", "get_versions", "load", "add_include", "remove_include", "destroy_obj", "commit", "prefetch_all_data", "abort", "rename_object", "rename", "unload", "unread_implementation_objects", "print_profiling_info", "destructor", "get_class_info", "attributes_pybind", "relations_pybind", "classes_pybind", "print", "export_schema", "export_data", "print_ref", "get_cached", "is_valid", "get_uncached", "get_by_object", "get_all", "ref", "referenced_by", "unread_template_objects", "check_init", "print_object", "castable", "cast", "get_rel_objects", "get_algo_objects", "config_object", "unread", "set_object", "set_object_back"}
  NotifyOps = {"system_pre_cb"}
  CallbackOps = {"get_all"}
  Protected = {"tmplObjs", "implObjs", "handle", "id", "schema", "actions", "callbacks", "callbackCount", "converters", "wasRead"}
  MaxCalls = 1
INVARIANTS
  RacesOnlyUnguarded
  CirclesOnlyUngated
SYMMETRY
  Clients
\* unload() and a callback do stop each other.
CHECK_DEADLOCK FALSE
