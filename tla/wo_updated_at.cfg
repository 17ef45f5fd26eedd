SPECIFICATION OrdersSpec
CONSTANTS
    Clients = {m, a}
    Managers = {m}
    Statuses = {"pending", "in-progress", "completed"}
    Keep = Keep
    OrderKinds = {"patch"}
    PatchModes = {"updated_at"}
    MaxOpened = 2
CHECK_DEADLOCK FALSE
PROPERTIES NoSilentOverwrite
