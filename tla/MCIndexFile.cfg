SPECIFICATION Spec
CONSTANTS
    Indexes <- MCIndexes
    HeaderSize = 8
    CountEnd = 4
    size_data_per_element = 3
    size_links_per_element = 3
    SizeOfUnsigned = 2
    Rooms <- MCRooms
    Garbage = {0, 3}
    None = None
INVARIANTS TornFileRefused LoadRestores
